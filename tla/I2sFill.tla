------------------------------- MODULE I2sFill -------------------------------
(***************************************************************************)
(* The arithmetic of playback in sound/oss/jz_i2s.c: how write() cuts its  *)
(* bytes into fragments, how the replay_fill functions expand the samples  *)
(* of a fragment to 32-bit words, and what the DMA channel is told to      *)
(* send, for every order of the ioctls that change the format, the         *)
(* channels and the fragment size.  The samples themselves are left out.   *)
(***************************************************************************)
EXTENDS Integers

CONSTANTS
    PAGE_SIZE,      \* bytes of a page (source: 4096)
    Counts          \* bound: the byte counts a program may write

ASSUME FillAssumption ==
    /\ PAGE_SIZE \in Nat /\ PAGE_SIZE % 16 = 0 /\ PAGE_SIZE > 0
    /\ Counts \subseteq Nat \ {0}

VARIABLES
    format, channels,   \* jz_audio_format, jz_audio_channels; "none" and 0 at boot
    filler,             \* replay_filler: the pair it is for
    b,                  \* jz_audio_b, bytes of the DMA buffer per byte of a sample
    fragsize,           \* jz_audio_fragsize
    ds,                 \* bytes of one unit of the DMA channel (chan->mode)
    count, ret, copy,   \* jz_audio_write: total, done, and per fragment
    stored,             \* bytes the filler stored into the last buffer
    data_count,         \* out_dma_buf_data_count of that buffer
    units               \* DTCR: units the DMA channel was told to send, or -1

fillVars == <<format, channels, filler, b, fragsize, ds, count, ret, copy, stored,
          data_count, units>>

NoFiller == <<"none", 0>>

FillInit ==
    /\ format = "none" /\ channels = 0 /\ filler = NoFiller /\ b = 0
    /\ fragsize = 5 * PAGE_SIZE
    /\ ds = 4
    /\ count = 0 /\ ret = 0 /\ copy = 0
    /\ stored = 0 /\ data_count = 0 /\ units = -1

Idle == ret = count

-----------------------------------------------------------------------------
(* The ioctls.                                                             *)

\* jz_update_filler: bytes of a 32-bit word per byte of a sample.
Expand(f) == IF f = "U8" THEN 4 ELSE 2

update_filler(f, c) ==
    IF f # "none" /\ c # 0
      THEN filler' = <<f, c>> /\ b' = Expand(f)
      ELSE UNCHANGED <<filler, b>>

\* SNDCTL_DSP_SETFMT.
SetFormat(f) ==
    /\ Idle
    /\ format' = f
    /\ update_filler(f, channels)
    /\ UNCHANGED <<channels, fragsize, ds, count, ret, copy, stored, data_count, units>>

\* SNDCTL_DSP_CHANNELS, SNDCTL_DSP_STEREO.
SetChannels(c) ==
    /\ Idle
    /\ channels' = c
    /\ update_filler(format, c)
    /\ UNCHANGED <<format, fragsize, ds, count, ret, copy, stored, data_count, units>>

\* SNDCTL_DSP_SETFRAGMENT: a power of two between 4 and 16 pages.
SetFragsize(pages) ==
    /\ Idle
    /\ fragsize' = pages * PAGE_SIZE
    /\ UNCHANGED <<format, channels, filler, b, ds, count, ret, copy, stored, data_count, units>>

\* SNDCTL_DSP_GETOSPACE: bytes offered for n empty fragments.
OSpaceBytes(n) ==
    IF channels = 2 THEN (n * fragsize) \div b ELSE (n * fragsize) \div 4

-----------------------------------------------------------------------------
(* jz_audio_write.                                                         *)

\* MUTANT: a fragment takes the same bytes of a program in mono and in stereo.
CopyCountStereo == fragsize \div b

\* MUTANT: one byte is kept free.
CopyCountShort == (IF channels = 2 THEN fragsize \div b ELSE fragsize \div 4) - 1

\* Bytes of the program that fill one fragment.
CopyCount ==
    IF channels = 2 THEN fragsize \div b ELSE fragsize \div 4

FillWrite(n) ==
    /\ Idle /\ filler # NoFiller
    /\ count' = n /\ ret' = 0
    /\ copy' = CopyCount
    /\ UNCHANGED <<format, channels, filler, b, fragsize, ds, stored, data_count, units>>

\* "the end fragment size in this write".
LastCopy == IF ret + copy > count THEN count - ret ELSE copy

\* The loops of the replay_fill functions: samples in n bytes, words stored.
Samples(n) == IF filler[1] = "U8" THEN n ELSE (n + 1) \div 2
Words(n) == IF filler[2] = 1 THEN 2 * Samples(n) ELSE Samples(n)

\* cnt * jz_audio_b, doubled for mono, with cnt counted in bytes of samples.
DataCount(n) ==
    (IF filler[1] = "U8" THEN n ELSE 2 * Samples(n)) * (IF filler[2] = 1 THEN 2 * b ELSE b)

\* One turn of the loop: fill a buffer and start the DMA on it.  The DMA may
\* start later, from the interrupt, but always with this data_count.
Fill ==
    /\ ~Idle
    /\ copy' = LastCopy
    /\ ret' = ret + LastCopy
    /\ stored' = 4 * Words(LastCopy)
    /\ data_count' = DataCount(LastCopy)
    /\ ds' = IF format = "S16" THEN 16 ELSE ds          \* jz_set_oss_dma
    /\ units' = data_count' \div ds'                    \* set_dma_count
    /\ UNCHANGED <<format, channels, filler, b, fragsize, count>>

FillNext ==
    \/ \E f \in {"U8", "S16"} : SetFormat(f)
    \/ \E c \in {1, 2} : SetChannels(c)
    \/ \E pages \in {4, 8, 16} : SetFragsize(pages)
    \/ \E n \in Counts : FillWrite(n)
    \/ Fill

FillSpec == FillInit /\ [][FillNext]_fillVars

-----------------------------------------------------------------------------
(* Properties.                                                             *)

\* Formats, sizes and counts are well formed; in particular the loop of
\* jz_audio_write never takes more bytes than the program has given it.
FillTypeOK ==
    /\ format \in {"none", "U8", "S16"} /\ channels \in 0..2 /\ b \in {0, 2, 4}
    /\ filler \in {"none", "U8", "S16"} \X (0..2)
    /\ fragsize \in {p * PAGE_SIZE : p \in {4, 5, 8, 16}} /\ ds \in {4, 16}
    /\ count \in Nat /\ ret \in 0..count /\ copy \in Nat
    /\ stored \in Nat /\ data_count \in Nat /\ units \in Nat \cup {-1}

\* A filled fragment is no longer than the fragment size for which its buffer
\* was allocated, in every format but 8-bit mono, where it is twice as long.
FitsUnlessMono8 == [][Fill /\ filler # <<"U8", 1>> => stored' <= fragsize]_fillVars

\* What SNDCTL_DSP_GETOSPACE offers for n empty fragments, written at once,
\* takes exactly n fragments, after any sequence of format, channel and
\* fragment changes; and every count stays in its range.
SpaceIsHonest ==
    /\ FillTypeOK
    /\ filler # NoFiller =>
        \A n \in 1..32 : OSpaceBytes(n) = n * CopyCount /\ CopyCount > 0

\* The DMA sends what the filler has stored, counted in units of 4 or 16 bytes:
\* it drops no sample of a fragment that is followed by another one of the same
\* write, whatever formats and sizes were set before.
FragmentsSentWhole == [][Fill /\ ret' < count => units' * ds' = stored']_fillVars
=============================================================================
