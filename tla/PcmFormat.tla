----------------------------- MODULE PcmFormat -----------------------------
(***************************************************************************)
(* The format translator of device.c and the PCM configuration device_open *)
(* builds from a device's media config: get_pcm_bits_per_sample, the       *)
(* agm_to_pcm_format table, and the period-size                           *)
(* arithmetic, together with device_set_media_config, which stores the    *)
(* client's media config unchecked.                                         *)
(*                                                                         *)
(* Formats are named by their enum suffix; "INVALID" stands for the value  *)
(* 0 of a calloc'd device object and for every other value the switches   *)
(* send to their default.  The unsigned arithmetic is done modulo          *)
(* 2^Width: 32 in the code, a smaller width in the runs (every value the   *)
(* arithmetic meets, MAX_PERIOD_BUFFER included, fits in 16 bits).         *)
(***************************************************************************)
EXTENDS Integers

CONSTANTS
    Width,          \* width of unsigned int
    ChannelValues   \* channel counts a client may set

(* The values of unsigned int are 0..UIntRange-1.                          *)
UIntRange == 2^Width

ASSUME PcmFormatAssumption ==
    /\ Width \in Nat /\ Width >= 14
    /\ UIntRange \in Nat \ {0}
    /\ ChannelValues \subseteq 0..(UIntRange - 1)

MAX_PERIOD_BUFFER    == 8192
DEFAULT_PERIOD_COUNT == 2

AgmFormats == {"S8", "S16_LE", "S24_LE", "S24_3LE", "S32_LE", "INVALID"}

(* The formats the two translation tables map to themselves; every other  *)
(* value falls to the default, S16_LE.                                     *)
Translated == {"S32_LE", "S8", "S24_3LE", "S24_LE"}

(* unsigned int multiplication.                                             *)
MulU(a, b) == (a * b) % UIntRange

VARIABLES
    media,      \* dev_obj->media_config: [channels, format]
    result,     \* how the last first-opener's computation ended: "none",
                \* "ok" or "SIGFPE"
    config      \* the pcm_config it handed to the driver

vars == <<media, result, config>>

(* The memset pcm_config.                                                   *)
ZeroConfig == [channels |-> 0, format |-> "S16_LE", period_size |-> 0,
               period_count |-> 0, start_threshold |-> 0]

Init ==
    /\ media = [channels |-> 0, format |-> "INVALID"]
    /\ result = "none"
    /\ config = ZeroConfig

-----------------------------------------------------------------------------
(* Plausible bugs of the code below, each checked to be caught by a        *)
(* property (see PROJECT.json "mutants").                                  *)

(* S24_LE counted as 24 bits, the width of its samples, not of its slots. *)
get_pcm_bits_per_sample_packed(f) ==
    CASE f = "S8"      -> 8
      [] f = "S24_LE"  -> 24
      [] f = "S24_3LE" -> 24
      [] f = "S32_LE"  -> 32
      [] OTHER         -> 16

-----------------------------------------------------------------------------
(* get_pcm_bits_per_sample: bits one sample occupies in the buffer.       *)
get_pcm_bits_per_sample(f) ==
    CASE f = "S8"      -> 8
      [] f = "S24_LE"  -> 32
      [] f = "S24_3LE" -> 24
      [] f = "S32_LE"  -> 32
      [] OTHER         -> 16

(* agm_to_pcm_format (agm_to_alsa_format of the alsa-lib build has the    *)
(* same cases and the same default).                                       *)
agm_to_pcm_format(f) == IF f \in Translated THEN f ELSE "S16_LE"

(* Bytes of one frame as device_open computes them: channels times bytes *)
(* per sample, an unsigned product.                                         *)
FrameBytes(m) == MulU(m.channels, get_pcm_bits_per_sample(m.format) \div 8)

(* The pcm_config of device_open: period_size = MAX_PERIOD_BUFFER over    *)
(* the frame bytes, a quarter of it as start threshold.                     *)
PcmConfig(m) ==
    [channels        |-> m.channels,
     format          |-> agm_to_pcm_format(m.format),
     period_size     |-> MAX_PERIOD_BUFFER \div FrameBytes(m),
     period_count    |-> DEFAULT_PERIOD_COUNT,
     start_threshold |-> (MAX_PERIOD_BUFFER \div FrameBytes(m)) \div 4]

(* device_set_media_config: the client's values are copied as they are.   *)
device_set_media_config(c, f) ==
    /\ result # "SIGFPE"
    /\ media' = [channels |-> c, format |-> f]
    /\ UNCHANGED <<result, config>>

(* The first device_open of the device computes the pcm_config; a frame   *)
(* of 0 bytes is a division by zero, which ends the process.                *)
device_open_config ==
    /\ result # "SIGFPE"
    /\ \/ /\ FrameBytes(media) = 0
          /\ result' = "SIGFPE"
          /\ UNCHANGED config
       \/ /\ FrameBytes(media) # 0
          /\ result' = "ok"
          /\ config' = PcmConfig(media)
    /\ UNCHANGED media

Next ==
    \/ \E c \in ChannelValues, f \in AgmFormats : device_set_media_config(c, f)
    \/ device_open_config

Spec == Init /\ [][Next]_vars

-----------------------------------------------------------------------------
(* The reference: bytes per frame slot of each driver format, as the      *)
(* driver lays samples out (S24_LE is 24 bits in 4 bytes).                 *)
DriverSampleBytes(f) ==
    CASE f = "S8" -> 1 [] f = "S16_LE" -> 2 [] f = "S24_3LE" -> 3
      [] f = "S24_LE" -> 4 [] f = "S32_LE" -> 4

(* The period device_open asks for is the largest whole number of frames *)
(* that fits the fixed buffer budget when the driver lays it out in the   *)
(* format it was handed: the bits the translator counts per sample agree  *)
(* with the driver's format, whatever media config the client set.        *)
PeriodWithinBudget ==
    result = "ok" =>
        LET frameBytes == config.channels * DriverSampleBytes(config.format)
            bytes      == config.period_size * frameBytes
        IN  MAX_PERIOD_BUFFER - frameBytes < bytes /\ bytes <= MAX_PERIOD_BUFFER

=============================================================================
