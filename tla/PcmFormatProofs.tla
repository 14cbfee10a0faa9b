-------------------------- MODULE PcmFormatProofs --------------------------
(***************************************************************************)
(* Proofs about PcmFormat, for every width of unsigned int and every set  *)
(* of channel counts whose frames fit in it.                               *)
(***************************************************************************)
EXTENDS PcmFormat, TLAPS

(* The channel counts clients set are non-zero, and channels times the    *)
(* widest sample (4 bytes) is below 2^Width: the unsigned product of      *)
(* device_open never wraps.                                                 *)
NoOverflow == \A c \in ChannelValues : c > 0 /\ 4 * c < UIntRange

DriverFormats == {"S8", "S16_LE", "S24_3LE", "S24_LE", "S32_LE"}

(* The inductive invariant: the types of the media config and of the      *)
(* outcome, and a pcm_config handed to the driver was computed from a     *)
(* client's channel count with the driver's frame size.                    *)
IInv ==
    /\ media.channels \in ChannelValues \cup {0}
    /\ media.format \in AgmFormats
    /\ result \in {"none", "ok", "SIGFPE"}
    /\ result = "ok" =>
         /\ config.channels \in ChannelValues
         /\ config.format \in DriverFormats
         /\ config.period_size =
              MAX_PERIOD_BUFFER \div (config.channels * DriverSampleBytes(config.format))

(* Whole-number division: d times n \div d is at most n and more than     *)
(* n - d.                                                                   *)
LEMMA DivBounds ==
    ASSUME NEW n \in Nat, NEW d \in Nat \ {0}
    PROVE  d * (n \div d) <= n /\ n - d < d * (n \div d)
BY SMT

(* The translator's bytes per sample are the driver's for the format it   *)
(* translates to.                                                           *)
LEMMA SampleBytesAgree ==
    ASSUME NEW f \in AgmFormats
    PROVE  /\ agm_to_pcm_format(f) \in DriverFormats
           /\ get_pcm_bits_per_sample(f) \div 8
                = DriverSampleBytes(agm_to_pcm_format(f))
           /\ DriverSampleBytes(agm_to_pcm_format(f)) \in 1..4
BY DEF AgmFormats, DriverFormats, Translated, agm_to_pcm_format,
       get_pcm_bits_per_sample, DriverSampleBytes

(* Without overflow, device_open's frame is channels times the driver's   *)
(* sample size, and it is 0 exactly when the channel count is 0.          *)
LEMMA FrameExact ==
    ASSUME NoOverflow, NEW m, m.channels \in ChannelValues \cup {0},
           m.format \in AgmFormats
    PROVE  /\ FrameBytes(m) = m.channels * DriverSampleBytes(agm_to_pcm_format(m.format))
           /\ (FrameBytes(m) = 0) <=> (m.channels = 0)
<1>1. PICK k \in 1..4 : /\ k = DriverSampleBytes(agm_to_pcm_format(m.format))
                        /\ get_pcm_bits_per_sample(m.format) \div 8 = k
  BY SampleBytesAgree
<1>2. UIntRange \in Nat \ {0}
  BY PcmFormatAssumption
<1>3. m.channels \in Nat
  <2>1. ChannelValues \subseteq Nat
    BY PcmFormatAssumption
  <2>2. CASE m.channels \in ChannelValues
    BY <2>1, <2>2, Zenon
  <2>3. CASE m.channels = 0
    BY <2>3
  <2>4. QED
    BY <2>2, <2>3, Zenon
<1>4. m.channels * k < UIntRange \/ m.channels = 0
  <2>1. CASE m.channels = 0
    BY <2>1
  <2>2. CASE m.channels # 0
    <3>1. 4 * m.channels < UIntRange
      BY <2>2 DEF NoOverflow
    <3>2. m.channels * k <= 4 * m.channels
      BY <1>1, <1>3
    <3>3. QED
      BY <3>1, <3>2, <1>2, <1>3, <1>1
  <2>3. QED
    BY <2>1, <2>2
<1>5. FrameBytes(m) = (m.channels * k) % UIntRange
  BY <1>1 DEF FrameBytes, MulU
<1>6. (m.channels * k) % UIntRange = m.channels * k
  BY <1>1, <1>2, <1>3, <1>4
<1>7. QED
  BY <1>1, <1>3, <1>5, <1>6

(* The calloc'd device object: no media config, nothing computed.          *)
LEMMA InitIInv == Init => IInv
<1>1. "INVALID" \in AgmFormats
  BY DEF AgmFormats
<1>2. QED
  BY <1>1 DEF Init, IInv, ZeroConfig

(* device_set_media_config stores a client's channel count and format.    *)
LEMMA SetMediaStep ==
    ASSUME IInv, NEW c \in ChannelValues, NEW f \in AgmFormats,
           device_set_media_config(c, f)
    PROVE  IInv'
BY DEF IInv, device_set_media_config

(* device_open computes the pcm_config of the stored media config; with   *)
(* no overflow its frame is the driver's, and a frame of 0 bytes (no media *)
(* config yet) ends in SIGFPE.                                              *)
LEMMA OpenStep ==
    ASSUME NoOverflow, IInv, device_open_config
    PROVE  IInv'
<1>1. /\ FrameBytes(media) = media.channels * DriverSampleBytes(agm_to_pcm_format(media.format))
      /\ (FrameBytes(media) = 0) <=> (media.channels = 0)
  BY FrameExact DEF IInv
<1>2. agm_to_pcm_format(media.format) \in DriverFormats
  BY SampleBytesAgree DEF IInv
<1>3. CASE FrameBytes(media) = 0 /\ result' = "SIGFPE" /\ UNCHANGED config
  BY <1>3 DEF IInv, device_open_config
<1>4. CASE FrameBytes(media) # 0 /\ result' = "ok" /\ config' = PcmConfig(media)
  <2>1. media.channels \in ChannelValues
    BY <1>1, <1>4 DEF IInv
  <2>2. config'.period_size =
          MAX_PERIOD_BUFFER \div (config'.channels * DriverSampleBytes(config'.format))
    BY <1>1, <1>4 DEF PcmConfig
  <2>3. QED
    BY <1>2, <1>4, <2>1, <2>2 DEF IInv, device_open_config, PcmConfig
<1>5. QED
  BY <1>3, <1>4 DEF device_open_config

(* A stutter leaves IInv as it is.                                          *)
LEMMA UnchangedStep ==
    ASSUME IInv, UNCHANGED vars
    PROVE  IInv'
BY DEF IInv, vars

(* IInv, with no overflow, gives the property: the period is the largest   *)
(* whole number of driver frames within MAX_PERIOD_BUFFER.                  *)
LEMMA IInvBudget ==
    ASSUME NoOverflow, IInv
    PROVE  PeriodWithinBudget
<1>. SUFFICES ASSUME result = "ok"
              PROVE  LET frameBytes == config.channels * DriverSampleBytes(config.format)
                         bytes      == config.period_size * frameBytes
                     IN  MAX_PERIOD_BUFFER - frameBytes < bytes /\ bytes <= MAX_PERIOD_BUFFER
  BY DEF PeriodWithinBudget
<1>1. config.channels \in Nat \ {0}
  <2>1. config.channels \in ChannelValues
    BY DEF IInv
  <2>2. \A x \in ChannelValues : x \in Nat /\ x > 0
    BY PcmFormatAssumption DEF NoOverflow
  <2>3. QED
    BY <2>1, <2>2
<1>2. DriverSampleBytes(config.format) \in 1..4
  BY DEF IInv, DriverFormats, DriverSampleBytes
<1>3. config.channels * DriverSampleBytes(config.format) \in Nat \ {0}
  BY <1>1, <1>2
<1>4. config.period_size =
        MAX_PERIOD_BUFFER \div (config.channels * DriverSampleBytes(config.format))
  BY DEF IInv
<1>5. PICK d \in Nat \ {0} : d = config.channels * DriverSampleBytes(config.format)
  BY <1>3
<1>6. d * (8192 \div d) <= 8192 /\ 8192 - d < d * (8192 \div d)
  BY DivBounds
<1>7. QED
  BY <1>4, <1>5, <1>6 DEF MAX_PERIOD_BUFFER

(* device_open's period never exceeds the buffer budget and wastes less  *)
(* than one frame of it, for every width of unsigned int and every set of *)
(* channel counts that cannot overflow the frame product.                 *)
THEOREM PeriodsFitBudget ==
    ASSUME NoOverflow
    PROVE  Spec => []PeriodWithinBudget
<1>1. Init => IInv
  BY InitIInv
<1>2. IInv /\ [Next]_vars => IInv'
  <2>. SUFFICES ASSUME IInv, [Next]_vars PROVE IInv'
    OBVIOUS
  <2>1. CASE \E c \in ChannelValues, f \in AgmFormats : device_set_media_config(c, f)
    BY <2>1, SetMediaStep
  <2>2. CASE device_open_config
    BY <2>2, OpenStep
  <2>3. CASE UNCHANGED vars
    BY <2>3, UnchangedStep
  <2>4. QED
    BY <2>1, <2>2, <2>3 DEF Next
<1>3. IInv => PeriodWithinBudget
  BY IInvBudget
<1>4. QED
  BY <1>1, <1>2, <1>3, PTL DEF Spec
=============================================================================
