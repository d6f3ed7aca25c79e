-------------------------------- MODULE Fpa1 ---------------------------------
(***************************************************************************)
(* The FPA1 audio codec (codec/fpa1.rs).  A plane stands for the samples   *)
(* of one channel, all of the same length; Silent is the plane whose       *)
(* samples are all +0.0, the only one encode_planar leaves out.  Channels  *)
(* are counted from 1, and the bitfield of active channels is a set.       *)
(***************************************************************************)
EXTENDS Naturals, Sequences, FiniteSets

CONSTANTS Silent,
          MaxChannels  \* 32, the width of the bitfield

ASSUME MaxChannelsAssumption == MaxChannels \in Nat

\* Both directions refuse no channels and too many.
LegalCount(channels) == channels \in 1..MaxChannels

\* How many planes of the payload come before channel i's.
Rank(active, i) == Cardinality({j \in active : j < i})

\* encode_planar: the planes that are not silent, in the order of their channels.
EncodePlanar(planes) ==
    LET active == {i \in DOMAIN planes : planes[i] # Silent}
    IN  [payload |-> [k \in 1..Cardinality(active) |->
                        planes[CHOOSE i \in active : Rank(active, i) = k - 1]],
         active  |-> active]

\* decode_planar_into counts every active bit, also those past the last channel,
\* and does not mind data after the last plane.
Decodable(data, channels, active) ==
    LegalCount(channels) /\ Cardinality(active) <= Len(data)

\* Mutant of DecodePlanar: planes are looked for as if none had been left out.
MutPlaneOffset(data, channels, active) ==
    [i \in 1..channels |-> IF i \in active /\ i <= Len(data) THEN data[i] ELSE Silent]

DecodePlanar(data, channels, active) ==
    [i \in 1..channels |-> IF i \in active THEN data[Rank(active, i) + 1] ELSE Silent]
=============================================================================
