------------------------------- MODULE MCSender -------------------------------
(* Instances of Sender for TLC. *)
EXTENDS Sender, SequencesExt

CONSTANTS p1, p2, i1

SubscribeVideo == {[on |-> {"video"}, off |-> {}, framed |-> TRUE]}

\* A video subscription with preview on, a tally that replaces the one before, and
\* bytes that are no frame.
MonitorMessages ==
    { [on |-> {"video", "preview"}, off |-> {}, framed |-> TRUE],
      [on |-> {"tallyProgram"}, off |-> {"tallyPreview"}, framed |-> TRUE],
      [on |-> {}, off |-> {}, framed |-> FALSE] }

\* ApplyAll is the loop of apply_metadata calls: for every sequence of up to two
\* messages about two flags, with and without a message that both lowers and raises,
\* up to the first that is not framed.
ASSUME ApplyAllIsTheLoop ==
    LET Msgs == [on : SUBSET {"preview", "tallyProgram"}, off : SUBSET {"preview", "tallyProgram"},
                 framed : BOOLEAN]
    IN  \A st \in SUBSET {"video", "preview", "tallyProgram"} :
            \A s \in UNION {[1..n -> Msgs] : n \in 0..2} :
                \E k \in 0..Len(s) :
                    /\ \A j \in 1..k : s[j].framed
                    /\ k < Len(s) => ~s[k + 1].framed
                    /\ ApplyAll(st, s) = FoldLeft(ApplyMetadata, st, SubSeq(s, 1, k))
=============================================================================
