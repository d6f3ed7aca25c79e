---------------------------- MODULE MCFrameChannel --------------------------
(* TLC instance of FrameChannel: every stream of up to MaxStream frames with   *)
(* bodies from Bodies, of every form.                                          *)
EXTENDS FrameChannel

CONSTANTS Bodies, MaxStream

RECURSIVE Laid(_)
Laid(n) ==
    IF n = 0 THEN {<<>>}
    ELSE {Append(s, [start |-> IF s = <<>> THEN 0 ELSE s[n - 1].start + Size(s[n - 1]),
                     body |-> b, form |-> f]) :
              s \in Laid(n - 1), b \in Bodies, f \in Forms}

AllStreams == UNION {Laid(n) : n \in 0..MaxStream}
=============================================================================
