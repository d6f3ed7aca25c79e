---------------------------- MODULE VideoEncoder -----------------------------
(***************************************************************************)
(* The sender's VMX encoder (send_video.rs): one codec, keyed by geometry, *)
(* colour space and quality, and the texture submitted to it whose result  *)
(* has not been read yet.  Each operator is a call of the encoder, and ok  *)
(* tells whether it returned Ok; the vmx codec itself may refuse any frame *)
(* and is trusted only to return the picture it was given.                 *)
(***************************************************************************)
EXTENDS Naturals

CONSTANT None  \* no codec, no submission, no frame

VARIABLES codec,  \* the key of VideoEncoder.codec, or None
          job     \* the frame submitted to it and not finished, or None

encoderVars == <<codec, job>>

EncoderInit == codec = None /\ job = None

\* ensure_codec makes a new codec when the key changes, and a submission is lost
\* with the old one; if vmx::Codec::new fails the old codec stays.
Kept(key) == IF codec = key THEN job ELSE None
EnsureFails(key) == codec # key /\ UNCHANGED encoderVars

\* encode_from_texture.  Whether the codec still has a submission after it has encoded
\* another frame is up to vmx.
EncodeFromTexture(key, ok) ==
    \/ ~ok /\ EnsureFails(key)
    \/ codec' = key /\ job' \in {Kept(key), None}

\* The forms of an uncompressed frame: "refused" before ensure_codec (unknown codec,
\* too small, empty, bad stride), "unfit" after it (short data, a format that is not
\* implemented), and "raw".
EncodeRaw(form, key, ok) ==
    \/ form = "refused" /\ ~ok /\ UNCHANGED encoderVars
    \/ form = "unfit" /\ ~ok /\ (EnsureFails(key) \/ (codec' = key /\ job' = Kept(key)))
    \/ form = "raw" /\ EncodeFromTexture(key, ok)

SubmitFromTexture(f, key, ok) ==
    \/ ok /\ codec' = key /\ job' = f
    \/ ~ok /\ EnsureFails(key)
    \/ ~ok /\ codec' = key /\ job' \in {Kept(key), None}

\* The bitstream is that of the submission; without one vmx answers with an error.
FinishSubmittedTexture(ok) ==
    /\ \/ ok /\ job # None /\ job' = None
       \/ ~ok /\ job' \in {job, None}
    /\ UNCHANGED codec
=============================================================================
