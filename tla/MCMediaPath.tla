----------------------------- MODULE MCMediaPath -----------------------------
(* Instances of MediaPath for TLC. *)
EXTENDS MediaPath

Raw(form, geometry, alpha, xml) ==
    [kind |-> "video", form |-> form, geometry |-> geometry, alpha |-> alpha, xml |-> xml]
Texture(fits, geometry, xml) ==
    [kind |-> "texture", fits |-> fits, geometry |-> geometry, alpha |-> FALSE, xml |-> xml]
Audio(channels, loud, coded, xml) ==
    [kind |-> "audio", channels |-> channels, loud |-> loud, coded |-> coded, xml |-> xml]
Text(xml) == [kind |-> "metadata", xml |-> xml]

\* Textures of two sizes with uncompressed frames between them.
Gpu == [frames |-> {Texture(TRUE, "hd", 0), Texture(TRUE, "sd", 0), Raw("raw", "hd", FALSE, 0)},
        calls |-> 4, changes |-> 0, preview |-> FALSE]
\* A quality that changes, a write that times out, or a receiver that goes away while a
\* texture is pending.
Restless == [frames |-> {Texture(TRUE, "hd", 1), Raw("vmx1", "hd", FALSE, 0)},
             calls |-> 3, changes |-> 1, preview |-> FALSE]
\* Every form of video frame, with metadata around the width of its length.
Forms == [frames |-> {Raw("vmx1", "hd", TRUE, 0), Raw("raw", "hd", FALSE, 1),
                      Raw("refused", "hd", FALSE, 0), Raw("unfit", "sd", FALSE, 0),
                      Raw("vmx1", "hd", FALSE, 2),
                      Raw("vmx1", "hd", FALSE, 3), Texture(FALSE, "hd", 0)},
          calls |-> 2, changes |-> 0, preview |-> TRUE]
\* Audio: silent channels, every kind of refused frame, payloads that are FPA1 already
\* (two of them too short), long metadata.
Sound == [frames |-> {Audio(2, <<FALSE, TRUE>>, {}, 0), Audio(3, <<TRUE, FALSE, TRUE>>, {}, 3),
                      Audio(2, <<FALSE, FALSE>>, {}, 1), Audio(0, <<>>, {}, 0),
                      Audio(4, <<TRUE, TRUE, TRUE, TRUE>>, {}, 0), Audio(3, <<TRUE, TRUE>>, {}, 0),
                      Audio(3, <<FALSE, TRUE>>, {1, 3}, 0), Audio(3, <<TRUE>>, {2, 3}, 0),
                      Audio(3, <<TRUE>>, {2, 3}, 3), Audio(2, <<TRUE, TRUE>>, {2, 3}, 0)},
          calls |-> 2, changes |-> 0, preview |-> FALSE]
\* Audio of two threads and metadata, with connections that break and writes that time
\* out, also one after the other.
Mixed == [frames |-> {Audio(1, <<TRUE>>, {}, 0), Text(2)}, calls |-> 3, changes |-> 2,
          preview |-> FALSE]

FiveWorkloads == {Gpu, Restless, Forms, Sound, Mixed}

\* The payload of EncodePlanar against the loop of the code.
PlanesOf == [n \in 0..4 |-> [1..n -> {1, 2, Silent}]]
ASSUME \A n \in 1..4 : \A planes \in PlanesOf[n] :
    LET e == EncodePlanar(planes)
    IN  e.payload = SelectSeq(planes, LAMBDA p : p # Silent)
=============================================================================
