---------------------------- MODULE MCEnrichment ----------------------------
(* Instances of Enrichment for TLC: which tasks run beside each other.     *)
EXTENDS Enrichment

TwoRuns == {"e1", "e2"}

\* Vectors with overlapping nearest tags; with TopK 1 no tag is common. The vectors
\* of captions and hashes are near to none.
MCNearest == [u |-> <<"cats", "dogs">>, w |-> <<"dogs", "birds">>, c |-> <<>>, h |-> <<>>]

\* The second video has no caption.
MCUploaded ==
    [v \in 1..3 |-> IF v = 2 THEN [version |-> "hash_v1", vector |-> "h"]
                    ELSE [version |-> "caption_v1", vector |-> "c"]]

Of(version, vectors) == {[version |-> version, vector |-> w] : w \in vectors}

\* Two runs of videos.embed_visual: one with a visual backend, and one with --force,
\* --limit and the deterministic backend, which is given frames.
TwoEmbeds ==
    [kind |-> [e1 |-> "embed", e2 |-> "embed"],
     force |-> [e1 |-> FALSE, e2 |-> TRUE],
     limit |-> [e1 |-> NoLimit, e2 |-> 1],
     answers |-> [e1 |-> Of(Visual, {"u"}), e2 |-> Of("frames_hash_v1", {"w"})],
     missing |-> {}]

\* Two runs of videos.transcribe, one of them with --limit.
TwoTranscribes ==
    [kind |-> [e1 |-> "transcribe", e2 |-> "transcribe"],
     force |-> [e1 |-> FALSE, e2 |-> FALSE],
     limit |-> [e1 |-> 1, e2 |-> NoLimit],
     answers |-> [e1 |-> {}, e2 |-> {}],
     missing |-> {3}]

\* A refresh of tags beside a run of videos.embed_visual --force, both of whose
\* answers are visual.
RefreshAndEmbed ==
    [kind |-> [e1 |-> "tags", e2 |-> "embed"],
     force |-> [e1 |-> FALSE, e2 |-> TRUE],
     limit |-> [e1 |-> NoLimit, e2 |-> NoLimit],
     answers |-> [e1 |-> {}, e2 |-> Of(Visual, {"u", "w"})],
     missing |-> {2}]

ThreePlans == {TwoEmbeds, TwoTranscribes, RefreshAndEmbed}
=============================================================================
