----------------------------- MODULE Embeddings -----------------------------
(***************************************************************************)
(* The embeddings that need no model: embeddings.py, DeterministicBackend  *)
(* and the truncation of a model's vector.  A caption is the sequence of   *)
(* its words, Blank when it is empty or white space; <<>> is a caption     *)
(* without a letter or digit.  A vector is given before its division by    *)
(* the norm, so its components are integers.                               *)
(***************************************************************************)
EXTENDS Integers, Sequences

CONSTANTS
    Blank,      \* no caption
    Hash,       \* per word: _stable_hash_int
    Sign,       \* per word: 1 or -1, from the hash of the word and "|sign"
    Digest      \* Digest[i][j]: byte j + 1 of sha256(seed and i)

ASSUME HashAssumption ==
    /\ Hash \in [DOMAIN Hash -> Nat]
    /\ Sign \in [DOMAIN Hash -> {1, -1}]

Vector(v) == [ok |-> TRUE, vector |-> v]

Refused == [ok |-> FALSE, vector |-> <<>>]

\* l2_normalize raises zero_norm.
Normalized(v) == IF \A i \in DOMAIN v : v[i] = 0 THEN Refused ELSE Vector(v)

\* Where a word is counted.
Slot(word, dims) == 1 + (Hash[word] % dims)

\* (mutated) A word is counted once, the last one's sign wins.
LastSign(words, dims) ==
    LET counts[n \in 0..Len(words)] ==
            IF n = 0 THEN [i \in 1..dims |-> 0]
            ELSE [counts[n - 1] EXCEPT ![Slot(words[n], dims)] = Sign[words[n]]]
    IN  counts[Len(words)]

\* Every word adds its sign at the index it is hashed to.
SignedCounts(words, dims) ==
    LET counts[n \in 0..Len(words)] ==
            IF n = 0 THEN [i \in 1..dims |-> 0]
            ELSE [counts[n - 1] EXCEPT ![Slot(words[n], dims)] = @ + Sign[words[n]]]
    IN  counts[Len(words)]

\* caption_embedding, of a caption that is not blank.
CaptionEmbedding(words, dims) ==
    IF dims <= 0 \/ words = <<>> THEN Refused ELSE Normalized(SignedCounts(words, dims))

\* (mutated) Only whole digests.
WholeChunks(dims) == dims \div 32

\* The digests, of 32 bytes each, that hold dims bytes.
Chunks(dims) == (dims + 31) \div 32

\* _expand_bytes: the first dims bytes of the digests.
ExpandBytes(dims) ==
    LET out == [n \in 1..(32 * Chunks(dims)) |-> Digest[(n - 1) \div 32][1 + ((n - 1) % 32)]]
    IN  [n \in {k \in 1..dims : k <= 32 * Chunks(dims)} |-> out[n]]

\* seed_embedding: (b - 127.5) / 127.5 for each byte b, here in 255ths.
SeedEmbedding(dims) ==
    IF dims <= 0 THEN Refused
    ELSE LET raw == ExpandBytes(dims)
         IN  Normalized([n \in DOMAIN raw |-> 2 * raw[n] - 255])

\* DeterministicBackend: embed_video and embed_video_frames.
EmbedMedia(caption, dims) ==
    IF caption = Blank THEN SeedEmbedding(dims) ELSE CaptionEmbedding(caption, dims)

\* DeterministicBackend.embed_text raises text_empty.
EmbedText(text, dims) == IF text = Blank THEN Refused ELSE CaptionEmbedding(text, dims)

\* (mutated) The whole vector is returned whatever was asked for.
Untruncated(hidden, dims) == hidden

\* The end of Qwen3VLBackend's methods: the length of the vector they return.
Truncated(hidden, dims) == IF dims > 0 /\ dims < hidden THEN dims ELSE hidden
=============================================================================
