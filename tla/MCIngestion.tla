---------------------------- MODULE MCIngestion -----------------------------
(* Instances of Ingestion for TLC. *)
EXTENDS Ingestion, TLC

CONSTANTS s1, s2, u1, u2, u3, t1, l1, l2, l3, h1, h2

\* Two pages: the first with two contents, one of them also on the second.
TwoSessions == {s1, s2}
ThreeUploads == {u1, u2, u3}
TwoPages == u1 :> s1 @@ u2 :> s1 @@ u3 :> s2

\* One run with the same content twice; both contents are also uploaded.
OneTask == {t1}
ThreeFiles == {l1, l2, l3}
OneList == t1 :> <<l1, l2, l3>>

AllItems == ThreeUploads \cup ThreeFiles
TwoHashes == {h1, h2}
Contents == u1 :> h1 @@ u2 :> h2 @@ u3 :> h1 @@ l1 :> h1 @@ l2 :> h1 @@ l3 :> h2

=============================================================================
