---------------------------- MODULE EmbedService ----------------------------
(***************************************************************************)
(* What the Qwen3-VL backend promises its callers, with batches, locks,    *)
(* threads and the lazy load left out: video and text requests wait in a   *)
(* line of their kind and are answered one at a time, in order; a request  *)
(* may also be served alone, outside the lines; and every answer is the    *)
(* outcome of the caller's own input, or the news that the model cannot be *)
(* loaded.                                                                 *)
(***************************************************************************)
EXTENDS Naturals, Sequences

CONSTANTS VideoReq, TextReq, FrameReq, Invalid, Bad, NoAnswer, Raised,
          LoadFailed

Requests == VideoReq \cup TextReq \cup FrameReq
Kinds == {"video", "text"}

VARIABLES
    line,   \* the requests of each kind that wait, in order
    alone,  \* the requests served outside the lines
    reply   \* what each request was answered

serviceVars == <<line, alone, reply>>

Expected(r) == IF r \in Bad THEN Raised ELSE r

Init ==
    /\ line = [k \in Kinds |-> <<>>]
    /\ alone = {}
    /\ reply = [r \in Requests |-> NoAnswer]

InLine(k) == {line[k][i] : i \in DOMAIN line[k]}

\* r has not been accepted yet.
Outside(r) ==
    /\ reply[r] = NoAnswer
    /\ r \notin alone
    /\ \A k \in Kinds : r \notin InLine(k)

Join(r, k) ==
    /\ Outside(r)
    /\ r \in IF k = "video" THEN VideoReq ELSE TextReq
    /\ line' = [line EXCEPT ![k] = Append(@, r)]
    /\ UNCHANGED <<alone, reply>>

GoAlone(r) ==
    /\ Outside(r)
    /\ alone' = alone \cup {r}
    /\ UNCHANGED <<line, reply>>

Refuse(r) ==
    /\ Outside(r)
    /\ reply' = [reply EXCEPT ![r] = IF r \in Invalid THEN Raised
                                                      ELSE LoadFailed]
    /\ UNCHANGED <<line, alone>>

Accept(r) ==
    \/ \E k \in Kinds : Join(r, k)
    \/ GoAlone(r)
    \/ Refuse(r)

Serve(k) ==
    /\ line[k] # <<>>
    /\ reply' = [reply EXCEPT ![Head(line[k])] = Expected(Head(line[k]))]
    /\ line' = [line EXCEPT ![k] = Tail(@)]
    /\ UNCHANGED alone

ServeAlone(r) ==
    /\ r \in alone
    /\ reply' = [reply EXCEPT ![r] = Expected(r)]
    /\ alone' = alone \ {r}
    /\ UNCHANGED line

Next ==
    \/ \E r \in Requests : Accept(r) \/ ServeAlone(r)
    \/ \E k \in Kinds : Serve(k)

Spec == Init /\ [][Next]_serviceVars
=============================================================================
