-------------------------------- MODULE Anchoring --------------------------------
(******************************************************************************)
(* What /toxica promises with "anclado inmutable on-chain", on a public log   *)
(* anybody may write to: what stands in it under the relayer's name was asked  *)
(* for, each request enters it at most once and unchanged, and the bot gives  *)
(* a link for a request of its own that is in the log.                        *)
(******************************************************************************)
EXTENDS Integers, Sequences

CONSTANTS
    BotContent,    \* what the bot may ask for
    OtherContent   \* what others may ask for, or write themselves

VARIABLES
    requested,   \* the contents asked for and by whom, in order
    log,         \* the public log: contents, and who reported them
    anchored,    \* the requests that are in the log
    linked       \* the requests answered with a link

vars == <<requested, log, anchored, linked>>

Init ==
    /\ requested = <<>>
    /\ log = <<>>
    /\ anchored = {}
    /\ linked = {}

Request(by, content) ==
    /\ requested' = Append(requested, [content |-> content, by |-> by])
    /\ UNCHANGED <<log, anchored, linked>>

Anchor(r) ==
    /\ r \notin anchored
    /\ anchored' = anchored \cup {r}
    /\ log' = Append(log, [content |-> requested[r].content, reporter |-> "relayer"])
    /\ UNCHANGED <<requested, linked>>

Write(content) ==
    /\ log' = Append(log, [content |-> content, reporter |-> "other"])
    /\ UNCHANGED <<requested, anchored, linked>>

Link(r) ==
    /\ r \in anchored
    /\ requested[r].by = "bot"
    /\ linked' = linked \cup {r}
    /\ UNCHANGED <<requested, log, anchored>>

Next ==
    \/ \E content \in BotContent : Request("bot", content)
    \/ \E content \in OtherContent : Request("other", content) \/ Write(content)
    \/ \E r \in DOMAIN requested : Anchor(r) \/ Link(r)

Spec == Init /\ [][Next]_vars

================================================================================
