------------------------------ MODULE LiveStream ------------------------------
(***************************************************************************)
(* What the server promises to those who watch a stream, whichever         *)
(* protocol they use: from the moment a viewer is let in it is given every *)
(* frame that is aired, once, in order and at once, and holds the sequence *)
(* headers in force; it starts with the last part of what was aired        *)
(* before; it may be dropped at any time; and what was aired is forgotten  *)
(* only when nobody watches.                                               *)
(***************************************************************************)
EXTENDS Naturals, Sequences

CONSTANTS
    Channels,   \* the keys of the streams
    Viewers,    \* those who may watch
    Frames,     \* what may be aired
    Headers,    \* the sequence headers that may be in force
    NoHeaders   \* none is, yet

VARIABLES
    aired,      \* per channel, the frames aired
    headers,    \* per channel, the headers in force
    audience,   \* per channel, those who are let in
    heard,      \* per channel and viewer, the frames it was given
    held        \* per channel and viewer, the last headers it was given

vars == <<aired, headers, audience, heard, held>>

Tails(s) == {SubSeq(s, i, Len(s)) : i \in 1..(Len(s) + 1)}

Init ==
    /\ aired = [c \in Channels |-> <<>>]
    /\ headers = [c \in Channels |-> NoHeaders]
    /\ audience = [c \in Channels |-> {}]
    /\ heard = [c \in Channels |-> [v \in Viewers |-> <<>>]]
    /\ held = [c \in Channels |-> [v \in Viewers |-> NoHeaders]]

(* What a viewer has heard when new was aired behind past: more, some of it, *)
(* or nothing if it is not let in.                                           *)
Hears(v, before, stays, new, past, h) ==
    CASE v \in stays /\ v \in before -> {h \o new}
      [] v \in stays /\ v \notin before -> Tails(past \o new)
      [] v \notin stays -> {<<>>}

(* A frame is aired on c or a header replaced, or neither; the viewers in    *)
(* "in" are let in, those in "out" are dropped.                              *)
Air(c, new, hdr, in, out) ==
    LET stays == (audience[c] \cup in) \ out
    IN  /\ new = <<>> \/ hdr = headers[c]
        /\ aired' = [aired EXCEPT ![c] = @ \o new]
        /\ headers' = [headers EXCEPT ![c] = hdr]
        /\ audience' = [audience EXCEPT ![c] = stays]
        /\ held' = [held EXCEPT ![c] = [v \in Viewers |->
                      IF v \in stays THEN hdr ELSE NoHeaders]]
        /\ heard' = [heard EXCEPT ![c] = heard'[c]]
        /\ \A v \in Viewers :
              heard'[c][v] \in Hears(v, audience[c], stays, new, aired[c], heard[c][v])

(* Viewers leave; a channel nobody watches may be forgotten.                 *)
Leave(out, ended) ==
    /\ audience' = [c \in Channels |-> audience[c] \ out[c]]
    /\ heard' = [c \in Channels |-> [v \in Viewers |->
                   IF v \in out[c] THEN <<>> ELSE heard[c][v]]]
    /\ held' = [c \in Channels |-> [v \in Viewers |->
                   IF v \in out[c] THEN NoHeaders ELSE held[c][v]]]
    /\ \A c \in ended : audience[c] \ out[c] = {}
    /\ aired' = [c \in Channels |-> IF c \in ended THEN <<>> ELSE aired[c]]
    /\ headers' = [c \in Channels |-> IF c \in ended THEN NoHeaders ELSE headers[c]]

Next ==
    \/ \E c \in Channels, hdr \in Headers, in, out \in SUBSET Viewers :
         \E new \in {<<>>} \cup {<<f>> : f \in Frames} : Air(c, new, hdr, in, out)
    \/ \E out \in [Channels -> SUBSET Viewers], ended \in SUBSET Channels : Leave(out, ended)

Spec == Init /\ [][Next]_vars
=============================================================================
