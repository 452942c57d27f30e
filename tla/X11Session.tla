----------------------------- MODULE X11Session -----------------------------
(***************************************************************************)
(* NewKeymapFromX11Device (x11/x11.go): goroutines that share one X11      *)
(* connection ask the server for its keymap.  Each call looks the XKB      *)
(* extension up in the connection, registers it and shakes hands if it is  *)
(* not there, sends its three requests at once, collects the replies in    *)
(* order, resolves the atoms they name, and makes a keymap of them, which  *)
(* NewKeymapFromX11Replies (x11.go) refuses to do if GetMap and GetNames   *)
(* disagree on the keycodes.                                               *)
(*                                                                         *)
(* The server and package xgb are external: requests of a connection are   *)
(* served in the order they are sent, a reply reaches the cookie of its    *)
(* request, an XKB request before an accepted UseExtension is an error,    *)
(* and after the connection is lost every reply is one.                    *)
(***************************************************************************)
EXTENDS Naturals, Sequences

CONSTANTS
  Callers,      \* the goroutines
  MaxCalls,     \* bound: calls each goroutine makes, one after the other
  MaxChanges,   \* bound: changes of the server's keymap
  Ranges        \* the keycode ranges, of which each keymap has one

ASSUME X11SessionAssumption == MaxCalls \in [Callers -> Nat] /\ MaxChanges \in Nat

VARIABLES
  support,      \* what the server supports: "no", "old" (not XKB 1.0), "yes"
  rangeOf,      \* the keycode range of each of the server's keymaps
  version,      \* the server's keymap, numbered in order of change
  ready,        \* the server has accepted UseExtension on this connection
  lost,         \* the connection is lost
  wire,         \* requests the server has yet to answer, in order
  registered,   \* extensionName is in conn.Extensions
  pc,           \* what each goroutine does next
  calls,        \* how many calls each has begun
  reply,        \* what the cookies of each goroutine's current call hold
  since,        \* ghost: the server's keymap when the call began
  early         \* ghost: the call found the extension registered before
                \* UseExtension was even sent

server == <<support, rangeOf, version, ready, lost>>
vars == <<server, wire, registered, pc, calls, reply, since, early>>

Data == 0..MaxChanges

Kinds == {"Query", "Use", "Map", "Names", "Controls", "Atoms"}
Answer(is, v) == [is |-> is, keymap |-> v]
Pending == [k \in Kinds |-> Answer("pending", 0)]

\* Where a goroutine is: about to send a request, about to wait for a reply,
\* about to register the extension, or out of the call with its outcome.
Sending(k) == <<"send", k>>
Awaiting(k) == <<"await", k>>
Registering == <<"register", "extension">>
Outcome(o) == <<"end", o>>
Idle(c) == pc[c][1] = "end"

Init ==
  /\ support \in {"no", "old", "yes"}
  /\ rangeOf \in [Data -> Ranges]
  /\ version = 0
  /\ ready = FALSE
  /\ lost = FALSE
  /\ wire = <<>>
  /\ registered = FALSE
  /\ pc = [c \in Callers |-> Outcome("none")]
  /\ calls = [c \in Callers |-> 0]
  /\ reply = [c \in Callers |-> Pending]
  /\ since = [c \in Callers |-> 0]
  /\ early = [c \in Callers |-> FALSE]

-----------------------------------------------------------------------------
(* The server and the connection.                                           *)

\* Whether the server does what a request asks.
Served(kind) ==
  CASE lost           -> "error"
    [] kind = "Query" -> IF support = "no" THEN "refused" ELSE "ok"
    [] kind = "Use"   -> IF support = "yes" THEN "ok" ELSE "refused"
    [] kind = "Atoms" -> "ok"
    [] OTHER          -> IF ready THEN "ok" ELSE "error"

\* A reply reaches the cookie of its request, which belongs to one call and
\* is of no use after it.
Serve ==
  /\ wire # <<>>
  /\ LET r == Head(wire) IN
       /\ reply' = IF r.call = calls[r.caller] /\ ~Idle(r.caller)
                   THEN [reply EXCEPT ![r.caller][r.kind] = Answer(Served(r.kind), version)]
                   ELSE reply
       /\ ready' = (ready \/ (r.kind = "Use" /\ Served("Use") = "ok"))
  /\ wire' = Tail(wire)
  /\ UNCHANGED <<support, rangeOf, version, lost, registered, pc, calls, since, early>>

ChangeKeymap ==
  /\ version < MaxChanges
  /\ version' = version + 1
  /\ UNCHANGED <<support, rangeOf, ready, lost, wire, registered, pc, calls, reply,
                 since, early>>

LoseConnection ==
  /\ ~lost
  /\ lost' = TRUE
  /\ UNCHANGED <<support, rangeOf, version, ready, wire, registered, pc, calls, reply,
                 since, early>>

-----------------------------------------------------------------------------
(* A call.                                                                  *)

GoTo(c, place) == pc' = [pc EXCEPT ![c] = place]

\* A fault of LookUpExtension: the cookies of the last call are kept.
LookUpKeepsCookies(c) ==
  /\ Idle(c)
  /\ calls[c] < MaxCalls[c]
  /\ calls' = [calls EXCEPT ![c] = @ + 1]
  /\ since' = [since EXCEPT ![c] = version]
  /\ GoTo(c, Sending(IF registered THEN "Map" ELSE "Query"))
  /\ UNCHANGED <<server, wire, registered, reply, early>>

\* ensureXKBExtension begins with a look at conn.Extensions, and does no more
\* when the extension is there.
LookUpExtension(c) ==
  /\ Idle(c)
  /\ calls[c] < MaxCalls[c]
  /\ calls' = [calls EXCEPT ![c] = @ + 1]
  /\ reply' = [reply EXCEPT ![c] = Pending]
  /\ since' = [since EXCEPT ![c] = version]
  /\ early' = [early EXCEPT ![c] =
       registered /\ ~ready /\ \A i \in DOMAIN wire : wire[i].kind # "Use"]
  /\ GoTo(c, Sending(IF registered THEN "Map" ELSE "Query"))
  /\ UNCHANGED <<server, wire, registered>>

\* A request goes out.  The three keymap requests follow one another before
\* any reply is waited for; other goroutines' requests may come between them.
AfterRequest(k) == CASE k = "Map"      -> Sending("Names")
                     [] k = "Names"    -> Sending("Controls")
                     [] k = "Controls" -> Awaiting("Map")
                     [] OTHER          -> Awaiting(k)

\* A fault of SendRequest: the cookie is the next call's.
SendRequestAhead(c) ==
  \E k \in Kinds :
    /\ pc[c] = Sending(k)
    /\ wire' = Append(wire, [caller |-> c, call |-> calls[c] + 1, kind |-> k])
    /\ GoTo(c, AfterRequest(k))
    /\ UNCHANGED <<server, registered, calls, reply, since, early>>

SendRequest(c) ==
  \E k \in Kinds :
    /\ pc[c] = Sending(k)
    /\ wire' = Append(wire, [caller |-> c, call |-> calls[c], kind |-> k])
    /\ GoTo(c, AfterRequest(k))
    /\ UNCHANGED <<server, registered, calls, reply, since, early>>

\* A fault of RegisterExtension: no handshake follows.
RegisterOnly(c) ==
  /\ pc[c] = Registering
  /\ registered' = TRUE
  /\ GoTo(c, Sending("Map"))
  /\ UNCHANGED <<server, wire, calls, reply, since, early>>

\* The server has the extension: it is written into conn.Extensions before
\* the handshake.
RegisterExtension(c) ==
  /\ pc[c] = Registering
  /\ registered' = TRUE
  /\ GoTo(c, Sending("Use"))
  /\ UNCHANGED <<server, wire, calls, reply, since, early>>

\* The keymap is made of three good replies, of which GetMap and GetNames
\* come of keymaps with the same keycodes.
SameRange(c) == rangeOf[reply[c]["Map"].keymap] = rangeOf[reply[c]["Names"].keymap]
Assembled(c) == Outcome(IF SameRange(c) THEN "keymap" ELSE "failed")

\* Where a call goes on after a good reply.  A keymap whose names are no
\* atoms needs no GetAtomName.
AfterReply(c, k) == CASE k = "Query"    -> {Registering}
                      [] k = "Use"      -> {Sending("Map")}
                      [] k = "Map"      -> {Awaiting("Names")}
                      [] k = "Names"    -> {Awaiting("Controls")}
                      [] k = "Controls" -> {Sending("Atoms"), Assembled(c)}
                      [] k = "Atoms"    -> {Assembled(c)}

\* A fault of AwaitReply: an error reply is not taken for one.
AwaitGoodReply(c) ==
  \E k \in Kinds :
    /\ pc[c] = Awaiting(k)
    /\ reply[c][k].is = "ok"
    /\ \E place \in AfterReply(c, k) : GoTo(c, place)
    /\ UNCHANGED <<server, wire, registered, calls, reply, since, early>>

\* Reply() on a cookie: a reply that is an error, or refuses, ends the call,
\* and the cookies that are left are dropped.  A good one is one that decodes.
AwaitReply(c) ==
  \E k \in Kinds :
    /\ pc[c] = Awaiting(k)
    /\ reply[c][k].is # "pending"
    /\ IF reply[c][k].is = "ok"
       THEN /\ \E place \in AfterReply(c, k) : GoTo(c, place)
            /\ UNCHANGED reply
       ELSE /\ GoTo(c, Outcome("failed"))
            /\ reply' = [reply EXCEPT ![c] = Pending]
    /\ UNCHANGED <<server, wire, registered, calls, since, early>>

Step(c) == SendRequest(c) \/ RegisterExtension(c) \/ AwaitReply(c)

Next ==
  \/ Serve
  \/ ChangeKeymap
  \/ LoseConnection
  \/ \E c \in Callers : LookUpExtension(c) \/ Step(c)

\* The server answers what it is asked or the connection is found lost, and a
\* goroutine that can go on is scheduled.  Nobody has to call.
Fairness == WF_vars(Serve) /\ \A c \in Callers : WF_vars(Step(c))

Spec == Init /\ [][Next]_vars /\ Fairness

-----------------------------------------------------------------------------
(* Properties.                                                              *)

Places == {Sending(k) : k \in Kinds} \cup {Awaiting(k) : k \in Kinds}
          \cup {Registering} \cup {Outcome(o) : o \in {"none", "failed", "keymap"}}
Requests == {r \in [caller : Callers, call : Nat, kind : Kinds] : r.call \in 1..MaxCalls[r.caller]}
\* Every variable holds a value of its type.
TypeOK ==
  /\ support \in {"no", "old", "yes"} /\ rangeOf \in [Data -> Ranges]
  /\ version \in Data /\ since \in [Callers -> Data]
  /\ ready \in BOOLEAN /\ lost \in BOOLEAN /\ registered \in BOOLEAN
  /\ early \in [Callers -> BOOLEAN]
  /\ wire \in Seq(Requests)
  /\ pc \in [Callers -> Places]
  /\ \A c \in Callers : calls[c] \in 0..MaxCalls[c]
  /\ \A c \in Callers, k \in Kinds :
       reply[c][k] \in [is : {"pending", "ok", "refused", "error"}, keymap : Data]

\* A keymap that a call returns is made of replies to that call's own three
\* requests, none older than the call and each no older than the one before,
\* whatever calls failed earlier with requests still on the wire.  Its map and
\* its names may be of different keymaps, but of two with the same keycodes.
FreshKeymap ==
  \A c \in Callers : pc[c] = Outcome("keymap") =>
    LET r == reply[c] IN
    /\ \A k \in {"Map", "Names", "Controls"} : r[k].is = "ok"
    /\ since[c] <= r["Map"].keymap
    /\ r["Map"].keymap <= r["Names"].keymap
    /\ r["Names"].keymap <= r["Controls"].keymap
    /\ SameRange(c)

\* On a connection that works, to a server that supports XKB, a call fails
\* only when it began between another call's registration of the extension
\* and that call's UseExtension, or when the keymap changed its keycodes while
\* the call was on its way, between the answers to its GetMap and its GetNames
\* (x11.go:609-620).
FailsOnlyInGapOrMixture ==
  support = "yes" /\ ~lost =>
    \A c \in Callers : pc[c] = Outcome("failed") =>
      \/ early[c]
      \/ /\ since[c] <= reply[c]["Map"].keymap
         /\ reply[c]["Map"].keymap < reply[c]["Names"].keymap
         /\ ~SameRange(c)

\* Every call returns, a keymap or an error, whatever the server supports and
\* whatever becomes of the connection: each goroutine is, again and again, out
\* of its call.
EveryCallReturns == \A c \in Callers : []<>Idle(c)

\* x11/x11.go:141: "XKB clients must call UseExtension before using the
\* extension", and the extension is initialized "automatically if needed"
\* (48-49): no keymap request gets to a working server that has not accepted
\* it.
HandshakeFirst ==
  ~lost => \A c \in Callers, k \in {"Map", "Names", "Controls"} : reply[c][k].is # "error"
=============================================================================
