-------------------------- MODULE X11SessionProofs --------------------------
(***************************************************************************)
(* Theorems of X11Session, for any number of goroutines, calls and changes *)
(* of the server's keymap, and of X11Decode, which makes a keymap of the   *)
(* replies, for any keyboard.                                              *)
(***************************************************************************)
EXTENDS X11Session, SequenceTheorems, FiniteSetTheorems, TLAPS

-----------------------------------------------------------------------------
(* The inductive invariant.                                                 *)

\* The order in which a call asks, and how far it is at a place.
Rank == [k \in Kinds |->
  CASE k = "Query" -> 1 [] k = "Use" -> 2 [] k = "Map" -> 3
    [] k = "Names" -> 4 [] k = "Controls" -> 5 [] OTHER -> 6]
KeymapKinds == {"Map", "Names", "Controls"}
Outcomes == {"none", "failed", "keymap"}
Reached(p) ==
  CASE p[1] = "send"     -> Rank[p[2]] - 1
    [] p[1] = "register" -> 1
    [] p[1] = "await"    -> IF p[2] \in KeymapKinds THEN 5 ELSE Rank[p[2]]
    [] OTHER             -> 6

\* A request whose reply somebody still waits for.
Current(r) == r.call = calls[r.caller] /\ ~Idle(r.caller)

Answers == [is : {"pending", "ok", "refused", "error"}, keymap : Data]

\* TypeOK, and what it leaves open: which of the variables are functions, and
\* that a call that goes on has begun.
Types ==
  /\ TypeOK
  /\ calls \in [Callers -> Nat]
  /\ reply \in [Callers -> [Kinds -> Answers]]
  /\ \A c \in Callers : ~Idle(c) => calls[c] >= 1

\* What is on the wire was asked by this call or an earlier one, the requests
\* of a call in the order of their ranks, and from the first of them on
\* nothing has been answered.
WireInOrder ==
  /\ \A i \in DOMAIN wire : wire[i].call <= calls[wire[i].caller]
  /\ \A i \in DOMAIN wire : Current(wire[i]) =>
       /\ Rank[wire[i].kind] <= Reached(pc[wire[i].caller])
       /\ \A k \in Kinds : Rank[wire[i].kind] <= Rank[k] => reply[wire[i].caller][k].is = "pending"
  /\ \A i, j \in DOMAIN wire :
       i < j /\ Current(wire[i]) /\ Current(wire[j]) /\ wire[i].caller = wire[j].caller
         => Rank[wire[i].kind] < Rank[wire[j].kind]

\* Replies are to what the call has asked, no older than the call, and none is
\* older than the one before.
RepliesInOrder ==
  \A c \in Callers :
    /\ since[c] <= version
    /\ \A k \in Kinds : reply[c][k].is # "pending" =>
         /\ ~Idle(c) => Rank[k] <= Reached(pc[c])
         /\ since[c] <= reply[c][k].keymap /\ reply[c][k].keymap <= version
    /\ \A k, l \in Kinds :
         reply[c][k].is # "pending" /\ reply[c][l].is # "pending" /\ Rank[k] < Rank[l]
           => reply[c][k].keymap <= reply[c][l].keymap

\* The replies a call must have seen to be where it is.
Needed(p) ==
  CASE p = Awaiting("Names") -> {"Map"}
    [] p = Awaiting("Controls") -> {"Map", "Names"}
    [] p \in {Sending("Atoms"), Awaiting("Atoms"), Outcome("keymap")} -> KeymapKinds
    [] OTHER -> {}
GoodSoFar ==
  \A c \in Callers :
    /\ \A k \in Needed(pc[c]) : reply[c][k].is = "ok"
    /\ pc[c] = Outcome("keymap") => SameRange(c)

\* A call has failed over good replies that do not go together.
Mismatched(c) == ~SameRange(c) /\ \A k \in KeymapKinds : reply[c][k].is = "ok"

UseBefore(j) == \E i \in DOMAIN wire : i < j /\ wire[i].kind = "Use"

\* On a working connection, a call that did not begin in the gap sends its
\* keymap requests when UseExtension is accepted or on the wire before them,
\* and fails only with replies that do not go together.
Prepared ==
  /\ \A c \in Callers : reply[c]["Use"].is = "ok" => ready
  /\ support = "yes" /\ ~lost =>
       /\ \A c \in Callers : ~early[c] =>
            /\ \A k \in Kinds : reply[c][k].is \in {"pending", "ok"}
            /\ pc[c] \in {Sending(k) : k \in KeymapKinds} => ready \/ UseBefore(Len(wire) + 1)
            /\ pc[c] = Outcome("failed") => Mismatched(c)
       /\ \A j \in DOMAIN wire :
            Current(wire[j]) /\ ~early[wire[j].caller] /\ wire[j].kind \in KeymapKinds
              => ready \/ UseBefore(j)

IInv == Types /\ WireInOrder /\ RepliesInOrder /\ GoodSoFar /\ Prepared

-----------------------------------------------------------------------------
(* Facts about the pieces of the invariant.                                 *)

(* The ranks of the requests.                                               *)
LEMMA RankFacts ==
  /\ Rank \in [Kinds -> 1..6]
  /\ Rank["Query"] = 1 /\ Rank["Use"] = 2 /\ Rank["Map"] = 3
  /\ Rank["Names"] = 4 /\ Rank["Controls"] = 5 /\ Rank["Atoms"] = 6
  BY DEF Rank, Kinds

(* Places are different when they look it.                                  *)
LEMMA PlaceFacts ==
  /\ \A k \in Kinds : Sending(k)[1] = "send" /\ Sending(k)[2] = k
  /\ \A k \in Kinds : Awaiting(k)[1] = "await" /\ Awaiting(k)[2] = k
  /\ Registering[1] = "register"
  /\ \A o \in Outcomes : Outcome(o)[1] = "end" /\ Outcome(o)[2] = o
  BY DEF Sending, Awaiting, Registering, Outcome

(* How far a call is at each place.                                         *)
LEMMA ReachedFacts ==
  /\ \A k \in Kinds : Reached(Sending(k)) = Rank[k] - 1
  /\ \A k \in Kinds : Reached(Awaiting(k)) = IF k \in KeymapKinds THEN 5 ELSE Rank[k]
  /\ Reached(Registering) = 1
  /\ \A o \in Outcomes : Reached(Outcome(o)) = 6
<1>1. \A p : p[1] = "send" => Reached(p) = Rank[p[2]] - 1
  BY DEF Reached
<1>2. \A p : p[1] = "await" => Reached(p) = IF p[2] \in KeymapKinds THEN 5 ELSE Rank[p[2]]
  BY DEF Reached
<1>3. \A p : p[1] = "register" => Reached(p) = 1
  BY DEF Reached
<1>4. \A p : p[1] = "end" => Reached(p) = 6
  BY DEF Reached
<1> QED
  BY <1>1, <1>2, <1>3, <1>4, PlaceFacts

(* Init establishes the invariant.                                          *)
LEMMA InitInv == Init => IInv
<1> SUFFICES ASSUME Init PROVE IInv
  OBVIOUS
<1>1. /\ wire = <<>> /\ version = 0 /\ ready = FALSE /\ lost = FALSE /\ registered = FALSE
      /\ \A c \in Callers : /\ pc[c] = Outcome("none") /\ calls[c] = 0 /\ since[c] = 0
                            /\ early[c] = FALSE /\ reply[c] = Pending
  BY DEF Init
<1>2. \A k \in Kinds : Pending[k].is = "pending"
  BY DEF Pending, Answer
<1>3. \A c \in Callers : Idle(c)
  BY <1>1, PlaceFacts DEF Idle, Outcomes
<1>4. Types
  <2>1. 0 \in Data /\ \A c \in Callers : MaxCalls[c] \in Nat
    BY X11SessionAssumption DEF Data
  <2>2. Outcome("none") \in Places
    BY DEF Places
  <2>3. Pending \in [Kinds -> Answers]
    BY <2>1 DEF Pending, Answers, Answer
  <2>4. \A c \in Callers, k \in Kinds : reply[c][k] \in Answers
    BY <1>1, <2>3
  <2>5. TypeOK
    <3>1. wire \in Seq(Requests)
      BY <1>1
    <3>2. /\ since \in [Callers -> Data] /\ early \in [Callers -> BOOLEAN]
          /\ pc \in [Callers -> Places]
          /\ \A c \in Callers : calls[c] \in 0..MaxCalls[c]
      BY <2>1, <2>2 DEF Init
    <3> QED
      BY <1>1, <2>1, <2>4, <3>1, <3>2 DEF Init, TypeOK, Answers
  <2> QED
    BY <1>3, <2>1, <2>3, <2>5 DEF Init, Types
<1>5. WireInOrder
  BY <1>1 DEF WireInOrder
<1>6. RepliesInOrder
  <2>1. ASSUME NEW c \in Callers
        PROVE  since[c] <= version
    BY <1>1
  <2>2. \A c \in Callers : \A k \in Kinds : reply[c][k].is = "pending"
    BY <1>1, <1>2
  <2> QED
    BY <2>1, <2>2 DEF RepliesInOrder
<1>7. GoodSoFar
  <2>1. \A p : p = Outcome("none") => Needed(p) = {}
    BY DEF Needed, Outcome, Sending, Awaiting
  <2>2. \A c \in Callers : pc[c] # Outcome("keymap")
    BY <1>1, PlaceFacts DEF Outcomes
  <2> QED
    BY <1>1, <2>1, <2>2 DEF GoodSoFar
<1>8. Prepared
  BY <1>1, <1>2, PlaceFacts DEF Prepared, KeymapKinds, Kinds, Outcomes
<1> QED
  BY <1>4, <1>5, <1>6, <1>7, <1>8 DEF IInv

-----------------------------------------------------------------------------
(* Each action preserves the invariant.                                     *)

(* A change of the keymap: nobody's replies get newer.                      *)
LEMMA ChangeKeymapInv == IInv /\ ChangeKeymap => IInv'
<1> SUFFICES ASSUME IInv, ChangeKeymap PROVE IInv'
  OBVIOUS
<1>1. /\ version' = version + 1 /\ version < MaxChanges
      /\ UNCHANGED <<support, rangeOf, ready, lost, wire, registered, pc, calls, reply, since, early>>
  BY DEF ChangeKeymap
<1>2. version \in Nat /\ version' \in Data /\ since \in [Callers -> Nat]
  BY <1>1, X11SessionAssumption DEF IInv, Types, TypeOK, Data
<1>3. Types'
  BY <1>1, <1>2 DEF IInv, Types, TypeOK, Idle
<1>4. WireInOrder'
  BY <1>1 DEF IInv, WireInOrder, Current, Idle
<1>5. RepliesInOrder'
  <2>1. ASSUME NEW c \in Callers, NEW k \in Kinds
        PROVE  reply[c][k].keymap \in Nat
    BY X11SessionAssumption DEF IInv, Types, Answers, Data
  <2> QED
    BY <1>1, <1>2, <2>1 DEF IInv, RepliesInOrder, Idle
<1>6. GoodSoFar'
  BY <1>1 DEF IInv, GoodSoFar, SameRange
<1>7. Prepared'
  BY <1>1 DEF IInv, Prepared, Current, Idle, UseBefore, Mismatched, SameRange
<1> QED
  BY <1>3, <1>4, <1>5, <1>6, <1>7 DEF IInv

(* A connection that is lost promises nothing more.                         *)
LEMMA LoseConnectionInv == IInv /\ LoseConnection => IInv'
<1> SUFFICES ASSUME IInv, LoseConnection PROVE IInv'
  OBVIOUS
<1>1. /\ lost' = TRUE
      /\ UNCHANGED <<support, rangeOf, version, ready, wire, registered, pc, calls, reply, since, early>>
  BY DEF LoseConnection
<1>2. Types'
  BY <1>1 DEF IInv, Types, TypeOK, Idle
<1>3. WireInOrder'
  BY <1>1 DEF IInv, WireInOrder, Current, Idle
<1>4. RepliesInOrder' /\ GoodSoFar'
  BY <1>1 DEF IInv, RepliesInOrder, GoodSoFar, SameRange, Idle
<1>5. Prepared'
  BY <1>1 DEF IInv, Prepared
<1> QED
  BY <1>2, <1>3, <1>4, <1>5 DEF IInv

(* A goroutine that is about to register the extension has asked Query only. *)
LEMMA RegisterExtensionInv ==
  ASSUME NEW c \in Callers
  PROVE  IInv /\ RegisterExtension(c) => IInv'
<1> SUFFICES ASSUME IInv, RegisterExtension(c) PROVE IInv'
  OBVIOUS
<1>1. /\ pc[c] = Registering /\ registered' = TRUE
      /\ pc' = [pc EXCEPT ![c] = Sending("Use")]
      /\ UNCHANGED <<server, wire, calls, reply, since, early>>
  BY DEF RegisterExtension, GoTo
<1>2. UNCHANGED <<support, rangeOf, version, ready, lost, wire, calls, reply, since, early>>
  BY <1>1 DEF server
<1>3. pc \in [Callers -> Places] /\ Sending("Use") \in Places
  BY DEF IInv, Types, TypeOK, Places, Kinds
<1>4. \A d \in Callers : pc'[d] = IF d = c THEN Sending("Use") ELSE pc[d]
  BY <1>1, <1>3
<1>5. \A d \in Callers : Idle(d)' <=> Idle(d)
  BY <1>1, <1>4, PlaceFacts DEF Idle, Kinds
<1>6. \A d \in Callers : Reached(pc'[d]) = Reached(pc[d])
  BY <1>1, <1>4, ReachedFacts, RankFacts DEF Kinds
<1>7. Types'
  BY <1>1, <1>2, <1>3, <1>5 DEF IInv, Types, TypeOK
<1>8. \A i \in DOMAIN wire : wire[i].caller \in Callers
  BY DEF IInv, Types, TypeOK, Requests
<1>9. WireInOrder'
  BY <1>2, <1>5, <1>6, <1>8 DEF IInv, WireInOrder, Current
<1>10. RepliesInOrder'
  BY <1>2, <1>5, <1>6 DEF IInv, RepliesInOrder
<1>11. GoodSoFar'
  <2>1. Needed(Sending("Use")) = {} /\ Sending("Use") # Outcome("keymap")
    BY DEF Needed, Sending, Awaiting, Outcome
  <2> QED
    BY <1>2, <1>4, <2>1 DEF IInv, GoodSoFar, SameRange
<1>12. Prepared'
  <2>1. /\ Sending("Use") \notin {Sending(k) : k \in KeymapKinds}
        /\ Sending("Use") # Outcome("failed")
    BY DEF Sending, Outcome, KeymapKinds
  <2> QED
    BY <1>2, <1>4, <1>5, <1>8, <2>1 DEF IInv, Prepared, Current, UseBefore, Mismatched, SameRange
<1> QED
  BY <1>7, <1>9, <1>10, <1>11, <1>12 DEF IInv

(* A call begins: the requests of the calls before it are nobody's.         *)
LEMMA LookUpExtensionInv ==
  ASSUME NEW c \in Callers
  PROVE  IInv /\ LookUpExtension(c) => IInv'
<1> SUFFICES ASSUME IInv, LookUpExtension(c) PROVE IInv'
  OBVIOUS
<1> DEFINE first == IF registered THEN "Map" ELSE "Query"
           gap == registered /\ ~ready /\ \A i \in DOMAIN wire : wire[i].kind # "Use"
<1>1. /\ Idle(c) /\ calls[c] < MaxCalls[c]
      /\ calls' = [calls EXCEPT ![c] = @ + 1]
      /\ reply' = [reply EXCEPT ![c] = Pending]
      /\ since' = [since EXCEPT ![c] = version]
      /\ early' = [early EXCEPT ![c] = gap]
      /\ pc' = [pc EXCEPT ![c] = Sending(first)]
      /\ UNCHANGED <<support, rangeOf, version, ready, lost, wire, registered>>
  BY DEF LookUpExtension, GoTo, server
<1>2. /\ pc \in [Callers -> Places] /\ calls \in [Callers -> Nat]
      /\ since \in [Callers -> Data] /\ early \in [Callers -> BOOLEAN]
      /\ reply \in [Callers -> [Kinds -> Answers]] /\ wire \in Seq(Requests)
      /\ version \in Data
  BY DEF IInv, Types, TypeOK
<1>3. MaxCalls \in [Callers -> Nat] /\ 0 \in Data /\ Data \subseteq Nat
  BY X11SessionAssumption DEF Data
<1>4. first \in {"Map", "Query"} /\ first \in Kinds /\ Sending(first) \in Places
  BY DEF Places, Kinds
<1>5. Pending \in [Kinds -> Answers] /\ \A k \in Kinds : Pending[k].is = "pending"
  BY <1>3 DEF Pending, Answers, Answer
<1>6. /\ calls'[c] = calls[c] + 1 /\ reply'[c] = Pending /\ since'[c] = version
      /\ early'[c] = gap /\ pc'[c] = Sending(first)
  BY <1>1, <1>2
<1>7. \A d \in Callers : d # c => /\ calls'[d] = calls[d] /\ reply'[d] = reply[d]
                                  /\ since'[d] = since[d] /\ early'[d] = early[d]
                                  /\ pc'[d] = pc[d]
  BY <1>1, <1>2
<1>8. ~Idle(c)' /\ \A d \in Callers : d # c => (Idle(d)' <=> Idle(d))
  BY <1>4, <1>6, <1>7, PlaceFacts DEF Idle
<1> HIDE DEF first, gap
<1>9. Types'
  <2>1. calls' \in [Callers -> Nat] /\ reply' \in [Callers -> [Kinds -> Answers]]
    BY <1>1, <1>2, <1>5
  <2>2. \A d \in Callers : calls'[d] \in 0..MaxCalls[d]
    BY <1>1, <1>2, <1>3, <1>6, <1>7 DEF IInv, Types, TypeOK
  <2>3. \A d \in Callers, k \in Kinds : reply'[d][k] \in Answers
    BY <2>1
  <2>4. gap \in BOOLEAN
    BY DEF gap
  <2>5. /\ pc' \in [Callers -> Places] /\ since' \in [Callers -> Data]
        /\ early' \in [Callers -> BOOLEAN]
    BY <1>1, <1>2, <1>4, <2>4
  <2>6. TypeOK'
    BY <1>1, <1>2, <2>2, <2>3, <2>5 DEF IInv, Types, TypeOK, Answers
  <2>7. ASSUME NEW d \in Callers, ~Idle(d)'
        PROVE  calls'[d] >= 1
    BY <1>2, <1>6, <1>7, <1>8, <2>7 DEF IInv, Types
  <2> QED
    BY <2>1, <2>6, <2>7 DEF Types
<1>10. \A i \in DOMAIN wire : wire[i].caller \in Callers /\ wire[i].call \in Nat /\ wire[i].kind \in Kinds
  BY <1>2 DEF Requests
<1>11. ASSUME NEW i \in DOMAIN wire, Current(wire[i])'
       PROVE  /\ wire[i].caller # c /\ Current(wire[i])
  <2>1. wire[i].call <= calls[wire[i].caller]
    BY DEF IInv, WireInOrder
  <2> QED
    BY <1>1, <1>2, <1>6, <1>7, <1>8, <1>10, <1>11, <2>1 DEF Current
<1>12. WireInOrder'
  <2>1. ASSUME NEW i \in DOMAIN wire
        PROVE  wire[i].call <= calls'[wire[i].caller]
    <3>1. wire[i].call <= calls[wire[i].caller]
      BY DEF IInv, WireInOrder
    <3> QED
      BY <1>2, <1>6, <1>7, <1>10, <3>1
  <2>2. ASSUME NEW i \in DOMAIN wire, Current(wire[i])'
        PROVE  /\ Rank[wire[i].kind] <= Reached(pc'[wire[i].caller])
               /\ \A k \in Kinds : Rank[wire[i].kind] <= Rank[k] => reply'[wire[i].caller][k].is = "pending"
    BY <1>7, <1>10, <1>11, <2>2 DEF IInv, WireInOrder
  <2>3. ASSUME NEW i \in DOMAIN wire, NEW j \in DOMAIN wire, i < j, Current(wire[i])',
               Current(wire[j])', wire[i].caller = wire[j].caller
        PROVE  Rank[wire[i].kind] < Rank[wire[j].kind]
    BY <1>11, <2>3 DEF IInv, WireInOrder
  <2> QED
    BY <1>1, <2>1, <2>2, <2>3 DEF WireInOrder, Current
<1>13. RepliesInOrder'
  <2>1. ASSUME NEW d \in Callers PROVE since'[d] <= version
    <3>1. version <= version
      BY <1>2, <1>3
    <3>2. since[d] <= version
      BY DEF IInv, RepliesInOrder
    <3> QED
      BY <1>6, <1>7, <3>1, <3>2
  <2>2. ASSUME NEW d \in Callers, NEW k \in Kinds, reply'[d][k].is # "pending"
        PROVE  d # c
    BY <1>5, <1>6, <2>2
  <2> QED
    BY <1>1, <1>7, <1>8, <2>1, <2>2 DEF IInv, RepliesInOrder
<1>14. GoodSoFar'
  <2>1. /\ Needed(Sending("Map")) = {} /\ Needed(Sending("Query")) = {}
        /\ Sending("Map") # Outcome("keymap") /\ Sending("Query") # Outcome("keymap")
    BY DEF Needed, Sending, Awaiting, Outcome
  <2> QED
    BY <1>1, <1>4, <1>6, <1>7, <2>1 DEF IInv, GoodSoFar, SameRange
<1>15. Prepared'
  <2>1. ASSUME NEW d \in Callers, reply'[d]["Use"].is = "ok" PROVE ready
    BY <1>5, <1>6, <1>7, <2>1 DEF IInv, Prepared, Kinds
  <2>2. Sending(first) # Outcome("failed")
    BY PlaceFacts, <1>4 DEF Sending, Outcome
  <2>3. ASSUME Sending(first) \in {Sending(k) : k \in KeymapKinds}, ~gap
        PROVE  ready \/ UseBefore(Len(wire) + 1)
    <3>1. first = "Map"
      BY <1>4, <2>3, PlaceFacts DEF KeymapKinds, Kinds
    <3>2. registered
      BY <3>1 DEF first
    <3>3. ready \/ \E i \in DOMAIN wire : wire[i].kind = "Use"
      BY <2>3, <3>2 DEF gap
    <3> QED
      BY <1>2, <3>3 DEF UseBefore
  <2>4. ASSUME support = "yes" /\ ~lost, NEW d \in Callers, ~early'[d]
        PROVE  /\ \A k \in Kinds : reply'[d][k].is \in {"pending", "ok"}
               /\ pc'[d] \in {Sending(k) : k \in KeymapKinds} => ready \/ UseBefore(Len(wire) + 1)
               /\ pc'[d] = Outcome("failed") => Mismatched(d)'
    BY <1>1, <1>5, <1>6, <1>7, <2>2, <2>3, <2>4 DEF IInv, Prepared, Mismatched, SameRange
  <2>5. ASSUME support = "yes" /\ ~lost, NEW j \in DOMAIN wire, Current(wire[j])',
               ~early'[wire[j].caller], wire[j].kind \in KeymapKinds
        PROVE  ready \/ UseBefore(j)
    BY <1>7, <1>10, <1>11, <2>5 DEF IInv, Prepared
  <2> QED
    BY <1>1, <2>1, <2>4, <2>5 DEF Prepared, UseBefore, Current
<1> QED
  BY <1>9, <1>12, <1>13, <1>14, <1>15 DEF IInv

(* A request goes out: the replies its call holds are of lower rank.        *)
LEMMA SendRequestInv ==
  ASSUME NEW c \in Callers
  PROVE  IInv /\ SendRequest(c) => IInv'
<1> SUFFICES ASSUME IInv, SendRequest(c) PROVE IInv'
  OBVIOUS
<1>1. PICK k \in Kinds :
        /\ pc[c] = Sending(k)
        /\ wire' = Append(wire, [caller |-> c, call |-> calls[c], kind |-> k])
        /\ pc' = [pc EXCEPT ![c] = AfterRequest(k)]
        /\ UNCHANGED <<support, rangeOf, version, ready, lost, registered, calls, reply, since, early>>
  BY DEF SendRequest, GoTo, server
<1> DEFINE new == [caller |-> c, call |-> calls[c], kind |-> k]
           n == Len(wire) + 1
<1>2. /\ pc \in [Callers -> Places] /\ calls \in [Callers -> Nat] /\ wire \in Seq(Requests)
      /\ reply \in [Callers -> [Kinds -> Answers]]
  BY DEF IInv, Types, TypeOK
<1>3. /\ ~Idle(c)
      /\ \/ \E l \in Kinds : AfterRequest(k) = Sending(l)
         \/ \E l \in Kinds : AfterRequest(k) = Awaiting(l)
  BY <1>1, PlaceFacts DEF Idle, Kinds, AfterRequest
<1>4. AfterRequest(k) \in Places /\ AfterRequest(k)[1] # "end"
  BY <1>3, PlaceFacts DEF Places
<1>5. Reached(AfterRequest(k)) >= Rank[k] /\ Reached(pc[c]) = Rank[k] - 1 /\ Rank[k] \in 1..6
  BY <1>1, ReachedFacts, RankFacts DEF AfterRequest, Kinds, KeymapKinds
<1>6. Reached(AfterRequest(k)) \in Nat
  BY ReachedFacts, RankFacts DEF AfterRequest, Kinds, KeymapKinds
<1>7. pc'[c] = AfterRequest(k) /\ \A d \in Callers : d # c => pc'[d] = pc[d]
  BY <1>1, <1>2
<1>8. \A d \in Callers : Idle(d)' <=> Idle(d)
  BY <1>3, <1>4, <1>7 DEF Idle
<1>9. new \in Requests
  <2>1. calls[c] >= 1 /\ calls[c] \in 0..MaxCalls[c]
    BY <1>3 DEF IInv, Types, TypeOK
  <2>2. calls[c] \in 1..MaxCalls[c] /\ calls[c] \in Nat
    BY <1>2, <2>1, X11SessionAssumption
  <2> QED
    BY <2>2 DEF Requests
<1>10. /\ wire' \in Seq(Requests) /\ n \in Nat /\ DOMAIN wire' = DOMAIN wire \cup {n}
       /\ DOMAIN wire = 1..(n - 1) /\ wire'[n] = new
       /\ \A i \in DOMAIN wire : wire'[i] = wire[i]
  BY <1>1, <1>2, <1>9
<1>11. \A i \in DOMAIN wire : wire[i].caller \in Callers /\ wire[i].call \in Nat /\ wire[i].kind \in Kinds
  BY <1>2 DEF Requests
<1>12. new.caller = c /\ new.call = calls[c] /\ new.kind = k
  OBVIOUS
<1> HIDE DEF new, n
<1>13. \A i \in DOMAIN wire : Current(wire[i])' <=> Current(wire[i])
  BY <1>1, <1>8, <1>10, <1>11 DEF Current
<1>14. Types'
  <2>1. pc' \in [Callers -> Places]
    BY <1>1, <1>2, <1>4
  <2>2. TypeOK'
    BY <1>1, <1>10, <2>1 DEF IInv, Types, TypeOK
  <2> QED
    BY <1>1, <1>8, <2>2 DEF IInv, Types
<1>15. \A l \in Kinds : Rank[k] <= Rank[l] => reply[c][l].is = "pending"
  BY <1>3, <1>5, RankFacts DEF IInv, RepliesInOrder
<1>16. \A d \in Callers, l \in Kinds : Rank[l] <= Reached(pc[d]) => Rank[l] <= Reached(pc'[d])
  BY <1>5, <1>6, <1>7, RankFacts
<1>17. WireInOrder'
  <2>1. ASSUME NEW i \in DOMAIN wire'
        PROVE  wire'[i].call <= calls[wire'[i].caller]
    BY <1>2, <1>10, <1>12 DEF IInv, WireInOrder
  <2>2. ASSUME NEW i \in DOMAIN wire', Current(wire[i])'
        PROVE  /\ Rank[wire'[i].kind] <= Reached(pc'[wire'[i].caller])
               /\ \A l \in Kinds : Rank[wire'[i].kind] <= Rank[l] => reply[wire'[i].caller][l].is = "pending"
    <3>1. CASE i = n
      BY <1>5, <1>7, <1>10, <1>12, <1>15, <3>1
    <3>2. CASE i \in DOMAIN wire
      <4>1. wire'[i] = wire[i] /\ Current(wire[i])
        BY <1>10, <1>13, <2>2, <3>2
      <4> QED
        BY <1>11, <1>16, <3>2, <4>1 DEF IInv, WireInOrder
    <3> QED
      BY <1>10, <3>1, <3>2
  <2>3. ASSUME NEW i \in DOMAIN wire', NEW j \in DOMAIN wire', i < j, Current(wire[i])',
               Current(wire[j])', wire'[i].caller = wire'[j].caller
        PROVE  Rank[wire'[i].kind] < Rank[wire'[j].kind]
    <3>1. i \in DOMAIN wire /\ wire'[i] = wire[i] /\ Current(wire[i])
      BY <1>10, <1>13, <2>3
    <3>2. CASE j = n
      <4>1. wire[i].caller = c /\ wire'[j].kind = k
        BY <1>10, <1>12, <2>3, <3>1, <3>2
      <4>2. Rank[wire[i].kind] <= Rank[k] - 1
        BY <1>5, <3>1, <4>1 DEF IInv, WireInOrder
      <4> QED
        BY <1>5, <1>11, <3>1, <4>1, <4>2, RankFacts
    <3>3. CASE j \in DOMAIN wire
      BY <1>10, <1>13, <2>3, <3>1, <3>3 DEF IInv, WireInOrder
    <3> QED
      BY <1>10, <3>2, <3>3
  <2> QED
    BY <1>1, <2>1, <2>2, <2>3 DEF WireInOrder
<1>18. RepliesInOrder'
  BY <1>1, <1>8, <1>16 DEF IInv, RepliesInOrder
<1>19. GoodSoFar'
  <2>1. Needed(AfterRequest(k)) \subseteq Needed(pc[c]) /\ AfterRequest(k) # Outcome("keymap")
    BY <1>1 DEF Needed, Sending, Awaiting, Outcome, AfterRequest, Kinds
  <2> QED
    BY <1>1, <1>7, <2>1 DEF IInv, GoodSoFar, SameRange
<1>20. \A j \in DOMAIN wire \cup {n} : UseBefore(j) => UseBefore(j)'
  BY <1>10 DEF UseBefore
<1>21. Len(wire') = n /\ (UseBefore(n) => UseBefore(Len(wire) + 1)')
  <2>1. Len(wire') = n
    BY <1>1, <1>2 DEF n
  <2> QED
    BY <1>10, <2>1 DEF UseBefore
<1>22. AfterRequest(k) \in {Sending(l) : l \in KeymapKinds} => k \in KeymapKinds
  BY <1>1, PlaceFacts DEF AfterRequest, Kinds, KeymapKinds
<1>23. Prepared'
  <2>1. ASSUME NEW d \in Callers, reply[d]["Use"].is = "ok" PROVE ready
    BY <2>1 DEF IInv, Prepared
  <2>2. ASSUME support = "yes" /\ ~lost, NEW d \in Callers, ~early[d]
        PROVE  /\ \A l \in Kinds : reply[d][l].is \in {"pending", "ok"}
               /\ pc[d] \in {Sending(l) : l \in KeymapKinds} => ready \/ UseBefore(n)
               /\ pc[d] = Outcome("failed") => Mismatched(d)
    BY <2>2 DEF IInv, Prepared, n
  <2>3. ASSUME support = "yes" /\ ~lost, NEW d \in Callers, ~early[d]
        PROVE  /\ pc'[d] \in {Sending(l) : l \in KeymapKinds} => ready \/ UseBefore(Len(wire) + 1)'
               /\ pc'[d] = Outcome("failed") => Mismatched(d)'
    <3>1. CASE d # c
      BY <1>1, <1>7, <1>21, <2>2, <2>3, <3>1 DEF Mismatched, SameRange
    <3>2. CASE d = c
      <4>1. pc'[d] # Outcome("failed")
        BY <1>4, <1>7, <3>2, PlaceFacts DEF Outcomes
      <4>2. ASSUME pc'[d] \in {Sending(l) : l \in KeymapKinds}
            PROVE  ready \/ UseBefore(Len(wire) + 1)'
        <5>1. pc[d] \in {Sending(l) : l \in KeymapKinds}
          BY <1>1, <1>7, <1>22, <3>2, <4>2
        <5> QED
          BY <1>21, <2>2, <2>3, <5>1
      <4> QED
        BY <4>1, <4>2
    <3> QED
      BY <3>1, <3>2
  <2>4. ASSUME support = "yes" /\ ~lost, NEW j \in DOMAIN wire', Current(wire[j])',
               ~early[wire'[j].caller], wire'[j].kind \in KeymapKinds
        PROVE  ready \/ UseBefore(j)'
    <3>1. CASE j = n
      BY <1>1, <1>10, <1>12, <1>20, <2>2, <2>4, <3>1
    <3>2. CASE j \in DOMAIN wire
      <4>1. wire'[j] = wire[j] /\ Current(wire[j])
        BY <1>10, <1>13, <2>4, <3>2
      <4>2. ready \/ UseBefore(j)
        BY <2>4, <3>2, <4>1 DEF IInv, Prepared
      <4> QED
        BY <1>20, <3>2, <4>2
    <3> QED
      BY <1>10, <3>1, <3>2
  <2> QED
    BY <1>1, <2>1, <2>2, <2>3, <2>4 DEF Prepared
<1> QED
  BY <1>14, <1>17, <1>18, <1>19, <1>23 DEF IInv

(* What a place of a call needs follows from the place before it and the     *)
(* reply taken there.                                                       *)
LEMMA NeededFacts ==
  ASSUME NEW c \in Callers, NEW k \in Kinds, NEW place \in AfterReply(c, k)
  PROVE  /\ Needed(place) \subseteq Needed(Awaiting(k)) \cup {k}
         /\ place \in Places
         /\ place = Outcome("keymap") => SameRange(c)
         /\ place = Outcome("failed") => ~SameRange(c) /\ KeymapKinds \subseteq Needed(Awaiting(k)) \cup {k}
         /\ place \in {Sending(l) : l \in KeymapKinds} => k = "Use"
         /\ \A l \in Kinds : Rank[l] <= Reached(Awaiting(k)) => Rank[l] <= Reached(place)
<1>1. /\ k = "Query" => place = Registering
      /\ k = "Use" => place = Sending("Map")
      /\ k = "Map" => place = Awaiting("Names")
      /\ k = "Names" => place = Awaiting("Controls")
      /\ k = "Controls" => place = Sending("Atoms") \/ place = Assembled(c)
      /\ k = "Atoms" => place = Assembled(c)
  BY DEF AfterReply, Kinds
<1>2. /\ SameRange(c) => Assembled(c) = Outcome("keymap")
      /\ ~SameRange(c) => Assembled(c) = Outcome("failed")
  BY DEF Assembled
<1>3. Needed(place) \subseteq Needed(Awaiting(k)) \cup {k}
  BY <1>1, <1>2 DEF Needed, KeymapKinds, Kinds, Sending, Awaiting, Registering, Outcome
<1>4. place \in Places
  BY <1>1, <1>2 DEF Places, Kinds
<1>5. Outcome("keymap") # Outcome("failed")
  BY DEF Outcome
<1>6. place \in {Outcome("keymap"), Outcome("failed")} => place = Assembled(c) /\ k \in {"Controls", "Atoms"}
  BY <1>1 DEF Sending, Awaiting, Registering, Outcome, Kinds
<1>7. k \in {"Controls", "Atoms"} => KeymapKinds \subseteq Needed(Awaiting(k)) \cup {k}
  BY DEF Needed, KeymapKinds, Awaiting, Sending, Outcome
<1>8. place \in {Sending(l) : l \in KeymapKinds} => k = "Use"
  BY <1>1, <1>2 DEF Kinds, KeymapKinds, Sending, Awaiting, Registering, Outcome
<1>9. ASSUME NEW l \in Kinds, Rank[l] <= Reached(Awaiting(k))
      PROVE  Rank[l] <= Reached(place)
  <2>1. /\ Reached(Registering) = 1 /\ Reached(Sending("Map")) = 2
        /\ Reached(Awaiting("Names")) = 5 /\ Reached(Awaiting("Controls")) = 5
        /\ Reached(Sending("Atoms")) = 5 /\ Reached(Assembled(c)) = 6
    BY <1>2, ReachedFacts, RankFacts DEF Kinds, KeymapKinds, Outcomes
  <2>2. /\ Reached(Awaiting("Query")) = 1 /\ Reached(Awaiting("Use")) = 2
        /\ Reached(Awaiting("Map")) = 5 /\ Reached(Awaiting("Atoms")) = 6
    BY ReachedFacts, RankFacts DEF Kinds, KeymapKinds
  <2> QED
    BY <1>1, <1>9, <2>1, <2>2, RankFacts DEF Kinds
<1> QED
  BY <1>2, <1>3, <1>4, <1>5, <1>6, <1>7, <1>8, <1>9

(* A reply is taken: a good one moves the call on, a bad one ends it.       *)
LEMMA AwaitReplyInv ==
  ASSUME NEW c \in Callers
  PROVE  IInv /\ AwaitReply(c) => IInv'
<1> SUFFICES ASSUME IInv, AwaitReply(c) PROVE IInv'
  OBVIOUS
<1>1. PICK k \in Kinds :
        /\ pc[c] = Awaiting(k)
        /\ reply[c][k].is # "pending"
        /\ IF reply[c][k].is = "ok"
           THEN /\ \E place \in AfterReply(c, k) : pc' = [pc EXCEPT ![c] = place]
                /\ UNCHANGED reply
           ELSE /\ pc' = [pc EXCEPT ![c] = Outcome("failed")]
                /\ reply' = [reply EXCEPT ![c] = Pending]
        /\ UNCHANGED <<support, rangeOf, version, ready, lost, wire, registered, calls, since, early>>
  BY DEF AwaitReply, GoTo, server
<1>2. /\ pc \in [Callers -> Places] /\ reply \in [Callers -> [Kinds -> Answers]]
      /\ wire \in Seq(Requests)
  BY DEF IInv, Types, TypeOK
<1>3. UNCHANGED <<support, rangeOf, version, ready, lost, wire, registered, calls, since, early>>
  BY <1>1
<1>4. ~Idle(c)
  BY <1>1, PlaceFacts DEF Idle
<1>5. \A i \in DOMAIN wire : wire[i].caller \in Callers /\ wire[i].kind \in Kinds
  BY <1>2 DEF Requests
<1>6. CASE reply[c][k].is = "ok"
  <2>1. PICK place \in AfterReply(c, k) : pc' = [pc EXCEPT ![c] = place]
    BY <1>1, <1>6
  <2>2. reply' = reply
    BY <1>1, <1>6
  <2>3. pc'[c] = place /\ \A d \in Callers : d # c => pc'[d] = pc[d]
    BY <1>2, <2>1
  <2>4. \A d \in Callers : ~Idle(d)' => ~Idle(d)
    BY <1>4, <2>3 DEF Idle
  <2>5. \A d \in Callers, l \in Kinds : Rank[l] <= Reached(pc[d]) => Rank[l] <= Reached(pc'[d])
    BY <1>1, <2>3, NeededFacts
  <2>6. \A i \in DOMAIN wire : Current(wire[i])' => Current(wire[i])
    BY <1>3, <1>5, <2>4 DEF Current
  <2>7. Types'
    <3>1. pc' \in [Callers -> Places]
      BY <1>2, <2>1, NeededFacts
    <3>2. TypeOK'
      BY <1>3, <2>2, <3>1 DEF IInv, Types, TypeOK
    <3> QED
      BY <1>3, <2>2, <2>4, <3>2 DEF IInv, Types
  <2>8. WireInOrder'
    BY <1>3, <1>5, <2>2, <2>5, <2>6 DEF IInv, WireInOrder
  <2>9. RepliesInOrder'
    BY <1>3, <2>2, <2>4, <2>5 DEF IInv, RepliesInOrder
  <2>10. /\ \A l \in Needed(place) : reply[c][l].is = "ok"
         /\ place = Outcome("failed") => Mismatched(c)
    <3>1. \A l \in Needed(Awaiting(k)) \cup {k} : reply[c][l].is = "ok"
      BY <1>1, <1>6 DEF IInv, GoodSoFar
    <3> QED
      BY <2>1, <3>1, NeededFacts DEF Mismatched
  <2>11. \A d \in Callers : SameRange(d)' <=> SameRange(d)
    BY <1>3, <2>2 DEF SameRange
  <2>12. GoodSoFar'
    BY <2>1, <2>2, <2>3, <2>10, <2>11, NeededFacts DEF IInv, GoodSoFar
  <2>13. Prepared'
    <3>1. \A d \in Callers : Mismatched(d)' <=> Mismatched(d)
      BY <2>2, <2>11 DEF Mismatched
    <3>2. pc'[c] \in {Sending(l) : l \in KeymapKinds} => ready
      BY <1>6, <2>3, NeededFacts DEF IInv, Prepared
    <3>3. ASSUME support = "yes" /\ ~lost, NEW d \in Callers, ~early[d]
          PROVE  /\ \A l \in Kinds : reply[d][l].is \in {"pending", "ok"}
                 /\ pc'[d] \in {Sending(l) : l \in KeymapKinds} => ready \/ UseBefore(Len(wire) + 1)
                 /\ pc'[d] = Outcome("failed") => Mismatched(d)'
      BY <2>3, <2>10, <3>1, <3>2, <3>3 DEF IInv, Prepared
    <3>4. ASSUME support = "yes" /\ ~lost, NEW j \in DOMAIN wire, Current(wire[j])',
                 ~early[wire[j].caller], wire[j].kind \in KeymapKinds
          PROVE  ready \/ UseBefore(j)
      BY <2>6, <3>4 DEF IInv, Prepared
    <3>5. \A d \in Callers : reply[d]["Use"].is = "ok" => ready
      BY DEF IInv, Prepared
    <3> QED
      BY <1>3, <2>2, <3>3, <3>4, <3>5 DEF Prepared, UseBefore
  <2> QED
    BY <2>7, <2>8, <2>9, <2>12, <2>13 DEF IInv
<1>7. CASE reply[c][k].is # "ok"
  <2>1. pc' = [pc EXCEPT ![c] = Outcome("failed")] /\ reply' = [reply EXCEPT ![c] = Pending]
    BY <1>1, <1>7
  <2>2. /\ pc'[c] = Outcome("failed") /\ reply'[c] = Pending
        /\ \A d \in Callers : d # c => pc'[d] = pc[d] /\ reply'[d] = reply[d]
    BY <1>2, <2>1
  <2>3. Idle(c)' /\ \A d \in Callers : d # c => (Idle(d)' <=> Idle(d))
    BY <2>2, PlaceFacts DEF Idle, Outcomes
  <2>4. Pending \in [Kinds -> Answers] /\ \A l \in Kinds : Pending[l].is = "pending"
    BY X11SessionAssumption DEF Pending, Answers, Answer, Data
  <2>5. \A i \in DOMAIN wire : Current(wire[i])' => wire[i].caller # c /\ Current(wire[i])
    BY <1>3, <1>5, <2>3 DEF Current
  <2>6. Types'
    <3>1. Outcome("failed") \in Places
      BY DEF Places
    <3>2. pc' \in [Callers -> Places] /\ reply' \in [Callers -> [Kinds -> Answers]]
      BY <1>2, <2>1, <2>4, <3>1
    <3>3. \A d \in Callers, l \in Kinds : reply'[d][l] \in Answers
      BY <3>2
    <3>4. TypeOK'
      BY <1>3, <3>2, <3>3 DEF IInv, Types, TypeOK, Answers
    <3> QED
      BY <1>3, <2>3, <3>2, <3>4 DEF IInv, Types
  <2>7. WireInOrder'
    BY <1>3, <1>5, <2>2, <2>5 DEF IInv, WireInOrder
  <2>8. RepliesInOrder'
    BY <1>3, <2>2, <2>3, <2>4 DEF IInv, RepliesInOrder
  <2>9. GoodSoFar'
    <3>1. Needed(Outcome("failed")) = {} /\ Outcome("failed") # Outcome("keymap")
      BY DEF Needed, Outcome, Sending, Awaiting
    <3> QED
      BY <1>3, <2>2, <3>1 DEF IInv, GoodSoFar, SameRange
  <2>10. Prepared'
    <3>1. support = "yes" /\ ~lost => early[c]
      BY <1>1, <1>7 DEF IInv, Prepared
    <3>2. \A d \in Callers : reply'[d]["Use"].is = "ok" => ready
      BY <2>2, <2>4 DEF IInv, Prepared, Kinds
    <3>3. ASSUME support = "yes" /\ ~lost, NEW d \in Callers, ~early[d]
          PROVE  /\ \A l \in Kinds : reply'[d][l].is \in {"pending", "ok"}
                 /\ pc'[d] \in {Sending(l) : l \in KeymapKinds} => ready \/ UseBefore(Len(wire) + 1)
                 /\ pc'[d] = Outcome("failed") => Mismatched(d)'
      <4>1. d # c
        BY <3>1, <3>3
      <4> QED
        BY <1>3, <2>2, <3>3, <4>1 DEF IInv, Prepared, Mismatched, SameRange
    <3>4. ASSUME support = "yes" /\ ~lost, NEW j \in DOMAIN wire, Current(wire[j])',
                 ~early[wire[j].caller], wire[j].kind \in KeymapKinds
          PROVE  ready \/ UseBefore(j)
      BY <2>5, <3>4 DEF IInv, Prepared
    <3> QED
      BY <1>3, <3>2, <3>3, <3>4 DEF Prepared, UseBefore
  <2> QED
    BY <2>6, <2>7, <2>8, <2>9, <2>10 DEF IInv
<1> QED
  BY <1>6, <1>7

(* The server serves a request: its reply is the newest, and the replies of  *)
(* the call that are still to come are of higher rank.                      *)
LEMMA ServeInv == IInv /\ Serve => IInv'
<1> SUFFICES ASSUME IInv, Serve PROVE IInv'
  OBVIOUS
<1> DEFINE r == Head(wire)
           a == Answer(Served(r.kind), version)
<1>1. /\ wire # <<>>
      /\ reply' = IF Current(r) THEN [reply EXCEPT ![r.caller][r.kind] = a] ELSE reply
      /\ ready' = (ready \/ (r.kind = "Use" /\ Served("Use") = "ok"))
      /\ wire' = Tail(wire)
      /\ UNCHANGED <<support, rangeOf, version, lost, registered, pc, calls, since, early>>
  BY DEF Serve, Current
<1>2. UNCHANGED <<support, rangeOf, version, lost, registered, pc, calls, since, early>>
  BY <1>1
<1>3. /\ wire \in Seq(Requests) /\ reply \in [Callers -> [Kinds -> Answers]] /\ version \in Data
  BY DEF IInv, Types, TypeOK
<1>4. Data \subseteq Nat
  BY DEF Data
<1>5. /\ 1 \in DOMAIN wire /\ r = wire[1] /\ wire' \in Seq(Requests)
      /\ Len(wire') = Len(wire) - 1 /\ Len(wire) \in Nat
      /\ \A i \in DOMAIN wire' : i + 1 \in DOMAIN wire /\ i \in Nat \ {0} /\ wire'[i] = wire[i + 1]
  BY <1>1, <1>3, HeadTailProperties
<1>6. \A i \in DOMAIN wire : wire[i].caller \in Callers /\ wire[i].call \in Nat /\ wire[i].kind \in Kinds
  BY <1>3 DEF Requests
<1>7. r.caller \in Callers /\ r.kind \in Kinds
  BY <1>5, <1>6
<1>8. /\ a \in Answers /\ a.is = Served(r.kind) /\ a.keymap = version
      /\ a.is \in {"ok", "refused", "error"}
  BY <1>3 DEF Answer, Answers, Served
<1>9. \A i \in DOMAIN wire' : Current(wire[i])' <=> Current(wire[i + 1])
  BY <1>2, <1>5, <1>6 DEF Current, Idle
<1> HIDE DEF a, r
<1>10. \A d \in Callers, k \in Kinds :
         reply'[d][k] = IF Current(r) /\ d = r.caller /\ k = r.kind THEN a ELSE reply[d][k]
  BY <1>1, <1>3, <1>7
<1>11. reply' \in [Callers -> [Kinds -> Answers]]
  BY <1>1, <1>3, <1>7, <1>8
<1>12. Current(r) => /\ Rank[r.kind] <= Reached(pc[r.caller])
                     /\ \A k \in Kinds : Rank[r.kind] <= Rank[k] => reply[r.caller][k].is = "pending"
  BY <1>5 DEF IInv, WireInOrder
<1>13. Current(r) => reply[r.caller][r.kind].is = "pending"
  BY <1>7, <1>12, RankFacts
<1>14. Types'
  <2>1. \A d \in Callers, k \in Kinds : reply'[d][k] \in Answers
    BY <1>11
  <2>2. ready' \in BOOLEAN
    BY <1>1 DEF IInv, Types, TypeOK
  <2>3. TypeOK'
    BY <1>2, <1>5, <2>1, <2>2 DEF IInv, Types, TypeOK, Answers
  <2> QED
    BY <1>2, <1>11, <2>3 DEF IInv, Types, Idle
<1>15. WireInOrder'
  <2>1. ASSUME NEW i \in DOMAIN wire'
        PROVE  wire'[i].call <= calls[wire'[i].caller]
    BY <1>5 DEF IInv, WireInOrder
  <2>2. ASSUME NEW i \in DOMAIN wire', Current(wire[i])'
        PROVE  Rank[wire'[i].kind] <= Reached(pc[wire'[i].caller])
    BY <1>5, <1>9, <2>2 DEF IInv, WireInOrder
  <2>3. ASSUME NEW i \in DOMAIN wire', Current(wire[i])', NEW k \in Kinds,
               Rank[wire'[i].kind] <= Rank[k]
        PROVE  reply'[wire'[i].caller][k].is = "pending"
    <3>1. reply[wire'[i].caller][k].is = "pending"
      BY <1>5, <1>9, <2>3 DEF IInv, WireInOrder
    <3>2. ASSUME Current(r), wire'[i].caller = r.caller, k = r.kind
          PROVE  FALSE
      <4>1. 1 < i + 1 /\ i + 1 \in DOMAIN wire /\ wire'[i] = wire[i + 1] /\ Current(wire[i + 1])
        BY <1>5, <1>9, <2>3
      <4>2. Rank[r.kind] < Rank[wire[i + 1].kind]
        BY <1>5, <3>2, <4>1 DEF IInv, WireInOrder
      <4>3. Rank[r.kind] \in Nat /\ Rank[wire[i + 1].kind] \in Nat
        BY <1>6, <1>7, <4>1, RankFacts
      <4> QED
        BY <2>3, <3>2, <4>1, <4>2, <4>3
    <3> QED
      BY <1>5, <1>6, <1>10, <3>1, <3>2
  <2>4. ASSUME NEW i \in DOMAIN wire', NEW j \in DOMAIN wire', i < j, Current(wire[i])',
               Current(wire[j])', wire'[i].caller = wire'[j].caller
        PROVE  Rank[wire'[i].kind] < Rank[wire'[j].kind]
    <3>1. i + 1 < j + 1
      BY <1>5, <2>4
    <3> QED
      BY <1>5, <1>9, <2>4, <3>1 DEF IInv, WireInOrder
  <2> QED
    BY <1>2, <2>1, <2>2, <2>3, <2>4 DEF WireInOrder
<1>16. RepliesInOrder'
  <2>1. ASSUME NEW d \in Callers PROVE since[d] <= version
    BY DEF IInv, RepliesInOrder
  <2>2. version <= version
    BY <1>3, <1>4
  <2>3. ASSUME NEW d \in Callers, NEW k \in Kinds, reply'[d][k].is # "pending"
        PROVE  /\ ~Idle(d) => Rank[k] <= Reached(pc[d])
               /\ since[d] <= reply'[d][k].keymap /\ reply'[d][k].keymap <= version
    <3>1. CASE Current(r) /\ d = r.caller /\ k = r.kind
      BY <1>8, <1>10, <1>12, <2>1, <2>2, <3>1
    <3>2. CASE ~(Current(r) /\ d = r.caller /\ k = r.kind)
      BY <1>10, <2>3, <3>2 DEF IInv, RepliesInOrder
    <3> QED
      BY <3>1, <3>2
  <2>4. ASSUME NEW d \in Callers, NEW k \in Kinds, NEW l \in Kinds, reply'[d][k].is # "pending",
               reply'[d][l].is # "pending", Rank[k] < Rank[l]
        PROVE  reply'[d][k].keymap <= reply'[d][l].keymap
    <3>1. CASE Current(r) /\ d = r.caller /\ l = r.kind
      BY <1>8, <1>10, <2>3, <2>4, <3>1
    <3>2. CASE Current(r) /\ d = r.caller /\ k = r.kind
      <4>1. Rank[k] <= Rank[l] /\ k # l
        BY <2>4, RankFacts
      <4> QED
        BY <1>10, <1>12, <2>4, <3>2, <4>1
    <3>3. CASE ~(Current(r) /\ d = r.caller /\ (l = r.kind \/ k = r.kind))
      BY <1>10, <2>4, <3>3 DEF IInv, RepliesInOrder
    <3> QED
      BY <3>1, <3>2, <3>3
  <2> QED
    BY <1>2, <2>1, <2>3, <2>4 DEF RepliesInOrder, Idle
<1>17. \A d \in Callers, o \in Outcomes : pc[d] = Outcome(o) => reply'[d] = reply[d]
  <2>1. ASSUME NEW d \in Callers, NEW o \in Outcomes, pc[d] = Outcome(o)
        PROVE  reply'[d] = reply[d]
    <3>1. Idle(d)
      BY <2>1, PlaceFacts DEF Idle
    <3>2. ~(Current(r) /\ d = r.caller)
      BY <3>1 DEF Current
    <3> QED
      BY <1>1, <1>3, <1>7, <3>2
  <2> QED
    BY <2>1
<1>18. GoodSoFar'
  <2>1. \A d \in Callers : Needed(pc[d]) \subseteq Kinds
    BY DEF Needed, KeymapKinds, Kinds
  <2>2. \A d \in Callers : pc[d] = Outcome("keymap") => (SameRange(d)' <=> SameRange(d))
    BY <1>2, <1>17 DEF SameRange, Outcomes
  <2> QED
    BY <1>2, <1>10, <1>13, <2>1, <2>2 DEF IInv, GoodSoFar
<1>19. Served("Use") = "ok" /\ r.kind = "Use" => ready'
  BY <1>1
<1>20. support = "yes" /\ ~lost => Served("Use") = "ok"
  BY DEF Served
<1>21. ASSUME support = "yes" /\ ~lost, Current(r), ~early[r.caller]
       PROVE  a.is = "ok"
  <2>1. r.kind \in KeymapKinds => ready
    <3>1. ~UseBefore(1)
      BY <1>3 DEF UseBefore
    <3> QED
      BY <1>5, <1>21, <3>1 DEF IInv, Prepared
  <2> QED
    BY <1>7, <1>8, <1>21, <2>1 DEF Served, Kinds, KeymapKinds
<1>22. ASSUME support = "yes" /\ ~lost, NEW j \in Nat, UseBefore(j + 1)
       PROVE  ready' \/ UseBefore(j)'
  <2>1. PICK i \in DOMAIN wire : i < j + 1 /\ wire[i].kind = "Use"
    BY <1>22 DEF UseBefore
  <2>2. CASE i = 1
    BY <1>5, <1>19, <1>20, <1>22, <2>1, <2>2
  <2>3. CASE i # 1
    <3>1. i \in 1..Len(wire) /\ DOMAIN wire' = 1..Len(wire')
      BY <1>3, <1>5
    <3>2. i - 1 \in DOMAIN wire' /\ i - 1 < j /\ (i - 1) + 1 = i
      BY <1>5, <2>1, <2>3, <3>1
    <3>3. wire'[i - 1].kind = "Use"
      BY <1>5, <2>1, <3>2
    <3> QED
      BY <3>2, <3>3 DEF UseBefore
  <2> QED
    BY <2>2, <2>3
<1>23. Prepared'
  <2>1. ASSUME NEW d \in Callers, reply'[d]["Use"].is = "ok" PROVE ready'
    <3>1. CASE Current(r) /\ d = r.caller /\ "Use" = r.kind
      BY <1>1, <1>8, <1>10, <2>1, <3>1 DEF Kinds
    <3>2. CASE ~(Current(r) /\ d = r.caller /\ "Use" = r.kind)
      BY <1>1, <1>10, <2>1, <3>2 DEF IInv, Prepared, Kinds
    <3> QED
      BY <3>1, <3>2
  <2>2. ASSUME support = "yes" /\ ~lost, NEW d \in Callers, ~early[d]
        PROVE  /\ \A k \in Kinds : reply'[d][k].is \in {"pending", "ok"}
               /\ pc[d] = Outcome("failed") => Mismatched(d)'
    <3>1. \A k \in Kinds : reply'[d][k].is \in {"pending", "ok"}
      BY <1>10, <1>21, <2>2 DEF IInv, Prepared
    <3>2. ASSUME pc[d] = Outcome("failed") PROVE Mismatched(d)'
      BY <1>2, <1>17, <2>2, <3>2 DEF IInv, Prepared, Mismatched, SameRange, Outcomes
    <3> QED
      BY <3>1, <3>2
  <2>3. ASSUME support = "yes" /\ ~lost, NEW d \in Callers, ~early[d],
               pc[d] \in {Sending(l) : l \in KeymapKinds}
        PROVE  ready' \/ UseBefore(Len(wire) + 1)'
    <3>1. ready \/ UseBefore(Len(wire) + 1)
      BY <2>3 DEF IInv, Prepared
    <3>2. PICK m \in Nat : m = Len(wire) /\ m = Len(wire') + 1
      BY <1>5
    <3>3. ready \/ UseBefore(m + 1)
      BY <3>1, <3>2
    <3>4. ready' \/ UseBefore(m)'
      BY <1>1, <1>22, <2>3, <3>3
    <3> QED
      BY <3>2, <3>4 DEF UseBefore
  <2>4. ASSUME support = "yes" /\ ~lost, NEW j \in DOMAIN wire', Current(wire[j])',
               ~early[wire'[j].caller], wire'[j].kind \in KeymapKinds
        PROVE  ready' \/ UseBefore(j)'
    <3>1. ready \/ UseBefore(j + 1)
      BY <1>5, <1>9, <2>4 DEF IInv, Prepared
    <3> QED
      BY <1>1, <1>5, <1>22, <2>4, <3>1
  <2> QED
    BY <1>2, <2>1, <2>2, <2>3, <2>4 DEF Prepared
<1> QED
  BY <1>14, <1>15, <1>16, <1>18, <1>23 DEF IInv

(* Every step preserves the invariant.                                      *)
LEMMA StepInv == IInv /\ [Next]_vars => IInv'
<1> SUFFICES ASSUME IInv, [Next]_vars PROVE IInv'
  OBVIOUS
<1>1. CASE Serve
  BY <1>1, ServeInv
<1>2. CASE ChangeKeymap
  BY <1>2, ChangeKeymapInv
<1>3. CASE LoseConnection
  BY <1>3, LoseConnectionInv
<1>4. ASSUME NEW c \in Callers, LookUpExtension(c) PROVE IInv'
  BY <1>4, LookUpExtensionInv
<1>5. ASSUME NEW c \in Callers, Step(c) PROVE IInv'
  BY <1>5, SendRequestInv, RegisterExtensionInv, AwaitReplyInv DEF Step
<1>6. CASE UNCHANGED vars
  <2>1. UNCHANGED <<support, rangeOf, version, ready, lost, wire, registered, pc, calls, reply, since, early>>
    BY <1>6 DEF vars, server
  <2>2. Types' /\ RepliesInOrder' /\ GoodSoFar'
    BY <2>1 DEF IInv, Types, TypeOK, RepliesInOrder, GoodSoFar, SameRange, Idle
  <2>3. WireInOrder' /\ Prepared'
    BY <2>1 DEF IInv, WireInOrder, Prepared, UseBefore, Current, Idle, Mismatched, SameRange
  <2> QED
    BY <2>2, <2>3 DEF IInv
<1> QED
  BY <1>1, <1>2, <1>3, <1>4, <1>5, <1>6 DEF Next

(* The invariant holds in every state.                                      *)
LEMMA Invariance == Spec => []IInv
  BY InitInv, StepInv, PTL DEF Spec

-----------------------------------------------------------------------------
(* The theorems.                                                            *)

(* Every variable of a session holds a value of its type, whatever the       *)
(* goroutines, the server and the connection do.                            *)
THEOREM TypeCorrect == Spec => []TypeOK
<1>1. IInv => TypeOK
  BY DEF IInv, Types
<1> QED
  BY <1>1, Invariance, PTL

(* NewKeymapFromX11Device returns no reply that was meant for an earlier     *)
(* call, however many goroutines have requests on the wire: the three parts *)
(* of a keymap are answers to the call that returns it, none older than the *)
(* call, and each no older than the one before, and its map and its names   *)
(* speak of the same keycodes.                                              *)
THEOREM ReturnsFreshKeymap == Spec => []FreshKeymap
<1>1. IInv => FreshKeymap
  <2> SUFFICES ASSUME IInv, NEW c \in Callers, pc[c] = Outcome("keymap")
               PROVE  /\ \A k \in KeymapKinds : reply[c][k].is = "ok"
                      /\ since[c] <= reply[c]["Map"].keymap
                      /\ reply[c]["Map"].keymap <= reply[c]["Names"].keymap
                      /\ reply[c]["Names"].keymap <= reply[c]["Controls"].keymap
                      /\ SameRange(c)
    BY DEF FreshKeymap, KeymapKinds
  <2>1. Needed(Outcome("keymap")) = KeymapKinds
    BY DEF Needed, Outcome, Sending, Awaiting
  <2>2. \A k \in KeymapKinds : reply[c][k].is = "ok"
    BY <2>1 DEF IInv, GoodSoFar
  <2>3. /\ reply[c]["Map"].is # "pending" /\ reply[c]["Names"].is # "pending"
        /\ reply[c]["Controls"].is # "pending"
    BY <2>2 DEF KeymapKinds
  <2>4. SameRange(c)
    BY DEF IInv, GoodSoFar
  <2> QED
    BY <2>2, <2>3, <2>4, RankFacts DEF IInv, RepliesInOrder, Kinds
<1> QED
  BY <1>1, Invariance, PTL

(* While the connection works and the server supports XKB, a call of         *)
(* NewKeymapFromX11Device fails only if it found the extension registered   *)
(* by another goroutine which had yet to send UseExtension, or if the       *)
(* keymap changed its keycodes between the call's GetMap and its GetNames.  *)
THEOREM FailsInGapOrMixture == Spec => []FailsOnlyInGapOrMixture
<1>1. IInv => FailsOnlyInGapOrMixture
  <2> SUFFICES ASSUME IInv, support = "yes", ~lost,
                      NEW c \in Callers, pc[c] = Outcome("failed"), ~early[c]
               PROVE  /\ since[c] <= reply[c]["Map"].keymap
                      /\ reply[c]["Map"].keymap < reply[c]["Names"].keymap
                      /\ ~SameRange(c)
    BY DEF FailsOnlyInGapOrMixture
  <2>1. Mismatched(c)
    BY DEF IInv, Prepared
  <2>2. reply[c]["Map"].keymap # reply[c]["Names"].keymap
    BY <2>1 DEF Mismatched, SameRange
  <2>3. reply[c]["Map"].is # "pending" /\ reply[c]["Names"].is # "pending"
    BY <2>1 DEF Mismatched, KeymapKinds
  <2>4. reply[c]["Map"].keymap \in Nat /\ reply[c]["Names"].keymap \in Nat
    BY DEF IInv, Types, Answers, Data, Kinds
  <2>5. /\ since[c] <= reply[c]["Map"].keymap
        /\ reply[c]["Map"].keymap <= reply[c]["Names"].keymap
    BY <2>3, RankFacts DEF IInv, RepliesInOrder, Kinds
  <2> QED
    BY <2>1, <2>2, <2>4, <2>5 DEF Mismatched
<1> QED
  BY <1>1, Invariance, PTL

-----------------------------------------------------------------------------
(* The decoder, which a call gives the replies of its session.              *)
CONSTANTS Keyboards, AtomNames, BadBytes, Unused
VARIABLES keyboard, fault, replies, section, b, read, raw, map, names, controls, km
Decode == INSTANCE X11Decode WITH wire <- replies, pc <- section

\* Sizes are the same in the instance.
LEMMA SameSize ==
  ASSUME NEW S
  PROVE  Decode!Cardinality(S) = Cardinality(S)
  BY DEF Decode!Cardinality, Cardinality

-----------------------------------------------------------------------------
(* The inductive invariant.                                                 *)

Replies == {"map", "names", "controls"}
BuildSteps == {"keys", "links", "done"}

\* NeverPastEnd, and where the cursor is while counts decide how often
\* something is read.
Bounded ==
  /\ replies \in [Replies -> Seq(0..255)]
  /\ DOMAIN read = Replies
  /\ Decode!NeverPastEnd
  /\ section \in Decode!MapSections => b \in Nat
  /\ section \in {"types", "syms"} => b <= Len(replies["map"])

\* A key has the keysyms of all its levels.
KeyFits(key) ==
  /\ key.types \in Seq(Nat) /\ key.width \in Nat
  /\ Len(key.syms) = key.width * Len(key.types)

KeysRead(keys) ==
  /\ \E set : keys \in Seq(set)
  /\ \A i \in DOMAIN keys : KeyFits(keys[i])

\* What has been read of the map, and what is made of it.
MapRead ==
  /\ raw = [types |-> raw.types, syms |-> raw.syms, vmods |-> raw.vmods, modmap |-> raw.modmap]
  /\ \E set : raw.types \in Seq(set)
  /\ KeysRead(raw.syms)
  /\ section \notin Decode!MapSections \cup {"failed"} =>
       /\ map.min \in Nat /\ map.max \in Nat
       /\ \E set : map.types \in Seq(set)
       /\ KeysRead(map.syms)

\* Each group of a key has become one with a known type.
GroupsMade(key, groups, types) ==
  /\ DOMAIN groups = DOMAIN key.types
  /\ \A g \in DOMAIN groups :
       groups[g].type \in DOMAIN types /\ groups[g].levels = Decode!GroupLevels(key, g)

\* The keys of the keymap are the first ones of the map, all of them when the
\* last has been added.
KeysSoFar ==
  /\ \E n \in 0..Len(map.syms) :
       /\ DOMAIN km.keys = map.min..(map.min + n - 1)
       /\ section # "keys" => n = Len(map.syms)
  /\ \A c \in DOMAIN km.keys :
       /\ "groups" \in DOMAIN km.keys[c]
       /\ GroupsMade(map.syms[c - map.min + 1], km.keys[c].groups, km.types)

Built ==
  section \in BuildSteps =>
    /\ km = [min |-> map.min, max |-> map.max, groups |-> km.groups, types |-> km.types,
             vmods |-> km.vmods, groupNames |-> km.groupNames,
             nameOf |-> km.nameOf, codeOf |-> km.codeOf, keys |-> km.keys]
    /\ Len(map.syms) = map.max - map.min + 1
    /\ \E set : km.types \in Seq(set)
    /\ Decode!Range(km.codeOf) \subseteq DOMAIN km.nameOf
    /\ KeysSoFar

DecodeInv == Bounded /\ MapRead /\ Built

-----------------------------------------------------------------------------
(* Bytes.                                                                   *)

(* Which reply a section is in.                                             *)
LEMMA ReplyFacts ==
  /\ Decode!Reply \in Replies
  /\ section \in Decode!MapSections => Decode!Reply = "map"
  BY DEF Decode!Reply, Replies, Decode!MapSections, Decode!NamesSections

(* What is read is a byte, or the zero that stands for nothing.             *)
LEMMA ByteFacts ==
  ASSUME replies \in [Replies -> Seq(0..255)], NEW i \in Nat
  PROVE  Decode!Byte(i) \in 0..255 /\ Decode!Uint16(i) \in Nat
<1>1. Decode!Buffer \in Seq(0..255)
  BY ReplyFacts DEF Decode!Buffer
<1>2. \A j \in Nat : Decode!Byte(j) \in 0..255
  <2>1. TAKE j \in Nat
  <2>2. CASE j < Len(Decode!Buffer)
    <3>1. j + 1 \in 1..Len(Decode!Buffer)
      BY <1>1, <2>2
    <3>2. Decode!Buffer[j + 1] \in 0..255
      BY <1>1, <3>1, ElementOfSeq
    <3> QED
      BY <2>2, <3>2 DEF Decode!Byte
  <2>3. CASE ~(j < Len(Decode!Buffer))
    BY <2>3 DEF Decode!Byte
  <2> QED
    BY <2>2, <2>3
<1>3. i + 1 \in Nat
  OBVIOUS
<1>4. Decode!Byte(i) \in 0..255 /\ Decode!Byte(i + 1) \in 0..255
  BY <1>2, <1>3
<1>5. PICK x, y : x = Decode!Byte(i) /\ y = Decode!Byte(i + 1)
  OBVIOUS
<1>6. x \in 0..255 /\ y \in 0..255
  BY <1>4, <1>5
<1>7. Decode!Uint16(i) = x + 256 * y
  BY <1>5 DEF Decode!Uint16
<1> QED
  BY <1>4, <1>6, <1>7

(* Looking at no more than there is keeps within the reply.                 *)
LEMMA LooksStep ==
  ASSUME Bounded, UNCHANGED replies,
         UNCHANGED read \/ \E n : n <= Len(Decode!Buffer) /\ Decode!LooksTo(n)
  PROVE  /\ replies' \in [Replies -> Seq(0..255)]
         /\ DOMAIN read' = Replies
         /\ Decode!NeverPastEnd'
<1>1. CASE UNCHANGED read
  BY <1>1 DEF Bounded, Decode!NeverPastEnd
<1>2. CASE \E n : n <= Len(Decode!Buffer) /\ Decode!LooksTo(n)
  <2>1. PICK n : n <= Len(Decode!Buffer) /\ read' = [read EXCEPT ![Decode!Reply] = n]
    BY <1>2 DEF Decode!LooksTo
  <2>2. ASSUME NEW r \in DOMAIN replies' PROVE read'[r] <= Len(replies'[r])
    <3>1. r \in Replies
      BY <2>2 DEF Bounded
    <3>2. CASE r = Decode!Reply
      BY <2>1, <3>1, <3>2 DEF Bounded, Decode!Buffer
    <3>3. CASE r # Decode!Reply
      BY <2>1, <3>1, <3>3 DEF Bounded, Decode!NeverPastEnd
    <3> QED
      BY <3>2, <3>3
  <2> QED
    BY <2>1, <2>2 DEF Bounded, Decode!NeverPastEnd
<1> QED
  BY <1>1, <1>2

(* A call that fails leaves everything as it is.                            *)
LEMMA FailStep ==
  ASSUME DecodeInv, Decode!Fail
  PROVE  DecodeInv'
<1>1. Bounded'
  BY DEF DecodeInv, Decode!Fail, Bounded, Decode!NeverPastEnd, Decode!MapSections
<1>2. MapRead'
  BY DEF DecodeInv, Decode!Fail, MapRead, Decode!MapSections, KeysRead
<1>3. Built'
  BY DEF Decode!Fail, Built, BuildSteps
<1> QED
  BY <1>1, <1>2, <1>3 DEF DecodeInv

-----------------------------------------------------------------------------
(* The sections of the map.                                                 *)

(* A section of the map moves the cursor and adds what it read.             *)
LEMMA MapStep ==
  ASSUME DecodeInv, section \in Decode!MapSections, section' \in Decode!MapSections, UNCHANGED replies,
         UNCHANGED read \/ \E n : n <= Len(Decode!Buffer) /\ Decode!LooksTo(n),
         b' \in Nat, section' \in {"types", "syms"} => b' <= Len(Decode!Buffer),
         raw' = [types |-> raw'.types, syms |-> raw'.syms, vmods |-> raw'.vmods, modmap |-> raw'.modmap],
         \E set : raw'.types \in Seq(set), KeysRead(raw'.syms)
  PROVE  DecodeInv'
<1>1. Bounded'
  BY LooksStep, ReplyFacts DEF DecodeInv, Bounded, Decode!Buffer
<1>2. MapRead'
  BY DEF MapRead, KeysRead
<1>3. Built'
  BY DEF Built, BuildSteps, Decode!MapSections
<1> QED
  BY <1>1, <1>2, <1>3 DEF DecodeInv

(* A section that is not there.                                             *)
LEMMA WithoutStep ==
  ASSUME DecodeInv, section \in Decode!MapSections, NEW next \in Decode!MapSections \ {"types", "syms"}, Decode!Without(next)
  PROVE  DecodeInv'
<1>1. section' = next /\ UNCHANGED <<replies, b, read, raw>>
  BY DEF Decode!Without
<1> QED
  BY <1>1, MapStep DEF DecodeInv, Bounded, MapRead

(* The fixed part of the map is measured before it is read.                 *)
LEMMA MapHeaderStep ==
  ASSUME DecodeInv, Decode!MapHeader
  PROVE  DecodeInv'
<1>1. section = "map" /\ section \in Decode!MapSections /\ Len(Decode!Buffer) \in Nat
  BY ReplyFacts DEF Decode!MapHeader, Decode!MapSections, DecodeInv, Bounded, Decode!Buffer
<1>2. CASE Decode!Fail
  BY <1>2, FailStep
<1>3. CASE /\ ~(Len(Decode!Buffer) < 38) /\ Decode!Begin(38, "types") /\ UNCHANGED raw
  <2>1. section' = "types" /\ b' = 38 /\ UNCHANGED <<replies, raw>> /\ Decode!LooksTo(38) /\ 38 <= Len(Decode!Buffer)
    BY <1>1, <1>3 DEF Decode!Begin
  <2> QED
    BY <1>1, <2>1, MapStep DEF DecodeInv, MapRead, Decode!MapSections
<1> QED
  BY <1>2, <1>3 DEF Decode!MapHeader

(* A key type, whose entries decide its size.                               *)
LEMMA KeyTypeStep ==
  ASSUME DecodeInv, Decode!KeyType
  PROVE  DecodeInv'
<1> DEFINE entries == Decode!Byte(b + 5)
           size == 8 + entries * (IF Decode!Byte(b + 6) # 0 THEN 12 ELSE 8)
<1>1. section = "types" /\ section \in Decode!MapSections /\ Len(Decode!Buffer) \in Nat /\ b \in Nat
  BY ReplyFacts DEF Decode!KeyType, Decode!MapSections, DecodeInv, Bounded, Decode!Buffer
<1>2. size \in Nat
  <2>1. b + 5 \in Nat /\ replies \in [Replies -> Seq(0..255)]
    BY <1>1 DEF DecodeInv, Bounded
  <2>2. entries \in 0..255
    BY <2>1, ByteFacts
  <2> QED
    BY <2>2
<1>3. CASE Decode!Fail
  BY <1>3, FailStep
<1>4. CASE \E t : Decode!Has(size) /\ raw' = [raw EXCEPT !.types = Append(@, t)] /\ Decode!Took(size, "types")
  <2>1. PICK t : Decode!Has(size) /\ raw' = [raw EXCEPT !.types = Append(@, t)] /\ Decode!Took(size, "types")
    BY <1>4
  <2> HIDE DEF size
  <2>2. /\ section' = "types" /\ b' = b + size /\ UNCHANGED replies
        /\ Decode!LooksTo(b + size) /\ b + size <= Len(Decode!Buffer)
    BY <2>1 DEF Decode!Took, Decode!Has
  <2>3. PICK set : raw.types \in Seq(set)
    BY DEF DecodeInv, MapRead
  <2>4. raw'.types = Append(raw.types, t) /\ raw'.syms = raw.syms
        /\ raw' = [types |-> raw'.types, syms |-> raw'.syms, vmods |-> raw'.vmods, modmap |-> raw'.modmap]
    BY <2>1 DEF DecodeInv, MapRead
  <2>5. raw'.types \in Seq(set \cup {t})
    <3>1. raw.types \in Seq(set \cup {t})
      BY <2>3
    <3> QED
      BY <2>4, <3>1
  <2>6. KeysRead(raw'.syms)
    BY <2>4 DEF DecodeInv, MapRead
  <2> QED
    BY <1>1, <1>2, <2>2, <2>4, <2>5, <2>6, MapStep DEF Decode!MapSections
<1> QED
  BY <1>3, <1>4 DEF Decode!KeyType

(* A key, whose groups and width decide its size.                           *)
LEMMA KeySymMapStep ==
  ASSUME DecodeInv, Decode!KeySymMap
  PROVE  DecodeInv'
<1> DEFINE groups == Decode!Byte(b + 4) % 16
           n == Decode!Uint16(b + 6)
           new == [types |-> [g \in 1..groups |-> Decode!Byte(b + g - 1)], width |-> Decode!Byte(b + 5),
                   syms |-> [i \in 1..n |-> Decode!Uint32(b + 4 + i * 4)]]
<1>1. section = "syms" /\ section \in Decode!MapSections /\ Len(Decode!Buffer) \in Nat /\ b \in Nat
      /\ replies \in [Replies -> Seq(0..255)]
  BY ReplyFacts DEF Decode!KeySymMap, Decode!MapSections, DecodeInv, Bounded, Decode!Buffer
<1>2. n \in Nat /\ groups \in Nat
  <2>1. Decode!Byte(b + 4) \in 0..255 /\ Decode!Uint16(b + 6) \in Nat
    BY <1>1, ByteFacts
  <2> QED
    BY <2>1
<1>3. CASE Decode!Fail
  BY <1>3, FailStep
<1>4. CASE /\ Decode!KeySymsFit(groups, Decode!Byte(b + 5), n) /\ Decode!Took(8 + n * 4, "syms")
           /\ raw' = [raw EXCEPT !.syms = Append(@, new)]
  <2>1. new.types \in Seq(Nat)
    <3>1. \A g \in 1..groups : Decode!Byte(b + g - 1) \in Nat
      <4>1. TAKE g \in 1..groups
      <4>2. b + g - 1 \in Nat
        BY <1>1, <1>2
      <4>3. Decode!Byte(b + g - 1) \in 0..255
        BY <1>1, <4>2, ByteFacts
      <4> QED
        BY <4>3
    <3> HIDE DEF groups
    <3>2. [g \in 1..groups |-> Decode!Byte(b + g - 1)] \in [1..groups -> Nat]
      BY <3>1
    <3> QED
      BY <1>2, <3>2
  <2>8. KeyFits(new)
    <3>1. Decode!Byte(b + 5) \in Nat
      <4>1. b + 5 \in Nat
        BY <1>1
      <4>2. Decode!Byte(b + 5) \in 0..255
        BY <1>1, <4>1, ByteFacts
      <4> QED
        BY <4>2
    <3> HIDE DEF n, groups
    <3>2. new.width = Decode!Byte(b + 5) /\ Len(new.types) = groups /\ Len(new.syms) = n
      <4>1. new.width = Decode!Byte(b + 5)
        OBVIOUS
      <4>2. Len(new.types) = groups
        <5>1. new.types = [g \in 1..groups |-> Decode!Byte(b + g - 1)]
          OBVIOUS
        <5> HIDE DEF new
        <5> QED
          BY <1>2, <5>1
      <4>3. Len(new.syms) = n
        <5>1. new.syms = [i \in 1..n |-> Decode!Uint32(b + 4 + i * 4)]
          OBVIOUS
        <5> HIDE DEF new
        <5> QED
          BY <1>2, <5>1
      <4> QED
        BY <4>1, <4>2, <4>3
    <3>3. n = Decode!Byte(b + 5) * groups
      BY <1>4 DEF Decode!KeySymsFit
    <3> QED
      BY <1>2, <2>1, <3>1, <3>2, <3>3 DEF KeyFits
  <2> HIDE DEF new, n
  <2>2. /\ section' = "syms" /\ b' = b + (8 + n * 4) /\ UNCHANGED replies
        /\ Decode!LooksTo(b + (8 + n * 4)) /\ b + (8 + n * 4) <= Len(Decode!Buffer)
    BY <1>4 DEF Decode!Took, Decode!Has, Decode!KeySymsFit
  <2>3. PICK set : raw.syms \in Seq(set)
    BY DEF DecodeInv, MapRead, KeysRead
  <2>4. raw'.syms = Append(raw.syms, new) /\ raw'.types = raw.types
        /\ raw' = [types |-> raw'.types, syms |-> raw'.syms, vmods |-> raw'.vmods, modmap |-> raw'.modmap]
    BY <1>4 DEF DecodeInv, MapRead
  <2>5. KeysRead(raw'.syms)
    <3>1. raw.syms \in Seq(set \cup {new})
      BY <2>3
    <3>2. raw'.syms \in Seq(set \cup {new})
      BY <2>4, <3>1
    <3>3. ASSUME NEW i \in DOMAIN raw'.syms PROVE KeyFits(raw'.syms[i])
      <4>1. \/ i \in DOMAIN raw.syms /\ raw'.syms[i] = raw.syms[i]
            \/ raw'.syms[i] = new
        BY <2>4, <3>1, <3>3
      <4> QED
        BY <2>8, <4>1 DEF DecodeInv, MapRead, KeysRead
    <3> QED
      BY <3>2, <3>3 DEF KeysRead
  <2>6. \E s : raw'.types \in Seq(s)
    BY <2>4 DEF DecodeInv, MapRead
  <2>7. b' \in Nat
    BY <1>1, <1>2, <2>2
  <2> QED
    BY <1>1, <2>2, <2>4, <2>5, <2>6, <2>7, MapStep DEF Decode!MapSections
<1> QED
  BY <1>3, <1>4 DEF Decode!KeySymMap

(* The lists of types and keys end where they end.                          *)
LEMMA EndStep ==
  ASSUME DecodeInv, Decode!EndTypes \/ Decode!EndSyms
  PROVE  DecodeInv'
<1>1. section \in {"types", "syms"} /\ section \in Decode!MapSections /\ b \in Nat /\ b <= Len(Decode!Buffer)
  BY ReplyFacts DEF Decode!EndTypes, Decode!EndSyms, Decode!MapSections, DecodeInv, Bounded, Decode!Buffer
<1>2. CASE Decode!Fail
  BY <1>2, FailStep
<1>3. CASE \E next \in {"syms", "vmods"} : Decode!Took(0, next) /\ UNCHANGED raw
  <2>1. PICK next \in {"syms", "vmods"} : Decode!Took(0, next) /\ UNCHANGED raw
    BY <1>3
  <2>2. section' = next /\ b' = b + 0 /\ UNCHANGED <<replies, raw>> /\ Decode!LooksTo(b + 0)
    BY <2>1 DEF Decode!Took
  <2>3. b + 0 = b
    BY <1>1
  <2> QED
    BY <1>1, <2>2, <2>3, MapStep DEF DecodeInv, MapRead, Decode!MapSections
<1> QED
  BY <1>2, <1>3 DEF Decode!EndTypes, Decode!EndSyms

(* The optional sections: a cursor behind what pads them is still a number.  *)
LEMMA OptionalStep ==
  ASSUME DecodeInv, Decode!ReadVirtualMods \/ Decode!ReadModifierMap
  PROVE  DecodeInv'
<1>1. section \in {"vmods", "modmap"} /\ section \in Decode!MapSections /\ b \in Nat /\ Len(Decode!Buffer) \in Nat
      /\ replies \in [Replies -> Seq(0..255)]
  BY ReplyFacts
     DEF Decode!ReadVirtualMods, Decode!ReadModifierMap, Decode!MapSections, DecodeInv, Bounded, Decode!Buffer
<1>2. \A n \in Nat : Decode!Pad4(n) \in Nat
  BY DEF Decode!Pad4
<1>3. ASSUME NEW n \in Nat, NEW f \in {"vmods", "modmap"}, NEW v, NEW next \in {"modmap", "resolve"},
             Decode!Has(n), raw' = [raw EXCEPT ![f] = v], UNCHANGED read \/ Decode!LooksTo(b + n),
             b' = Decode!Aligned(b + n), section' = next, UNCHANGED replies
      PROVE  DecodeInv'
  <2>1. b' \in Nat
    BY <1>1, <1>2, <1>3 DEF Decode!Aligned
  <2>2. UNCHANGED read \/ \E m : m <= Len(Decode!Buffer) /\ Decode!LooksTo(m)
    BY <1>3 DEF Decode!Has
  <2>3. /\ raw'.types = raw.types /\ raw'.syms = raw.syms
        /\ raw' = [types |-> raw'.types, syms |-> raw'.syms, vmods |-> raw'.vmods, modmap |-> raw'.modmap]
    BY <1>3 DEF DecodeInv, MapRead
  <2>4. (\E set : raw'.types \in Seq(set)) /\ KeysRead(raw'.syms)
    BY <2>3 DEF DecodeInv, MapRead
  <2>5. section' \in Decode!MapSections /\ section' \notin {"types", "syms"}
    BY <1>3 DEF Decode!MapSections
  <2> QED
    BY <1>1, <1>3, <2>1, <2>2, <2>3, <2>4, <2>5, MapStep
<1>4. CASE Decode!ReadVirtualMods
  <2> DEFINE n == Decode!Cardinality(Decode!VModSlots)
             v == [i \in Decode!VModSlots |-> Decode!Bits(Decode!Byte(b + Decode!SlotsBelow(i)))]
  <2>1. n \in Nat
    <3>1. IsFiniteSet(0..15) /\ Decode!VModSlots \subseteq 0..15
      BY FS_Interval, 0 \in Int, 15 \in Int DEF Decode!VModSlots, Decode!Bits
    <3>2. IsFiniteSet(Decode!VModSlots)
      BY <3>1, FS_Subset
    <3> QED
      BY <3>2, FS_CardinalityType, SameSize
  <2> HIDE DEF n, v
  <2>2. CASE Decode!Fail
    BY <2>2, FailStep
  <2>3. CASE Decode!Without("modmap")
    BY <1>1, <2>3, WithoutStep DEF Decode!MapSections
  <2>4. CASE /\ Decode!Has(n) /\ raw' = [raw EXCEPT !.vmods = v] /\ Decode!LooksTo(b + n)
             /\ b' = Decode!Aligned(b + n) /\ section' = "modmap" /\ UNCHANGED replies
    BY <1>3, <2>1, <2>4
  <2> QED
    BY <1>4, <2>2, <2>3, <2>4 DEF Decode!ReadVirtualMods, n, v
<1>5. CASE Decode!ReadModifierMap
  <2> DEFINE n == Decode!ModMapKeys
             v == [i \in 1..n |-> [code |-> Decode!Byte(b + 2 * i - 2), mods |-> Decode!Bits(Decode!Byte(b + 2 * i - 1))]]
  <2>1. n * 2 \in Nat
    <3>1. 31 \in Nat
      OBVIOUS
    <3>2. Decode!Byte(31) \in 0..255
      BY <1>1, <3>1, ByteFacts
    <3> QED
      BY <3>2 DEF Decode!ModMapKeys
  <2> HIDE DEF n, v
  <2>2. CASE Decode!Fail
    BY <2>2, FailStep
  <2>3. CASE Decode!Without("resolve")
    BY <1>1, <2>3, WithoutStep DEF Decode!MapSections
  <2>4. CASE /\ Decode!Has(n * 2) /\ raw' = [raw EXCEPT !.modmap = v] /\ (UNCHANGED read \/ Decode!LooksTo(b + n * 2))
             /\ b' = Decode!Aligned(b + n * 2) /\ section' = "resolve" /\ UNCHANGED replies
    BY <1>3, <2>1, <2>4
  <2> QED
    BY <1>5, <2>2, <2>3, <2>4 DEF Decode!ReadModifierMap, n, v
<1> QED
  BY <1>4, <1>5

(* What was read of the map is made into a reply.                           *)
LEMMA ResolveStep ==
  ASSUME DecodeInv, Decode!Resolve
  PROVE  DecodeInv'
<1>1. section = "resolve" /\ replies \in [Replies -> Seq(0..255)]
  BY DEF Decode!Resolve, DecodeInv, Bounded
<1>2. CASE Decode!Fail
  BY <1>2, FailStep
<1>3. CASE ~Decode!Fail
  <2>1. /\ section' = "names" /\ UNCHANGED <<replies, read, raw, km>>
        /\ map'.min = Decode!Byte(8) /\ map'.max = Decode!Byte(9) /\ map'.syms = raw.syms
    BY <1>3 DEF Decode!Resolve
  <2>2. PICK t : map'.types = [i \in DOMAIN raw.types |-> t[i]]
    <3>1. PICK t : t = map'.types
      OBVIOUS
    <3>2. map'.types = [i \in DOMAIN raw.types |-> t[i]]
      BY <1>3, <3>1 DEF Decode!Resolve
    <3> QED
      BY <3>2
  <2>3. \E set : map'.types \in Seq(set)
    <3>1. PICK n \in Nat : DOMAIN raw.types = 1..n
      BY DEF DecodeInv, MapRead
    <3>2. map'.types \in Seq({t[i] : i \in 1..n})
      BY <2>2, <3>1
    <3> QED
      BY <3>2
  <2>4. map'.min \in Nat /\ map'.max \in Nat
    <3>1. 8 \in Nat /\ 9 \in Nat
      OBVIOUS
    <3>2. Decode!Byte(8) \in 0..255 /\ Decode!Byte(9) \in 0..255
      BY <1>1, <3>1, ByteFacts
    <3> QED
      BY <2>1, <3>2
  <2>5. MapRead'
    BY <2>1, <2>3, <2>4 DEF DecodeInv, MapRead, KeysRead
  <2>6. Bounded'
    BY <2>1 DEF DecodeInv, Bounded, Decode!NeverPastEnd, Decode!MapSections
  <2> QED
    BY <2>1, <2>5, <2>6 DEF DecodeInv, Built, BuildSteps
<1> QED
  BY <1>2, <1>3

-----------------------------------------------------------------------------
(* The other two replies.                                                   *)

(* A section of the names or the controls.                                  *)
LEMMA LaterStep ==
  ASSUME DecodeInv, section \notin Decode!MapSections \cup {"failed"}, section' \notin Decode!MapSections \cup BuildSteps,
         UNCHANGED <<replies, raw, map>>,
         UNCHANGED read \/ \E n : n <= Len(Decode!Buffer) /\ Decode!LooksTo(n)
  PROVE  DecodeInv'
<1>1. Bounded'
  BY LooksStep DEF DecodeInv, Bounded, Decode!MapSections
<1>2. MapRead'
  BY DEF DecodeInv, MapRead, KeysRead
<1>3. Built'
  BY DEF Built
<1> QED
  BY <1>1, <1>2, <1>3 DEF DecodeInv

(* The names and the controls only take what was measured.                  *)
LEMMA NamesSteps ==
  ASSUME DecodeInv,
         \/ Decode!NamesHeader \/ Decode!ReadTypeNames \/ Decode!ReadVModNames \/ Decode!ReadGroupNames
         \/ Decode!ReadKeyNames \/ Decode!ReadAliases \/ Decode!ReadControls
  PROVE  DecodeInv'
<1> DEFINE Later == Decode!NamesSections \cup {"controls", "keymap"}
<1>1. section \in Later /\ Len(Decode!Buffer) \in Nat
  <2>1. Len(Decode!Buffer) \in Nat
    BY ReplyFacts DEF DecodeInv, Bounded, Decode!Buffer
  <2> QED
    BY <2>1
       DEF Decode!NamesHeader, Decode!ReadTypeNames, Decode!ReadVModNames, Decode!ReadGroupNames, Decode!ReadKeyNames,
                Decode!ReadAliases, Decode!ReadControls, Decode!NamesSections
<1>2. CASE Decode!Fail
  BY <1>2, FailStep
<1>3. CASE \E n : /\ n <= Len(Decode!Buffer) /\ Decode!LooksTo(n) /\ section' \in Later
                  /\ UNCHANGED <<replies, raw, map>>
  BY <1>1, <1>3, LaterStep DEF Decode!NamesSections, Decode!MapSections, BuildSteps
<1>4. ASSUME NEW bytes, NEW next \in Later, Decode!Has(bytes), Decode!Took(bytes, next), UNCHANGED <<raw, map>>
      PROVE  DecodeInv'
  BY <1>3, <1>4 DEF Decode!Has, Decode!Took
<1>5. ASSUME NEW n, NEW f, NEW next \in Later, Decode!ReadAtoms(n, f, next)
      PROVE  DecodeInv'
  BY <1>2, <1>4, <1>5 DEF Decode!ReadAtoms
<1>6. CASE Decode!NamesHeader
  <2>1. Decode!Fail \/ (~(Len(Decode!Buffer) < 32) /\ Decode!Begin(32, "typeNames") /\ UNCHANGED <<raw, map>>)
    BY <1>6 DEF Decode!NamesHeader
  <2>2. CASE ~(Len(Decode!Buffer) < 32) /\ Decode!Begin(32, "typeNames") /\ UNCHANGED <<raw, map>>
    <3>1. 32 <= Len(Decode!Buffer)
      BY <1>1, <2>2
    <3> QED
      BY <1>3, <2>2, <3>1 DEF Decode!Begin, Decode!NamesSections
  <2> QED
    BY <1>2, <2>1, <2>2
<1>7. CASE Decode!ReadTypeNames \/ Decode!ReadVModNames \/ Decode!ReadGroupNames
  BY <1>5, <1>7 DEF Decode!ReadTypeNames, Decode!ReadVModNames, Decode!ReadGroupNames, Decode!NamesSections
<1>8. CASE Decode!ReadKeyNames \/ Decode!ReadAliases
  BY <1>2, <1>4, <1>8 DEF Decode!ReadKeyNames, Decode!ReadAliases, Decode!NamesSections
<1>9. CASE Decode!ReadControls
  <2>1. CASE ~Decode!Fail
    <3>1. 92 <= Len(Decode!Buffer) /\ Decode!LooksTo(92) /\ section' = "keymap" /\ UNCHANGED <<replies, raw, map>>
      BY <1>1, <1>9, <2>1 DEF Decode!ReadControls
    <3> QED
      BY <1>3, <3>1
  <2> QED
    BY <1>2, <2>1
<1> QED
  BY <1>6, <1>7, <1>8, <1>9

-----------------------------------------------------------------------------
(* The keymap.                                                              *)

(* What m[k] = v does to a map.                                             *)
LEMMA PutFacts ==
  ASSUME NEW m, NEW k, NEW v
  PROVE  /\ DOMAIN Decode!Put(m, k, v) = DOMAIN m \cup {k}
         /\ Decode!Put(m, k, v)[k] = v
         /\ \A x \in DOMAIN m : x # k => Decode!Put(m, k, v)[x] = m[x]
  BY DEF Decode!Put
(* What a map with one more entry leads to.                                 *)
LEMMA PutRange ==
  ASSUME NEW m, NEW k, NEW v
  PROVE  Decode!Range(Decode!Put(m, k, v)) \subseteq Decode!Range(m) \cup {v}
  BY DEF Decode!Put, Decode!Range

(* The size of so many numbers from a on.                                   *)
LEMMA RunSize ==
  ASSUME NEW a \in Nat, NEW n \in Nat
  PROVE  Cardinality(a..(a + n - 1)) = n
<1> DEFINE z == a + n - 1
<1>1. a \in Int /\ z \in Int
  OBVIOUS
<1>2. (a > z <=> n = 0) /\ z - a + 1 = n
  OBVIOUS
<1> HIDE DEF z
<1>3. Cardinality(a..z) = IF a > z THEN 0 ELSE z - a + 1
  BY <1>1, FS_Interval
<1>4. Cardinality(a..z) = n
  BY <1>2, <1>3
<1> QED
  BY <1>4 DEF z

(* While the keymap is built, the replies stay what they are.               *)
LEMMA BuildStep ==
  ASSUME DecodeInv, section \notin Decode!MapSections \cup {"failed"}, section' \in BuildSteps,
         UNCHANGED <<replies, read, raw, map>>, Built'
  PROVE  DecodeInv'
<1>1. Bounded'
  BY DEF DecodeInv, Bounded, Decode!NeverPastEnd, Decode!MapSections, BuildSteps
<1>2. MapRead'
  BY DEF DecodeInv, MapRead, KeysRead, BuildSteps, Decode!MapSections
<1> QED
  BY <1>1, <1>2 DEF DecodeInv

(* The keymap begins without keys and names.                                *)
LEMMA BeginStep ==
  ASSUME DecodeInv, Decode!BeginKeymap
  PROVE  DecodeInv'
<1>1. section = "keymap" /\ section \notin Decode!MapSections \cup {"failed"}
  BY DEF Decode!BeginKeymap, Decode!MapSections
<1>2. CASE Decode!Fail
  BY <1>2, FailStep
<1>3. CASE ~Decode!Fail
  <2>1. /\ section' = "keys" /\ UNCHANGED <<replies, read, raw, map>>
        /\ Len(map.syms) = map.max - map.min + 1
    BY <1>3 DEF Decode!BeginKeymap
  <2>2. PICK t, g, v, n :
          /\ km' = [min |-> map.min, max |-> map.max, groups |-> g, types |-> t, vmods |-> v,
                    groupNames |-> n, nameOf |-> Decode!Empty, codeOf |-> Decode!Empty, keys |-> Decode!Empty]
          /\ DOMAIN t = DOMAIN map.types /\ t = [i \in DOMAIN map.types |-> t[i]]
    BY <1>3 DEF Decode!BeginKeymap
  <2>3. \E set : t \in Seq(set)
    <3>1. PICK k \in Nat : DOMAIN map.types = 1..k
      BY <1>1 DEF DecodeInv, MapRead
    <3>2. t \in Seq({t[i] : i \in 1..k})
      BY <2>2, <3>1
    <3> QED
      BY <3>2
  <2>4. map.min \in Nat /\ Len(map.syms) \in Nat
    BY <1>1 DEF DecodeInv, MapRead, KeysRead
  <2>5. DOMAIN km'.keys = {} /\ Decode!Range(km'.codeOf) = {}
    BY <2>2 DEF Decode!Empty, Decode!Range
  <2>6. KeysSoFar'
    <3>1. map.min..(map.min + 0 - 1) = {} /\ 0 \in 0..Len(map.syms)
      BY <2>4
    <3> QED
      BY <2>1, <2>5, <3>1 DEF KeysSoFar
  <2>7. /\ km' = [min |-> map.min, max |-> map.max, groups |-> km'.groups, types |-> km'.types,
                  vmods |-> km'.vmods, groupNames |-> km'.groupNames,
                  nameOf |-> km'.nameOf, codeOf |-> km'.codeOf, keys |-> km'.keys]
        /\ km'.types = t
    BY <2>2
  <2>8. Built'
    BY <2>1, <2>3, <2>5, <2>6, <2>7 DEF Built
  <2> QED
    BY <1>1, <2>1, <2>8, BuildStep DEF BuildSteps
<1> QED
  BY <1>2, <1>3

(* One more key is added, with its name if it has one.                      *)
LEMMA AddKeyStep ==
  ASSUME DecodeInv, Decode!AddKey
  PROVE  DecodeInv'
<1> DEFINE i == Decode!Cardinality(DOMAIN km.keys) + 1
           c == map.min + i - 1
           key == map.syms[i]
           name == names.keys[i]
<1>1. section = "keys" /\ section \in BuildSteps /\ section \notin Decode!MapSections \cup {"failed"}
  BY DEF Decode!AddKey, BuildSteps, Decode!MapSections
<1>2. CASE Decode!Fail
  BY <1>2, FailStep
<1>3. CASE ~Decode!Fail
  <2>1. PICK n \in 0..Len(map.syms) : DOMAIN km.keys = map.min..(map.min + n - 1)
    BY <1>1 DEF DecodeInv, Built, KeysSoFar
  <2>2. map.min \in Nat /\ Len(map.syms) \in Nat /\ n \in Nat
    BY <1>1, <2>1 DEF DecodeInv, MapRead, KeysRead
  <2>3. i = n + 1 /\ i \in 1..Len(map.syms) /\ c = map.min + n
    <3>2. Cardinality(map.min..(map.min + n - 1)) = n
      BY <2>2, RunSize
    <3>3. i = n + 1
      BY <2>1, <3>2, SameSize
    <3>4. i <= Len(map.syms)
      BY <1>3 DEF Decode!AddKey
    <3> QED
      BY <2>2, <3>3, <3>4
  <2>4. /\ Decode!TypesKnown(key)
        /\ UNCHANGED <<replies, section, read, raw, map>>
    BY <1>3 DEF Decode!AddKey
  <2>5. PICK new, newNames, newCodes :
          /\ new.groups = [g \in DOMAIN key.types |->
                             [type |-> key.types[g] + 1, levels |-> Decode!GroupLevels(key, g)]]
          /\ "groups" \in DOMAIN new
          /\ km' = [km EXCEPT !.keys = Decode!Put(@, c, new), !.nameOf = newNames, !.codeOf = newCodes]
          /\ newNames = IF name = <<>> THEN km.nameOf ELSE Decode!Put(km.nameOf, c, name)
          /\ newCodes = IF name = <<>> THEN km.codeOf ELSE Decode!Put(km.codeOf, name, c)
    <3> DEFINE it == [name |-> name, repeats |-> Decode!Repeats(c), mods |-> {},
                      groups |-> [g \in DOMAIN key.types |->
                        [type |-> key.types[g] + 1, levels |-> Decode!GroupLevels(key, g)]]]
    <3>1. km' = [km EXCEPT !.keys = Decode!Put(@, c, it),
                           !.nameOf = IF name = <<>> THEN @ ELSE Decode!Put(@, c, name),
                           !.codeOf = IF name = <<>> THEN @ ELSE Decode!Put(@, name, c)]
      BY <1>3 DEF Decode!AddKey
    <3>2. /\ it.groups = [g \in DOMAIN key.types |->
                            [type |-> key.types[g] + 1, levels |-> Decode!GroupLevels(key, g)]]
          /\ "groups" \in DOMAIN it
      OBVIOUS
    <3> HIDE DEF it, i, c, key, name
    <3> QED
      BY <3>1, <3>2
  <2> HIDE DEF i, c, key, name
  <2>6. /\ km = [min |-> map.min, max |-> map.max, groups |-> km.groups, types |-> km.types,
                  vmods |-> km.vmods, groupNames |-> km.groupNames,
                  nameOf |-> km.nameOf, codeOf |-> km.codeOf, keys |-> km.keys]
        /\ Decode!Range(km.codeOf) \subseteq DOMAIN km.nameOf
    BY <1>1 DEF DecodeInv, Built
  <2>7. /\ km' = [min |-> map.min, max |-> map.max, groups |-> km'.groups, types |-> km'.types,
                   vmods |-> km'.vmods, groupNames |-> km'.groupNames,
                   nameOf |-> km'.nameOf, codeOf |-> km'.codeOf, keys |-> km'.keys]
        /\ km'.types = km.types /\ km'.keys = Decode!Put(km.keys, c, new)
        /\ km'.nameOf = newNames /\ km'.codeOf = newCodes
    <3>1. PICK k : k = Decode!Put(km.keys, c, new)
      OBVIOUS
    <3>2. km' = [km EXCEPT !.keys = k, !.nameOf = newNames, !.codeOf = newCodes]
      BY <2>5, <3>1
    <3>3. km' = [min |-> map.min, max |-> map.max, groups |-> km.groups, types |-> km.types,
                 vmods |-> km.vmods, groupNames |-> km.groupNames,
                 nameOf |-> newNames, codeOf |-> newCodes, keys |-> k]
      <4>1. DOMAIN km = {"min", "max", "groups", "types", "vmods", "groupNames", "nameOf", "codeOf", "keys"}
            /\ km.min = map.min /\ km.max = map.max
        BY <2>6
      <4>2. km' = [f \in DOMAIN km |-> IF f = "keys" THEN k ELSE IF f = "nameOf" THEN newNames
                                       ELSE IF f = "codeOf" THEN newCodes ELSE km[f]]
        BY <2>6, <3>2, <4>1
      <4> QED
        BY <4>1, <4>2
    <3> QED
      BY <3>1, <3>3
  <2>a. /\ DOMAIN km'.keys = DOMAIN km.keys \cup {c} /\ km'.keys[c] = new
        /\ \A x \in DOMAIN km.keys : x # c => km'.keys[x] = km.keys[x]
    <3>1. /\ DOMAIN Decode!Put(km.keys, c, new) = DOMAIN km.keys \cup {c} /\ Decode!Put(km.keys, c, new)[c] = new
          /\ \A x \in DOMAIN km.keys : x # c => Decode!Put(km.keys, c, new)[x] = km.keys[x]
      <4>1. DOMAIN Decode!Put(km.keys, c, new) = DOMAIN km.keys \cup {c}
        BY PutFacts
      <4>2. Decode!Put(km.keys, c, new)[c] = new
        BY DEF Decode!Put
      <4>3. \A x \in DOMAIN km.keys : x # c => Decode!Put(km.keys, c, new)[x] = km.keys[x]
        BY DEF Decode!Put
      <4> QED
        BY <4>1, <4>2, <4>3
    <3> QED
      BY <2>7, <3>1
  <2>8. Decode!Range(km'.codeOf) \subseteq DOMAIN km'.nameOf
    <3>1. CASE name = <<>>
      BY <2>5, <2>6, <2>7, <3>1
    <3>2. CASE name # <<>>
      <4>1. Decode!Range(newCodes) \subseteq Decode!Range(km.codeOf) \cup {c}
        BY <2>5, <3>2, PutRange
      <4>2. DOMAIN newNames = DOMAIN km.nameOf \cup {c}
        BY <2>5, <3>2, PutFacts
      <4> QED
        BY <2>6, <2>7, <4>1, <4>2
    <3> QED
      BY <3>1, <3>2
  <2>9. DOMAIN km'.keys = map.min..(map.min + (n + 1) - 1)
    <3>1. DOMAIN km'.keys = (map.min..(map.min + n - 1)) \cup {map.min + n}
      BY <2>1, <2>3, <2>a
    <3> QED
      BY <2>2, <3>1
  <2>10. n + 1 \in 0..Len(map.syms)
    BY <2>2, <2>3
  <2>11. ASSUME NEW d \in DOMAIN km'.keys
         PROVE  /\ "groups" \in DOMAIN km'.keys[d]
                /\ GroupsMade(map.syms[d - map.min + 1], km'.keys[d].groups, km'.types)
    <3>1. CASE d = c
      <4>1. km'.keys[d] = new
        BY <2>a, <3>1
      <4>2. PICK k \in Nat : DOMAIN km.types = 1..k /\ Len(km.types) = k
        BY <1>1 DEF DecodeInv, Built
      <4>3. key.types \in Seq(Nat)
        <5>1. i \in DOMAIN map.syms
          BY <1>1, <2>3 DEF DecodeInv, MapRead, KeysRead
        <5> QED
          BY <1>1, <5>1 DEF DecodeInv, MapRead, KeysRead, KeyFits, key
      <4>4. ASSUME NEW g \in DOMAIN key.types PROVE key.types[g] + 1 \in DOMAIN km.types
        <5>1. key.types[g] \in Nat
          BY <4>3, <4>4
        <5>2. key.types[g] < k
          BY <2>4, <4>2, <4>4 DEF Decode!TypesKnown
        <5> QED
          BY <4>2, <5>1, <5>2
      <4>5. map.syms[d - map.min + 1] = key
        BY <2>2, <2>3, <3>1 DEF key
      <4>6. GroupsMade(key, new.groups, km.types)
        BY <2>5, <4>4 DEF GroupsMade
      <4> QED
        BY <2>5, <2>7, <4>1, <4>5, <4>6
    <3>2. CASE d # c
      <4>1. d \in DOMAIN km.keys /\ km'.keys[d] = km.keys[d]
        BY <2>11, <2>a, <3>2
      <4> QED
        BY <1>1, <2>7, <4>1 DEF DecodeInv, Built, KeysSoFar
    <3> QED
      BY <3>1, <3>2
  <2>12. KeysSoFar'
    BY <1>1, <2>4, <2>9, <2>10, <2>11 DEF KeysSoFar
  <2>13. Built'
    BY <1>1, <2>4, <2>7, <2>8, <2>12 DEF DecodeInv, Built
  <2> QED
    BY <1>1, <2>4, <2>13, BuildStep
<1> QED
  BY <1>2, <1>3

(* The modifiers of keys lead nowhere.                                      *)
LEMMA AddModifiersStep ==
  ASSUME DecodeInv, Decode!AddModifiers
  PROVE  DecodeInv'
<1>1. section = "keys" /\ section \in BuildSteps /\ section \notin Decode!MapSections \cup {"failed"}
  BY DEF Decode!AddModifiers, BuildSteps, Decode!MapSections
<1>2. /\ section' = "links" /\ UNCHANGED <<replies, read, raw, map>>
      /\ Decode!Cardinality(DOMAIN km.keys) = Len(map.syms)
  BY DEF Decode!AddModifiers
<1>3. PICK m : km' = [km EXCEPT !.keys = [c \in DOMAIN @ |-> [@[c] EXCEPT !.mods = m[c]]]]
  <2> DEFINE m == [c \in DOMAIN km.keys |-> UNION {w.mods : w \in {n \in Decode!Range(map.modmap) : n.code = c}}]
  <2>1. km' = [km EXCEPT !.keys = [c \in DOMAIN @ |-> [@[c] EXCEPT !.mods = m[c]]]]
    BY DEF Decode!AddModifiers
  <2> HIDE DEF m
  <2> QED
    BY <2>1
<1>4. km = [min |-> map.min, max |-> map.max, groups |-> km.groups, types |-> km.types,
            vmods |-> km.vmods, groupNames |-> km.groupNames,
            nameOf |-> km.nameOf, codeOf |-> km.codeOf, keys |-> km.keys]
  BY <1>1 DEF DecodeInv, Built
<1>5. /\ km' = [min |-> map.min, max |-> map.max, groups |-> km'.groups, types |-> km'.types,
                 vmods |-> km'.vmods, groupNames |-> km'.groupNames,
                 nameOf |-> km'.nameOf, codeOf |-> km'.codeOf, keys |-> km'.keys]
      /\ km'.types = km.types /\ km'.nameOf = km.nameOf /\ km'.codeOf = km.codeOf
      /\ km'.keys = [c \in DOMAIN km.keys |-> [km.keys[c] EXCEPT !.mods = m[c]]]
  BY <1>3, <1>4
<1>6. PICK n \in 0..Len(map.syms) : DOMAIN km.keys = map.min..(map.min + n - 1)
  BY <1>1 DEF DecodeInv, Built, KeysSoFar
<1>7. n = Len(map.syms)
  <2>1. map.min \in Nat /\ n \in Nat
    BY <1>1, <1>6 DEF DecodeInv, MapRead, KeysRead
  <2>2. Cardinality(map.min..(map.min + n - 1)) = n
    BY <2>1, RunSize
  <2> QED
    BY <1>2, <1>6, <2>2, SameSize
<1>8. KeysSoFar'
  <2>1. DOMAIN km'.keys = map.min..(map.min + n - 1)
    BY <1>5, <1>6
  <2>2. ASSUME NEW c \in DOMAIN km'.keys
        PROVE  /\ "groups" \in DOMAIN km'.keys[c]
               /\ GroupsMade(map.syms[c - map.min + 1], km'.keys[c].groups, km'.types)
    <3>1. c \in DOMAIN km.keys /\ "groups" \in DOMAIN km.keys[c]
      BY <1>1, <1>5, <2>2 DEF DecodeInv, Built, KeysSoFar
    <3>2. "groups" \in DOMAIN km'.keys[c] /\ km'.keys[c].groups = km.keys[c].groups
      BY <1>5, <3>1
    <3> QED
      BY <1>1, <1>5, <3>1, <3>2 DEF DecodeInv, Built, KeysSoFar
  <2> QED
    BY <1>2, <1>6, <1>7, <2>1, <2>2 DEF KeysSoFar
<1>9. Built'
  BY <1>1, <1>2, <1>5, <1>8 DEF DecodeInv, Built
<1> QED
  BY <1>1, <1>2, <1>9, BuildStep DEF BuildSteps

(* An alias leads where its real name does.                                 *)
LEMMA LinkSteps ==
  ASSUME DecodeInv, Decode!AddAlias \/ Decode!EndKeymap
  PROVE  DecodeInv'
<1>1. /\ section = "links" /\ section \in BuildSteps /\ section \notin Decode!MapSections \cup {"failed"}
      /\ section' \in {"links", "done"} /\ UNCHANGED <<replies, read, raw, map>>
  BY DEF Decode!AddAlias, Decode!EndKeymap, BuildSteps, Decode!MapSections
<1>2. \/ UNCHANGED km
      \/ \E alias : km' = [km EXCEPT !.codeOf = Decode!WithAlias(@, alias)]
  BY DEF Decode!AddAlias, Decode!EndKeymap
<1>3. CASE UNCHANGED km
  BY <1>1, <1>3, BuildStep DEF DecodeInv, Built, KeysSoFar, BuildSteps
<1>4. CASE \E alias : km' = [km EXCEPT !.codeOf = Decode!WithAlias(@, alias)]
  <2>1. PICK alias : km' = [km EXCEPT !.codeOf = Decode!WithAlias(@, alias)]
    BY <1>4
  <2>2. km = [min |-> map.min, max |-> map.max, groups |-> km.groups, types |-> km.types,
              vmods |-> km.vmods, groupNames |-> km.groupNames,
              nameOf |-> km.nameOf, codeOf |-> km.codeOf, keys |-> km.keys]
    BY <1>1 DEF DecodeInv, Built
  <2>3. /\ km' = [min |-> map.min, max |-> map.max, groups |-> km'.groups, types |-> km'.types,
                   vmods |-> km'.vmods, groupNames |-> km'.groupNames,
                   nameOf |-> km'.nameOf, codeOf |-> km'.codeOf, keys |-> km'.keys]
        /\ km'.types = km.types /\ km'.nameOf = km.nameOf /\ km'.keys = km.keys
        /\ km'.codeOf = Decode!WithAlias(km.codeOf, alias)
    BY <2>1, <2>2
  <2>4. Decode!Range(km'.codeOf) \subseteq Decode!Range(km.codeOf)
    <3>1. CASE alias.real \in DOMAIN km.codeOf /\ alias.alias # <<>>
      <4>1. km'.codeOf = Decode!Put(km.codeOf, alias.alias, km.codeOf[alias.real])
        BY <2>3, <3>1 DEF Decode!WithAlias
      <4>2. km.codeOf[alias.real] \in Decode!Range(km.codeOf)
        BY <3>1 DEF Decode!Range
      <4>3. Decode!Range(km'.codeOf) \subseteq Decode!Range(km.codeOf) \cup {km.codeOf[alias.real]}
        <5>1. Decode!Range(Decode!Put(km.codeOf, alias.alias, km.codeOf[alias.real]))
                \subseteq Decode!Range(km.codeOf) \cup {km.codeOf[alias.real]}
          BY PutRange
        <5> QED
          BY <4>1, <5>1
      <4> QED
        BY <4>2, <4>3
    <3>2. CASE ~(alias.real \in DOMAIN km.codeOf /\ alias.alias # <<>>)
      BY <2>3, <3>2 DEF Decode!WithAlias
    <3> QED
      BY <3>1, <3>2
  <2>5. KeysSoFar'
    BY <1>1, <2>3 DEF DecodeInv, Built, KeysSoFar
  <2>6. Built'
    BY <1>1, <2>3, <2>4, <2>5 DEF DecodeInv, Built
  <2> QED
    BY <1>1, <2>6, BuildStep DEF BuildSteps
<1> QED
  BY <1>2, <1>3, <1>4

-----------------------------------------------------------------------------
(* The theorems.                                                            *)

(* Replies as they were sent, cut or with a byte changed are of bytes.      *)
LEMMA DecodeInit ==
  ASSUME Decode!X11DecodeAssumption, Decode!Init
  PROVE  DecodeInv
<1>1. /\ section = "map" /\ b = 0 /\ read = [map |-> 0, names |-> 0, controls |-> 0]
      /\ raw = [types |-> <<>>, syms |-> <<>>, vmods |-> Decode!Empty, modmap |-> <<>>]
  BY DEF Decode!Init
<1>2. keyboard \in Keyboards /\ Decode!Wire(keyboard) \in [Replies -> Seq(0..255)]
  <2>1. DOMAIN Decode!Wire(keyboard) = Replies /\ Decode!Wire(keyboard) = [r \in Replies |-> Decode!Wire(keyboard)[r]]
    BY DEF Decode!Wire, Replies
  <2> QED
    BY <2>1 DEF Decode!X11DecodeAssumption, Decode!Init
<1>3. replies \in [Replies -> Seq(0..255)]
  <2>1. CASE replies = Decode!Wire(keyboard)
    BY <1>2, <2>1
  <2>2. CASE \E r \in Replies : \E n \in 0..Len(Decode!Wire(keyboard)[r]) - 1 :
               replies = [Decode!Wire(keyboard) EXCEPT ![r] = SubSeq(@, 1, n)]
    <3>a. PICK r \in Replies : \E n \in 0..Len(Decode!Wire(keyboard)[r]) - 1 :
            replies = [Decode!Wire(keyboard) EXCEPT ![r] = SubSeq(@, 1, n)]
      BY <2>2
    <3>1. PICK n \in 0..Len(Decode!Wire(keyboard)[r]) - 1 :
            replies = [Decode!Wire(keyboard) EXCEPT ![r] = SubSeq(Decode!Wire(keyboard)[r], 1, n)]
      BY <3>a
    <3>2. SubSeq(Decode!Wire(keyboard)[r], 1, n) \in Seq(0..255)
      <4>1. PICK s : s = Decode!Wire(keyboard)[r] /\ s \in Seq(0..255)
        BY <1>2, <3>1
      <4>2. n \in 0..Len(s) - 1 /\ Len(s) \in Nat
        BY <3>1, <4>1
      <4>3. ASSUME NEW i \in 1..n PROVE s[i] \in 0..255
        <5>1. i \in 1..Len(s)
          BY <4>2
        <5> QED
          BY <4>1, <5>1, ElementOfSeq
      <4>4. SubSeq(s, 1, n) \in Seq(0..255)
        BY <4>1, <4>2, <4>3, SubSeqProperties
      <4> QED
        BY <4>1, <4>4
    <3> QED
      BY <1>2, <3>1, <3>2
  <2>3. CASE \E r \in Replies : \E i \in DOMAIN Decode!Wire(keyboard)[r] :
               \E v \in BadBytes : replies = [Decode!Wire(keyboard) EXCEPT ![r][i] = v]
    <3>a. PICK r \in Replies : \E i \in DOMAIN Decode!Wire(keyboard)[r] : \E v \in BadBytes :
            replies = [Decode!Wire(keyboard) EXCEPT ![r][i] = v]
      BY <2>3
    <3>1. PICK i \in DOMAIN Decode!Wire(keyboard)[r], v \in BadBytes :
            replies = [Decode!Wire(keyboard) EXCEPT ![r] = [Decode!Wire(keyboard)[r] EXCEPT ![i] = v]]
      BY <3>a
    <3>2. [Decode!Wire(keyboard)[r] EXCEPT ![i] = v] \in Seq(0..255)
      <4>1. PICK s : s = Decode!Wire(keyboard)[r] /\ s \in Seq(0..255)
        BY <1>2, <3>1
      <4>2. v \in 0..255 /\ i \in 1..Len(s)
        BY <3>1, <4>1 DEF Decode!X11DecodeAssumption
      <4>3. [s EXCEPT ![i] = v] \in Seq(0..255)
        BY <4>1, <4>2, ExceptSeq
      <4> QED
        BY <4>1, <4>3
    <3> QED
      BY <1>2, <3>1, <3>2
  <2> QED
    BY <2>1, <2>2, <2>3 DEF Decode!Init, Replies
<1>4. Bounded
  <2>1. ASSUME NEW r \in DOMAIN replies PROVE read[r] <= Len(replies[r])
    <3>1. r \in Replies /\ replies[r] \in Seq(0..255)
      BY <1>3, <2>1
    <3>2. read[r] = 0 /\ Len(replies[r]) \in Nat
      BY <1>1, <3>1 DEF Replies
    <3> QED
      BY <3>2
  <2>2. DOMAIN read = Replies
    BY <1>1 DEF Replies
  <2> QED
    BY <1>1, <1>3, <2>1, <2>2 DEF Bounded, Decode!NeverPastEnd
<1>5. MapRead
  <2>1. raw.types \in Seq({}) /\ raw.syms \in Seq({}) /\ DOMAIN raw.syms = {}
    BY <1>1
  <2>2. raw = [types |-> raw.types, syms |-> raw.syms, vmods |-> raw.vmods, modmap |-> raw.modmap]
    BY <1>1
  <2> QED
    BY <1>1, <2>1, <2>2 DEF MapRead, KeysRead, Decode!MapSections
<1>6. Built
  BY <1>1 DEF Built, BuildSteps
<1> QED
  BY <1>4, <1>5, <1>6 DEF DecodeInv

(* DecodeInv is inductive.                                                       *)
LEMMA DecodeInductive ==
  ASSUME Decode!X11DecodeAssumption
  PROVE  Decode!Spec => []DecodeInv
<1>2. ASSUME Decode!Init PROVE DecodeInv
  BY <1>2, DecodeInit
<1>1. ASSUME DecodeInv, [Decode!Next]_(Decode!vars) PROVE DecodeInv'
  <2>1. CASE UNCHANGED Decode!vars
    <3>1. UNCHANGED <<replies, section, b, read, raw, map, km>>
      BY <2>1 DEF Decode!vars
    <3>2. Bounded' /\ MapRead' /\ Built'
      BY <1>1, <3>1 DEF DecodeInv, Bounded, Decode!NeverPastEnd, MapRead, KeysRead, Built, KeysSoFar
    <3> QED
      BY <3>2 DEF DecodeInv
  <2> QED
    BY <1>1, <2>1, MapHeaderStep, KeyTypeStep, KeySymMapStep, EndStep, OptionalStep, ResolveStep,
       NamesSteps, BeginStep, AddKeyStep, AddModifiersStep, LinkSteps DEF Decode!Next
<1> QED
  BY <1>1, <1>2, PTL DEF Decode!Spec

(* Whatever bytes a server sends: the decoder never looks behind the end of *)
(* a reply.                                                                 *)
THEOREM WithinReplies ==
  ASSUME Decode!X11DecodeAssumption
  PROVE  Decode!Spec => []Decode!NeverPastEnd
<1>1. ASSUME DecodeInv PROVE Decode!NeverPastEnd
  BY <1>1 DEF DecodeInv, Bounded
<1> QED
  BY <1>1, DecodeInductive, PTL

(* A level of a group is before the end of the keysyms of all groups.       *)
LEMMA LevelFits ==
  ASSUME NEW w \in Nat, NEW n \in Nat, NEW g \in 1..n, NEW l \in 1..w
  PROVE  (g - 1) * w + l <= w * n
<1>1. PICK d \in Nat : n = g + d
  <2>1. n - g \in Nat /\ n = g + (n - g)
    OBVIOUS
  <2> QED
    BY <2>1
<1>2. w * n = w * g + w * d /\ w * d >= 0 /\ (g - 1) * w = w * g - w
  BY <1>1
<1>3. w * g \in Nat /\ w * d \in Nat
  BY <1>1
<1> QED
  BY <1>2, <1>3

(* Whatever bytes a server sends: a keymap that comes of them has a key for *)
(* each of its keycodes, a type and the keysym of every level for each of   *)
(* its groups, and names that lead to keys.                                 *)
THEOREM KeymapHolds ==
  ASSUME Decode!X11DecodeAssumption
  PROVE  Decode!Spec => []Decode!HoldsTogether
<1>1. ASSUME DecodeInv PROVE Decode!HoldsTogether
  <2>1. CASE section # "done"
    BY <2>1 DEF Decode!HoldsTogether
  <2>2. CASE section = "done"
    <3>1. /\ Built /\ section \in BuildSteps /\ map.min \in Nat /\ map.max \in Nat
      BY <1>1, <2>2 DEF DecodeInv, BuildSteps, MapRead, Decode!MapSections
    <3>2. km.min = map.min /\ km.max = map.max
      BY <3>1 DEF Built
    <3>3. DOMAIN km.keys = map.min..(map.min + (map.max - map.min + 1) - 1)
      BY <2>2, <3>1 DEF Built, KeysSoFar
    <3>4. DOMAIN km.keys = km.min..km.max
      BY <3>1, <3>2, <3>3
    <3>5. ASSUME NEW c \in DOMAIN km.keys
          PROVE  Decode!GroupsHold(map.syms[c - km.min + 1], km.keys[c].groups)
      <4> DEFINE key == map.syms[c - km.min + 1]
                 groups == km.keys[c].groups
      <4>1. c - map.min + 1 \in 1..Len(map.syms)
        BY <3>1, <3>2, <3>3, <3>5 DEF Built
      <4>2. KeysRead(map.syms) /\ c - map.min + 1 \in DOMAIN map.syms
        BY <1>1, <2>2, <4>1 DEF DecodeInv, MapRead, KeysRead, Decode!MapSections
      <4>3. KeyFits(key)
        BY <3>2, <4>2 DEF KeysRead
      <4>4. GroupsMade(key, groups, km.types)
        BY <3>1, <3>2, <3>5 DEF Built, KeysSoFar
      <4> HIDE DEF key, groups
      <4>5. ASSUME NEW g \in DOMAIN groups
            PROVE  /\ Len(groups[g].levels) = key.width
                   /\ \A l \in 1..key.width : groups[g].levels[l] = key.syms[(g - 1) * key.width + l]
        <5>1. g \in 1..Len(key.types) /\ key.width \in Nat /\ Len(key.types) \in Nat
          BY <4>3, <4>4, <4>5 DEF KeyFits, GroupsMade
        <5>2. groups[g].levels = Decode!GroupLevels(key, g)
          BY <4>4, <4>5 DEF GroupsMade
        <5>3. ASSUME NEW l \in 1..key.width
              PROVE  (g - 1) * key.width + l <= Len(key.syms)
          BY <4>3, <5>1, <5>3, LevelFits DEF KeyFits
        <5> QED
          BY <5>1, <5>2, <5>3 DEF Decode!GroupLevels
      <4>6. Decode!GroupsHold(key, groups)
        BY <4>3, <4>4, <4>5 DEF Decode!GroupsHold, KeyFits, GroupsMade
      <4> QED
        BY <4>6 DEF key, groups
    <3> QED
      BY <2>2, <3>1, <3>4, <3>5 DEF Decode!HoldsTogether, Built
  <2> QED
    BY <2>1, <2>2
<1> QED
  BY <1>1, DecodeInductive, PTL
=============================================================================
