----------------------------- MODULE CodeAdapter -----------------------------
(***************************************************************************)
(* The sidecar that has an upstream new-api make the codes of an order and *)
(* remembers them by order number (apps/newapiadapter/internal/app).       *)
(*                                                                         *)
(* Requests are served at once.  The store's lock covers one lookup or one *)
(* update (memory, then the whole file, renamed into place), never a       *)
(* request; the call upstream may make codes and lose the answer.          *)
(*                                                                         *)
(* Abstracted: signatures, quotas, names and expiry; the kind, status and  *)
(* message of a record, which no step looks at.  The n-th code made        *)
(* upstream is the number n.                                               *)
(***************************************************************************)
EXTENDS Integers, Sequences, FiniteSets

CONSTANTS
    Orders,     \* order numbers
    Counts,     \* numbers of codes a request may ask for
    Handlers,   \* requests served at once
    MaxCodes    \* bound: codes made upstream

ASSUME CountsAssumption == Counts \subseteq Nat \ {0}
ASSUME MaxCodesAssumption == MaxCodes \in Nat

VARIABLES
    items,      \* Store.items: the codes of each order, empty if not known
    file,       \* what the store's file holds
    call,       \* the request each handler is serving
    minted,     \* external: the order each code made upstream was made for
    given,      \* history: the codes each order has been answered with
    disturbed   \* history: orders asked for twice at once, or not saved

vars == <<items, file, call, minted, given, disturbed>>

Kinds == {"recharge", "subscription"}
NoCall == [pc |-> "idle"]
Codes == 1 .. MaxCodes
Call == [pc : {"upstream", "store"}, kind : Kinds, o : Orders, n : Counts, codes : Seq(Codes)]

TypeOK ==
    /\ items \in [Orders -> Seq(Codes)]
    /\ file \in [Orders -> Seq(Codes)]
    /\ call \in [Handlers -> {NoCall} \cup Call]
    /\ minted \in Seq(Orders) /\ Len(minted) <= MaxCodes
    /\ given \in [Orders -> SUBSET Seq(Codes)]
    /\ disturbed \subseteq Orders

Init ==
    /\ items = [o \in Orders |-> << >>]
    /\ file = items
    /\ call = [h \in Handlers |-> NoCall]
    /\ minted = << >>
    /\ given = [o \in Orders |-> {}]
    /\ disturbed = {}

Goto(h, pc, codes) ==
    call' = [call EXCEPT ![h] = [pc |-> pc, kind |-> call[h].kind, o |-> call[h].o,
                                 n |-> call[h].n, codes |-> codes]]
End(h) == call' = [call EXCEPT ![h] = NoCall]

\* Store.Upsert: the memory takes the record even when the file does not.
Upsert(o, codes, saved) ==
    /\ items' = [items EXCEPT ![o] = codes]
    /\ IF saved THEN file' = items' /\ UNCHANGED disturbed
                ELSE UNCHANGED file /\ disturbed' = disturbed \cup {o}

\* The upstream makes k codes for the order.
Mint(o, k) ==
    /\ Len(minted) + k <= MaxCodes
    /\ minted' = minted \o [i \in 1 .. k |-> o]
Fresh(k) == [i \in 1 .. k |-> Len(minted) + i]

\* Is the order answered from the store?  A recharge takes what is there.
Remembered(kind, o, n) ==
    Len(items[o]) >= (IF kind = "recharge" THEN 1 ELSE n)

Ask(h, kind, o, n) ==
    /\ call[h] = NoCall
    /\ \/ /\ Remembered(kind, o, n)
          /\ given' = [given EXCEPT ![o] = @ \cup {items[o]}]
          /\ UNCHANGED <<call, disturbed>>
       \/ /\ ~ Remembered(kind, o, n)
          /\ call' = [call EXCEPT ![h] =
                 [pc |-> "upstream", kind |-> kind, o |-> o, n |-> n, codes |-> items[o]]]
          /\ disturbed' = IF \E g \in Handlers : call[g] # NoCall /\ call[g].o = o
                            THEN disturbed \cup {o} ELSE disturbed
          /\ UNCHANGED given
    /\ UNCHANGED <<items, file, minted>>

\* One call makes all the codes of a recharge, or fails, codes made or not.
RechargeUpstream(h) ==
    /\ call[h].pc = "upstream" /\ call[h].kind = "recharge"
    /\ \/ /\ Mint(call[h].o, call[h].n)
          /\ Goto(h, "store", Fresh(call[h].n))
       \/ /\ \E k \in 0 .. call[h].n : Mint(call[h].o, k)
          /\ End(h)
    /\ UNCHANGED <<items, file, given, disturbed>>

\* Mutant of SubscriptionUpstream: the codes the order has are made again.
SubscriptionAfresh(h) ==
    /\ call[h].pc = "upstream" /\ call[h].kind = "subscription"
    /\ Mint(call[h].o, 1)
    /\ Goto(h, "store", Fresh(1))
    /\ UNCHANGED <<items, file, given, disturbed>>

\* Mutant of SubscriptionUpstream: the key is noted before upstream has it.
SubscriptionEarly(h) ==
    /\ call[h].pc = "upstream" /\ call[h].kind = "subscription"
    /\ \/ Mint(call[h].o, 1)
       \/ Len(minted) < MaxCodes /\ UNCHANGED minted
    /\ Goto(h, "store", call[h].codes \o Fresh(1))
    /\ UNCHANGED <<items, file, given, disturbed>>

\* A subscription registers one key after the other; when a call fails, its key
\* registered or not, the ones before it are kept.
SubscriptionUpstream(h) ==
    /\ call[h].pc = "upstream" /\ call[h].kind = "subscription"
    /\ \/ /\ Mint(call[h].o, 1)
          /\ Goto(h, "store", call[h].codes \o Fresh(1))
          /\ UNCHANGED <<items, file, disturbed>>
       \/ /\ \E k \in 0 .. 1 : Mint(call[h].o, k)
          /\ \E saved \in BOOLEAN : Upsert(call[h].o, call[h].codes, saved)
          /\ End(h)
    /\ UNCHANGED given

\* The codes are stored and, if there are enough, answered; an unsaved file is
\* answered as a failure.
Keep(h) ==
    /\ call[h].pc = "store"
    /\ LET o == call[h].o  codes == call[h].codes
       IN  \/ /\ Upsert(o, codes, TRUE)
              /\ IF Len(codes) >= call[h].n
                   THEN /\ given' = [given EXCEPT ![o] = @ \cup {codes}]
                        /\ End(h)
                   ELSE Goto(h, "upstream", codes) /\ UNCHANGED given
           \/ Upsert(o, codes, FALSE) /\ End(h) /\ UNCHANGED given
    /\ UNCHANGED minted

\* Mutant of Restart: a file never written is read as no map at all.
RestartWithoutMap ==
    /\ items' = IF \A o \in Orders : file[o] = << >> THEN << >> ELSE file
    /\ call' = [h \in Handlers |-> NoCall]
    /\ UNCHANGED <<file, minted, given, disturbed>>

\* The sidecar dies and comes back with what its file holds.
Restart ==
    /\ items' = file
    /\ call' = [h \in Handlers |-> NoCall]
    /\ UNCHANGED <<file, minted, given, disturbed>>

Next ==
    \/ \E h \in Handlers :
          \/ \E kind \in Kinds, o \in Orders, n \in Counts : Ask(h, kind, o, n)
          \/ RechargeUpstream(h)
          \/ SubscriptionUpstream(h)
          \/ Keep(h)
    \/ Restart

Spec == Init /\ [][Next]_vars

-----------------------------------------------------------------------------
(* Properties.                                                             *)

MadeFor(o, codes) ==
    \A i, j \in DOMAIN codes :
        /\ codes[i] <= Len(minted) /\ minted[codes[i]] = o
        /\ i # j => codes[i] # codes[j]

\* Whatever failed, was lost, overlapped or was restarted: a code that is
\* answered works upstream and was made for the order it is answered for, and
\* an answer holds no code twice.
AnswersWereMade == \A o \in Orders : \A codes \in given[o] : MadeFor(o, codes)

Extends(a, b) == Len(a) >= Len(b) /\ SubSeq(a, 1, Len(b)) = b

\* Where requests for an order come one after the other and the file could be
\* written, every answer repeats or extends the earlier ones, across failed
\* calls and restarts.
AnswersAgree ==
    \A o \in Orders \ disturbed :
        \A a, b \in given[o] : Extends(a, b) \/ Extends(b, a)
=============================================================================
