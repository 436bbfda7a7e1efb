-------------------------- MODULE WatchtowerProofs --------------------------
(***************************************************************************)
(* Proofs about the daemon, for every environment it starts with, every    *)
(* set of sinks that may fail or panic, and every rule table.              *)
(*                                                                         *)
(* SinksInStep says nothing about the alerts still to be dispatched, so it *)
(* is not inductive.  Lag is: every sink has had all the alerts raised but *)
(* those in the Vec, the sinks before the one whose turn it is one more;   *)
(* and the Vec holds the end of what was raised.  For the orderly exit the *)
(* invariant of the tailer is taken over from JournalProofs; with it, and  *)
(* the order in which the Vec holds what fired, the alerts are seen to     *)
(* follow the journal (Story).                                             *)
(***************************************************************************)
EXTENDS WatchtowerPolicy, TLAPS, SequenceTheorems, FiniteSetTheorems

(* A sequence, of whatever elements.                                       *)
Listing(q) == \E n \in Nat : q = [k \in 1..n |-> q[k]]

Lists ==
  /\ Listing(alerts) /\ Listing(raised) /\ Listing(received)
  /\ sink \in 1..Len(Sinks)
  /\ alerts = <<>> => sink = 1
  /\ offered = [s \in 1..Len(Sinks) |-> offered[s]]
  /\ \A s \in 1..Len(Sinks) : Listing(offered[s])

Behind == Len(raised) - Len(alerts)

Lag ==
  /\ Behind \in Nat
  /\ \A s \in 1..Len(Sinks) :
       Len(offered[s]) = IF s < sink THEN Behind + 1 ELSE Behind

AlertOf(x) == [entry |-> x.entry, rule |-> x.rule]

Faithful ==
  /\ \A s \in 1..Len(Sinks) : \A k \in 1..Len(offered[s]) :
       AlertOf(offered[s][k]) = raised[k]
  /\ \A k \in 1..Len(alerts) :
       raised[Behind + k] = [entry |-> Sample, rule |-> alerts[k].rule]

IInv == Lists /\ Lag /\ Faithful

-----------------------------------------------------------------------------
(***************************************************************************)
(* Sequences of elements without a type.                                   *)
(***************************************************************************)
LEMMA ListingSeq ==
  ASSUME NEW q, Listing(q)
  PROVE  /\ q \in Seq(Range(q)) /\ Len(q) \in Nat /\ DOMAIN q = 1..Len(q)
         /\ q = [k \in 1..Len(q) |-> q[k]]
<1>1. PICK n \in Nat : q = [k \in 1..n |-> q[k]]
  BY DEF Listing
<1>2. DOMAIN q = 1..n
  BY <1>1
<1>3. \A k \in 1..n : q[k] \in Range(q)
  BY <1>2 DEF Range
<1>4. q \in [1..n -> Range(q)]
  BY <1>1, <1>3, Zenon
<1>5. q \in Seq(Range(q)) /\ Len(q) = n
  BY <1>4
<1> QED
  BY <1>1, <1>2, <1>5

LEMMA SeqListing ==
  ASSUME NEW S, NEW q \in Seq(S)
  PROVE  Listing(q)
<1>1. Len(q) \in Nat /\ q = [k \in 1..Len(q) |-> q[k]]
  OBVIOUS
<1> QED BY <1>1 DEF Listing

LEMMA LenOfListing ==
  ASSUME NEW n \in Nat, NEW q, q = [k \in 1..n |-> q[k]]
  PROVE  Listing(q) /\ Len(q) = n
<1>1. Listing(q)
  BY DEF Listing
<1>2. DOMAIN q = 1..n /\ DOMAIN q = 1..Len(q) /\ Len(q) \in Nat
  BY <1>1, ListingSeq
<1>3. \A a, b \in Nat : 1..a = 1..b => a = b
  <2> SUFFICES ASSUME NEW a \in Nat, NEW b \in Nat, 1..a = 1..b, a < b
               PROVE  FALSE
    OBVIOUS
  <2>1. b \in 1..b /\ b \notin 1..a
    OBVIOUS
  <2> QED BY <2>1
<1> QED BY <1>1, <1>2, <1>3

LEMMA AppendListing ==
  ASSUME NEW q, NEW x, Listing(q)
  PROVE  /\ Listing(Append(q, x))
         /\ Len(Append(q, x)) = Len(q) + 1
         /\ Append(q, x)[Len(q) + 1] = x
         /\ \A k \in 1..Len(q) : Append(q, x)[k] = q[k]
<1> DEFINE S == Range(q) \cup {x}
<1>1. q \in Seq(S) /\ x \in S
  <2>1. q \in Seq(Range(q))
    BY ListingSeq
  <2> QED BY <2>1
<1> HIDE DEF S
<1>2. Append(q, x) \in Seq(S)
  BY <1>1
<1>3. Listing(Append(q, x))
  BY <1>2, SeqListing
<1> QED BY <1>1, <1>3, AppendProperties

Joins(q, r) ==
  /\ Listing(q \o r)
  /\ Len(q \o r) = Len(q) + Len(r)
  /\ \A k \in 1..Len(q) : (q \o r)[k] = q[k]
  /\ \A k \in 1..Len(r) : (q \o r)[Len(q) + k] = r[k]

LEMMA ConcatListing ==
  ASSUME NEW q, NEW r, Listing(q), Listing(r)
  PROVE  Joins(q, r)
<1> DEFINE S == Range(q) \cup Range(r)
<1>1. q \in Seq(S) /\ r \in Seq(S)
  <2>1. q \in Seq(Range(q)) /\ r \in Seq(Range(r))
    BY ListingSeq
  <2> QED BY <2>1
<1> HIDE DEF S
<1>2. /\ q \o r \in Seq(S) /\ Len(q \o r) = Len(q) + Len(r)
      /\ \A i \in 1..(Len(q) + Len(r)) :
           (q \o r)[i] = IF i <= Len(q) THEN q[i] ELSE r[i - Len(q)]
  BY <1>1, ConcatProperties
<1>3. Len(q) \in Nat /\ Len(r) \in Nat
  BY <1>1
<1>4. ASSUME NEW k \in 1..Len(r) PROVE (q \o r)[Len(q) + k] = r[k]
  <2>1. /\ Len(q) + k \in 1..(Len(q) + Len(r)) /\ ~(Len(q) + k <= Len(q))
        /\ (Len(q) + k) - Len(q) = k
    BY <1>3
  <2> QED BY <1>2, <2>1
<1>5. Listing(q \o r)
  BY <1>2, SeqListing
<1>6. ASSUME NEW k \in 1..Len(q) PROVE (q \o r)[k] = q[k]
  <2>1. k \in 1..(Len(q) + Len(r)) /\ k <= Len(q)
    BY <1>3
  <2> QED BY <1>2, <2>1
<1> QED BY <1>2, <1>4, <1>5, <1>6 DEF Joins

LEMMA TailListing ==
  ASSUME NEW q, Listing(q), q # <<>>
  PROVE  /\ Listing(Tail(q)) /\ Head(q) = q[1]
         /\ Len(q) \in Nat /\ Len(q) >= 1
         /\ Len(Tail(q)) = Len(q) - 1
         /\ \A k \in 1..(Len(q) - 1) : Tail(q)[k] = q[k + 1]
<1> DEFINE S == Range(q)
<1>1. q \in Seq(S)
  BY ListingSeq
<1> HIDE DEF S
<1>2. Tail(q) \in Seq(S) /\ Len(Tail(q)) = Len(q) - 1
      /\ \A k \in 1..Len(Tail(q)) : Tail(q)[k] = q[k + 1]
  BY <1>1, HeadTailProperties
<1>3. Listing(Tail(q))
  BY <1>2, SeqListing
<1>4. Len(q) \in Nat /\ Len(q) >= 1 /\ Head(q) = q[1]
  BY <1>1
<1> QED BY <1>2, <1>3, <1>4

LEMMA NothingListing == Listing(<<>>) /\ Len(<<>>) = 0
<1>1. <<>> \in Seq({}) /\ Len(<<>>) = 0
  OBVIOUS
<1> QED BY <1>1, SeqListing

LEMMA SinksListed == Len(Sinks) \in Nat \ {0} /\ DOMAIN Sinks = 1..Len(Sinks)
<1> DEFINE IfOn(on, name) == IF on = "on" THEN <<name>> ELSE <<>>
<1>1. ASSUME NEW on, NEW name
      PROVE  Listing(IfOn(on, name)) /\ Len(IfOn(on, name)) \in Nat
  <2>1. <<name>> \in Seq({name}) /\ <<>> \in Seq({name})
    OBVIOUS
  <2>2. IfOn(on, name) \in Seq({name})
    BY <2>1
  <2> QED BY <2>2, SeqListing
<1> DEFINE a == <<"logger">>
           b == IfOn(Ntfy(Env), "ntfy")
           c == IfOn(Email(Env), "email")
           d == IfOn(AutoClaude(Env), "auto_claude")
<1>2. Listing(a) /\ Len(a) = 1
  <2>1. a \in Seq({"logger"}) /\ Len(a) = 1
    OBVIOUS
  <2> QED BY <2>1, SeqListing
<1>3. Sinks = ((a \o b) \o c) \o d
  BY DEF Sinks, SinkList
<1>4. /\ Listing(b) /\ Len(b) \in Nat /\ Listing(c) /\ Len(c) \in Nat
      /\ Listing(d) /\ Len(d) \in Nat
  BY <1>1
<1> HIDE DEF a, b, c, d
<1>5. Listing(a \o b) /\ Len(a \o b) = 1 + Len(b)
  <2>1. Joins(a, b)
    BY <1>2, <1>4, ConcatListing
  <2> QED BY <1>2, <2>1, Zenon DEF Joins
<1>6. Listing((a \o b) \o c) /\ Len((a \o b) \o c) = 1 + Len(b) + Len(c)
  <2>1. Joins(a \o b, c)
    BY <1>4, <1>5, ConcatListing
  <2> QED BY <1>5, <2>1, Zenon DEF Joins
<1>7. Listing(Sinks) /\ Len(Sinks) = 1 + Len(b) + Len(c) + Len(d)
  <2>1. Joins((a \o b) \o c, d)
    BY <1>4, <1>6, ConcatListing
  <2> QED BY <1>3, <1>6, <2>1, Zenon DEF Joins
<1> QED BY <1>4, <1>7, ListingSeq

-----------------------------------------------------------------------------
LEMMA InitEstablishes == Init => IInv
<1> SUFFICES ASSUME Init PROVE IInv
  OBVIOUS
<1>1. /\ alerts = <<>> /\ raised = <<>> /\ sink = 1
      /\ offered = [s \in DOMAIN Sinks |-> <<>>]
  BY DEF Init, FreshMain
<1>2. Listing(received)
  <2>1. PICK j \in Seq(Entries) : \E n \in 0..Len(j) : J!StartAt(j, n)
    BY DEF Init, J!Init
  <2>2. received = <<>>
    BY <2>1 DEF J!StartAt
  <2> QED BY <2>2, NothingListing
<1>3. Lists
  BY <1>1, <1>2, NothingListing, SinksListed DEF Lists
<1>4. Lag
  BY <1>1, NothingListing, SinksListed DEF Lag, Behind
<1>5. Faithful
  BY <1>1, NothingListing, SinksListed DEF Faithful
<1> QED
  BY <1>3, <1>4, <1>5 DEF IInv

(* A step that neither raises nor dispatches nor receives.                 *)
LEMMA QuietKeeps ==
  ASSUME IInv, UNCHANGED <<alerts, raised, received, sink, offered>>
  PROVE  IInv'
<1>1. Behind' = Behind
  BY DEF Behind
<1> QED
  BY <1>1 DEF IInv, Lists, Listing, Lag, Faithful, Sample

LEMMA RestartKeeps == IInv /\ Restart => IInv'
<1> SUFFICES ASSUME Restart PROVE IInv'
  OBVIOUS
<1>1. /\ alerts' = <<>> /\ raised' = <<>> /\ received' = <<>> /\ sink' = 1
      /\ offered' = [s \in DOMAIN Sinks |-> <<>>]
  BY DEF Restart
<1>2. Len(alerts') = 0 /\ Len(raised') = 0 /\ Behind' = 0
  BY <1>1, NothingListing DEF Behind
<1>3. \A s \in 1..Len(Sinks) : offered'[s] = <<>> /\ Len(offered'[s]) = 0
  BY <1>1, NothingListing, SinksListed
<1>4. Lists'
  <2>1. offered' = [s \in 1..Len(Sinks) |-> offered'[s]]
    BY <1>1, SinksListed
  <2>2. Listing(alerts') /\ Listing(raised') /\ Listing(received')
    BY <1>1, NothingListing
  <2>3. \A s \in 1..Len(Sinks) : Listing(offered'[s])
    BY <1>3, NothingListing
  <2>4. sink' \in 1..Len(Sinks)
    BY <1>1, SinksListed
  <2> QED BY <1>1, <2>1, <2>2, <2>3, <2>4, Zenon DEF Lists, Listing
<1>5. Lag'
  BY <1>1, <1>2, <1>3, SinksListed DEF Lag
<1>6. Faithful'
  BY <1>2, <1>3 DEF Faithful
<1> QED
  BY <1>4, <1>5, <1>6 DEF IInv

(* ingest returns a Vec, whatever fired.                                   *)
LEMMA InRuleOrderListing ==
  ASSUME NEW as
  PROVE  Listing(InRuleOrder(as))
<1> DEFINE n == Cardinality(Positions(as))
           q == InRuleOrder(as)
<1>1. Len(RuleOrder) \in Nat
  BY WatchtowerAssumption
<1>2. IsFiniteSet(1..Len(RuleOrder))
  BY <1>1, FS_Interval
<1>3. Positions(as) \subseteq 1..Len(RuleOrder)
  BY DEF Positions
<1>4. n \in Nat
  BY <1>2, <1>3, FS_Subset, FS_CardinalityType
<1>5. q = [k \in 1..n |-> q[k]]
  BY DEF InRuleOrder
<1> HIDE DEF n, q
<1> QED
  BY <1>4, <1>5, LenOfListing DEF q

(* The entry received raises what is in the Vec, after all that came before. *)
LEMMA RaisedByReceive ==
  ASSUME Listing(raised), Receive
  PROVE  /\ Listing(alerts') /\ Len(alerts') \in Nat
         /\ Listing(raised') /\ Len(raised) \in Nat
         /\ Len(raised') = Len(raised) + Len(alerts')
         /\ \A k \in 1..Len(raised) : raised'[k] = raised[k]
         /\ \A k \in 1..Len(alerts') : raised'[Len(raised) + k] =
              [entry |-> Head(channel), rule |-> alerts'[k].rule]
<1> DEFINE new == [k \in DOMAIN alerts' |->
                    [entry |-> Head(channel), rule |-> alerts'[k].rule]]
           n == Len(alerts')
<1>1. raised' = raised \o new
  BY DEF Receive
<1>2. Listing(alerts') /\ n \in Nat /\ DOMAIN alerts' = 1..n
  <2>1. alerts' = InRuleOrder(fired')
    BY DEF Receive
  <2>2. Listing(alerts')
    BY <2>1, InRuleOrderListing
  <2> QED BY <2>2, ListingSeq
<1>3. Listing(new) /\ Len(new) = n
  <2>1. new = [k \in 1..n |-> new[k]]
    BY <1>2
  <2> HIDE DEF new
  <2> QED BY <1>2, <2>1, LenOfListing
<1>4. \A k \in 1..n :
        new[k] = [entry |-> Head(channel), rule |-> alerts'[k].rule]
  BY <1>2
<1>5. Len(raised) \in Nat
  BY ListingSeq
<1> HIDE DEF new
<1>6. /\ Listing(raised') /\ Len(raised') = Len(raised) + n
      /\ \A k \in 1..Len(raised) : raised'[k] = raised[k]
      /\ \A k \in 1..n : raised'[Len(raised) + k] = new[k]
  <2>1. Joins(raised, new)
    BY <1>3, ConcatListing
  <2> HIDE DEF n
  <2> QED BY <1>1, <1>3, <2>1, Zenon DEF Joins
<1> QED BY <1>2, <1>4, <1>5, <1>6

LEMMA ReceiveKeeps ==
  ASSUME IInv, Receive
  PROVE  IInv'
<1> DEFINE n == Len(alerts')
<1>1. /\ alerts = <<>> /\ Len(alerts) = 0 /\ sink = 1
      /\ received' = Append(received, Head(channel))
      /\ UNCHANGED <<sink, offered>>
  BY NothingListing DEF Receive, Receiving, J!Recv, IInv, Lists
<1>2. Listing(alerts') /\ n \in Nat
  BY RaisedByReceive DEF IInv, Lists
<1>3. /\ Listing(received') /\ Len(received') = Len(received) + 1
      /\ received'[Len(received) + 1] = Head(channel)
  BY <1>1, AppendListing DEF IInv, Lists
<1>4. Sample' = Head(channel)
  BY <1>3 DEF Sample
<1>5. Listing(raised) /\ Len(raised) \in Nat /\ Behind = Len(raised)
  BY <1>1, ListingSeq DEF IInv, Lists, Behind
<1>6. /\ Listing(raised') /\ Len(raised') = Len(raised) + n
      /\ \A k \in 1..Len(raised) : raised'[k] = raised[k]
      /\ \A k \in 1..n : raised'[Len(raised) + k] =
           [entry |-> Head(channel), rule |-> alerts'[k].rule]
  BY RaisedByReceive DEF IInv, Lists
<1>7. Behind' = Len(raised)
  <2>1. Behind' = Len(raised') - n
    BY DEF Behind
  <2> HIDE DEF n
  <2> QED BY <1>2, <1>5, <1>6, <2>1
<1>8. Lists'
  <2>1. /\ sink' \in 1..Len(Sinks) /\ sink' = 1
        /\ offered' = [s \in 1..Len(Sinks) |-> offered'[s]]
        /\ \A s \in 1..Len(Sinks) : Listing(offered'[s])
    BY <1>1 DEF IInv, Lists
  <2> QED BY <1>2, <1>3, <1>6, <2>1, Zenon DEF Lists, Listing
<1>9. Lag'
  BY <1>1, <1>5, <1>7 DEF IInv, Lag
<1>10. Faithful'
  <2>1. ASSUME NEW s \in 1..Len(Sinks), NEW k \in 1..Len(offered'[s])
        PROVE  AlertOf(offered'[s][k]) = raised'[k]
    <3>1. offered' = offered /\ Len(offered[s]) = Len(raised)
      BY <1>1, <1>5, SinksListed DEF IInv, Lag
    <3>2. k \in 1..Len(raised) /\ AlertOf(offered[s][k]) = raised[k]
      BY <2>1, <3>1 DEF IInv, Faithful
    <3> QED BY <1>6, <3>1, <3>2 DEF AlertOf
  <2>2. ASSUME NEW k \in 1..n
        PROVE  raised'[Behind' + k] = [entry |-> Sample', rule |-> alerts'[k].rule]
    BY <1>4, <1>6, <1>7, <2>2
  <2> QED BY <2>1, <2>2 DEF Faithful, AlertOf
<1> QED
  BY <1>8, <1>9, <1>10 DEF IInv

(***************************************************************************)
(* One sink after the other.  What the sink is given is the first alert of *)
(* the Vec; the Vec loses it when the last sink has had it.                *)
(***************************************************************************)
LEMMA SinkReturnsKeeps ==
  ASSUME IInv, NEW ok, SinkReturns(ok)
  PROVE  IInv'
<1> DEFINE got == [entry |-> Sample, rule |-> Head(alerts).rule, ok |-> ok]
<1>1. /\ alerts # <<>> /\ UNCHANGED <<raised, received>>
      /\ offered' = [offered EXCEPT ![sink] = Append(@, got)]
      /\ \E failed : MoreSinks(failed) \/ LastSink(failed)
  BY DEF SinkReturns, Dispatching, Offer, journalVars
<1>2. /\ sink \in 1..Len(Sinks) /\ Listing(alerts) /\ Listing(raised)
      /\ Listing(received)
      /\ offered = [s \in 1..Len(Sinks) |-> offered[s]]
      /\ \A s \in 1..Len(Sinks) : Listing(offered[s])
  BY DEF IInv, Lists
<1>3. /\ Len(alerts) \in Nat /\ Len(alerts) >= 1 /\ Head(alerts) = alerts[1]
      /\ Len(raised) \in Nat /\ Behind \in Nat /\ Len(Sinks) \in Nat
      /\ Behind = Len(raised) - Len(alerts) /\ sink \in Nat
  BY <1>1, <1>2, TailListing, ListingSeq, SinksListed DEF IInv, Lag, Behind
<1>4. \A s \in 1..Len(Sinks) :
        Len(offered[s]) = IF s < sink THEN Behind + 1 ELSE Behind
  BY DEF IInv, Lag
<1>5. /\ offered' = [s \in 1..Len(Sinks) |-> offered'[s]]
      /\ offered'[sink] = Append(offered[sink], got)
      /\ \A s \in 1..Len(Sinks) : s # sink => offered'[s] = offered[s]
  <2> HIDE DEF got
  <2> QED BY <1>1, <1>2
<1>6. /\ Listing(offered'[sink]) /\ Len(offered'[sink]) = Behind + 1
      /\ offered'[sink][Behind + 1] = got
      /\ \A k \in 1..Behind : offered'[sink][k] = offered[sink][k]
  <2> HIDE DEF got
  <2>1. Len(offered[sink]) = Behind
    BY <1>2, <1>3, <1>4
  <2> QED BY <1>2, <1>5, <2>1, AppendListing
<1>7. Sample' = Sample
  BY <1>1 DEF Sample
<1>8. AlertOf(got) = raised[Behind + 1]
  <2>1. raised[Behind + 1] = [entry |-> Sample, rule |-> alerts[1].rule]
    BY <1>3 DEF IInv, Faithful
  <2>2. got.entry = Sample /\ got.rule = alerts[1].rule
    BY <1>3
  <2> QED BY <2>1, <2>2 DEF AlertOf
<1>9. \A s \in 1..Len(Sinks) :
        Len(offered'[s]) = IF s <= sink THEN Behind + 1 ELSE Behind
  <2> TAKE s \in 1..Len(Sinks)
  <2>1. CASE s = sink
    BY <1>3, <1>6, <2>1
  <2>2. CASE s # sink
    <3>1. Len(offered'[s]) = IF s < sink THEN Behind + 1 ELSE Behind
      BY <1>4, <1>5, <2>2
    <3> QED BY <1>3, <2>2, <3>1
  <2> QED BY <2>1, <2>2
<1>10. \A s \in 1..Len(Sinks) : Listing(offered'[s])
  BY <1>2, <1>5, <1>6
<1>11. \A s \in 1..Len(Sinks) : \A k \in 1..Len(offered'[s]) :
         AlertOf(offered'[s][k]) = raised'[k]
  <2> HIDE DEF got
  <2> TAKE s \in 1..Len(Sinks)
  <2> TAKE k \in 1..Len(offered'[s])
  <2>1. CASE s # sink
    BY <1>1, <1>5, <2>1 DEF IInv, Faithful
  <2>2. CASE s = sink /\ k = Behind + 1
    BY <1>1, <1>6, <1>8, <2>2
  <2>3. CASE s = sink /\ k # Behind + 1
    <3>4. k \in 1..(Behind + 1)
      BY <1>6, <2>3
    <3>1. k \in 1..Behind
      BY <1>3, <2>3, <3>4
    <3>2. Len(offered[sink]) = Behind
      BY <1>2, <1>3, <1>4
    <3>3. AlertOf(offered[sink][k]) = raised[k]
      BY <1>2, <3>1, <3>2 DEF IInv, Faithful
    <3> QED BY <1>1, <1>6, <2>3, <3>1, <3>3
  <2> QED BY <2>1, <2>2, <2>3
<1> HIDE DEF got
<1>12. ASSUME NEW failed, MoreSinks(failed) PROVE IInv'
  <2>1. sink < Len(Sinks) /\ sink' = sink + 1 /\ alerts' = alerts
    BY <1>12 DEF MoreSinks
  <2>2. Behind' = Behind
    BY <1>1, <2>1 DEF Behind
  <2>3. Lists'
    <3>1. sink' \in 1..Len(Sinks) /\ alerts' # <<>>
      BY <1>1, <1>3, <2>1
    <3> QED BY <1>1, <1>2, <1>5, <1>10, <2>1, <3>1, Zenon DEF Lists, Listing
  <2>4. Lag'
    <3>1. \A s \in 1..Len(Sinks) : s <= sink <=> s < sink'
      BY <1>3, <2>1
    <3> QED BY <1>3, <1>9, <2>2, <3>1 DEF Lag
  <2>5. Faithful'
    BY <1>1, <1>7, <1>11, <2>1, <2>2 DEF IInv, Faithful, AlertOf
  <2> QED BY <2>3, <2>4, <2>5 DEF IInv
<1>13. ASSUME NEW failed, LastSink(failed) PROVE IInv'
  <2>1. sink = Len(Sinks) /\ sink' = 1 /\ alerts' = Tail(alerts)
    BY <1>13 DEF LastSink
  <2>2. /\ Listing(alerts') /\ Len(alerts') = Len(alerts) - 1
        /\ \A k \in 1..(Len(alerts) - 1) : alerts'[k] = alerts[k + 1]
    BY <1>1, <1>2, <2>1, TailListing
  <2>3. Behind' = Behind + 1
    <3>1. Behind' = Len(raised') - Len(alerts')
      BY DEF Behind
    <3> QED BY <1>1, <1>3, <2>2, <3>1
  <2>4. Lists'
    <3>1. sink' \in 1..Len(Sinks) /\ sink' = 1
      BY <2>1, SinksListed
    <3>2. Listing(alerts') /\ Listing(raised') /\ Listing(received')
      BY <1>1, <1>2, <2>2
    <3> QED BY <1>5, <1>10, <3>1, <3>2, Zenon DEF Lists, Listing
  <2>5. Lag'
    <3>1. \A s \in 1..Len(Sinks) : s <= sink /\ ~(s < sink')
      BY <1>3, <2>1
    <3> QED BY <1>3, <1>9, <2>3, <3>1 DEF Lag
  <2>6. ASSUME NEW k \in 1..Len(alerts')
        PROVE  raised'[Behind' + k] = [entry |-> Sample', rule |-> alerts'[k].rule]
    <3>4. k \in 1..(Len(alerts) - 1)
      BY <2>2
    <3>5. Behind' + k = Behind + (k + 1)
      BY <1>3, <2>3, <3>4
    <3>1. k + 1 \in 1..Len(alerts) /\ k \in 1..(Len(alerts) - 1)
            /\ Behind' + k = Behind + (k + 1)
      BY <1>3, <3>4, <3>5
    <3>2. raised[Behind + (k + 1)] = [entry |-> Sample, rule |-> alerts[k + 1].rule]
      BY <3>1 DEF IInv, Faithful
    <3> QED BY <1>1, <1>7, <2>2, <3>1, <3>2
  <2>7. Faithful'
    BY <1>11, <2>6 DEF Faithful, AlertOf
  <2> QED BY <2>4, <2>5, <2>7 DEF IInv
<1> QED
  BY <1>1, <1>12, <1>13

LEMMA StepKeeps == IInv /\ [Next]_vars => IInv'
<1> SUFFICES ASSUME IInv, [Next]_vars PROVE IInv'
  OBVIOUS
<1>1. CASE \E e \in Entries : Log(e)
  <2>1. UNCHANGED <<alerts, raised, received, sink, offered>>
    BY <1>1 DEF Log, J!Log, mainVars
  <2> QED BY <2>1, QuietKeeps
<1>2. CASE Journalctl
  <2>1. UNCHANGED <<alerts, raised, received, sink, offered>>
    BY <1>2 DEF Journalctl, J!JournalctlPrints, J!JournalctlExits, mainVars
  <2> QED BY <2>1, QuietKeeps
<1>3. CASE Tailer
  <2>1. UNCHANGED <<alerts, raised, sink, offered>>
    BY <1>3 DEF Tailer, mainVars
  <2>2. UNCHANGED received
    BY <1>3 DEF Tailer, J!Task, J!SkipLine, J!TakeLine, J!NextLine, J!Send,
                J!Cancel, J!EndOfStream, J!ReadFails
  <2> QED BY <2>1, <2>2, QuietKeeps
<1>4. CASE Receive
  BY <1>4, ReceiveKeeps
<1>5. CASE Exit
  <2>1. UNCHANGED <<alerts, raised, received, sink, offered>>
    BY <1>5 DEF Exit, J!RecvNone
  <2> QED BY <2>1, QuietKeeps
<1>6. CASE \E ok \in BOOLEAN : SinkReturns(ok)
  BY <1>6, SinkReturnsKeeps
<1>7. CASE SinkPanics
  <2>1. UNCHANGED <<alerts, raised, received, sink, offered>>
    BY <1>7 DEF SinkPanics
  <2> QED BY <2>1, QuietKeeps
<1>8. CASE Restart
  BY <1>8, RestartKeeps
<1>9. CASE Tick
  <2>1. UNCHANGED <<alerts, raised, received, sink, offered>>
    BY <1>9 DEF Tick, journalVars, mainVars
  <2> QED BY <2>1, QuietKeeps
<1>10. CASE UNCHANGED vars
  <2>1. UNCHANGED <<alerts, raised, received, sink, offered>>
    BY <1>10 DEF vars, journalVars, mainVars
  <2> QED BY <2>1, QuietKeeps
<1> QED
  BY <1>1, <1>2, <1>3, <1>4, <1>5, <1>6, <1>7, <1>8, <1>9, <1>10 DEF Next

LEMMA Invariant == Spec => []IInv
BY InitEstablishes, StepKeeps, PTL DEF Spec

-----------------------------------------------------------------------------
(***************************************************************************)
(* A failing sink does not suppress the others: every sink gets the alerts *)
(* in the order they were raised, none twice and none left out, for every  *)
(* environment, set of failing sinks and rule table (alert/mod.rs:94-107). *)
(***************************************************************************)
THEOREM FanOutInStep == Spec => []SinksInStep
<1>1. ASSUME IInv PROVE SinksInStep
  <2> DEFINE N == Len(Sinks)
  <2>1. /\ Len(alerts) \in Nat /\ Len(raised) \in Nat /\ Behind \in Nat
        /\ Behind = Len(raised) - Len(alerts) /\ Listing(raised)
        /\ sink \in 1..N /\ N \in Nat /\ DOMAIN Sinks = 1..N
        /\ Len(alerts) = 0 => sink = 1
    <3>1. Listing(alerts) /\ Listing(raised) /\ (alerts = <<>> => sink = 1)
            /\ sink \in 1..N
      BY <1>1 DEF IInv, Lists
    <3>2. alerts # <<>> => Len(alerts) >= 1
      BY <3>1, TailListing
    <3> QED BY <1>1, <3>1, <3>2, ListingSeq, SinksListed DEF IInv, Lag, Behind
  <2>2. \A s \in 1..N :
          /\ Listing(offered[s])
          /\ Len(offered[s]) = IF s < sink THEN Behind + 1 ELSE Behind
    BY <1>1 DEF IInv, Lists, Lag
  <2>3. ASSUME NEW s \in 1..N PROVE Len(offered[s]) <= Len(raised)
    <3>1. CASE Len(alerts) = 0
      BY <2>1, <2>2, <3>1
    <3>2. CASE Len(alerts) # 0
      BY <2>1, <2>2, <3>2
    <3> QED BY <3>1, <3>2
  <2>4. ASSUME NEW s \in 1..N PROVE IsPrefix(Given(s), raised)
    <3> DEFINE g == Given(s)
               n == Len(offered[s])
    <3>1. n \in Nat /\ DOMAIN offered[s] = 1..n
      BY <2>2, ListingSeq
    <3>2. g = [k \in 1..n |-> g[k]] /\ \A k \in 1..n : g[k] = AlertOf(offered[s][k])
      BY <3>1 DEF Given, AlertOf
    <3> HIDE DEF g, n
    <3>3. Listing(g) /\ Len(g) = n
      BY <3>1, <3>2, LenOfListing
    <3>4. n <= Len(raised)
      BY <2>3 DEF n
    <3>5. \A k \in 1..n : g[k] = raised[k]
      BY <1>1, <3>2 DEF n, IInv, Faithful
    <3> DEFINE S == Range(g) \cup Range(raised)
    <3>6. g \in Seq(Range(g)) /\ raised \in Seq(Range(raised))
      BY <2>1, <3>3, ListingSeq
    <3>7. g \in Seq(S) /\ raised \in Seq(S)
      BY <3>6
    <3> HIDE DEF S
    <3>8. \A i \in 1..n : g[i] \in S /\ raised[i] \in S
      BY <3>3, <3>4, <3>7, <2>1
    <3>9. /\ SubSeq(g, 1, n) \in Seq(S) /\ SubSeq(raised, 1, n) \in Seq(S)
          /\ Len(SubSeq(g, 1, n)) = Len(SubSeq(raised, 1, n))
          /\ Len(SubSeq(g, 1, n)) = n
          /\ \A i \in 1..n : SubSeq(g, 1, n)[i] = g[i]
          /\ \A i \in 1..n : SubSeq(raised, 1, n)[i] = raised[i]
      BY <3>1, <3>8, SubSeqProperties
    <3>10. SubSeq(g, 1, n) = SubSeq(raised, 1, n)
      <4>1. \A i \in 1..Len(SubSeq(g, 1, n)) :
              SubSeq(g, 1, n)[i] = SubSeq(raised, 1, n)[i]
        BY <3>5, <3>9
      <4> QED BY <3>9, <4>1, SeqEqual
    <3> QED BY <3>3, <3>4, <3>10 DEF IsPrefix, g
  <2>5. ASSUME NEW s \in 1..N, NEW t \in 1..N, s < t
        PROVE  Len(offered[t]) <= Len(offered[s])
    BY <2>1, <2>2, <2>5
  <2>6. ASSUME Receiving, NEW s \in 1..N PROVE Len(offered[s]) = Len(raised)
    <3>1. Len(alerts) = 0
      BY <2>6, NothingListing DEF Receiving
    <3> QED BY <2>1, <2>2, <3>1
  <2> QED BY <2>1, <2>4, <2>5, <2>6 DEF SinksInStep
<1> QED BY <1>1, Invariant, PTL

-----------------------------------------------------------------------------
(***************************************************************************)
(* The count of failures says whether all sinks so far failed on the alert *)
(* under way.                                                              *)
(***************************************************************************)
Took(s) == offered[s][Len(offered[s])].ok

Count ==
  /\ failures \in 0..(sink - 1)
  /\ failures = sink - 1 <=> \A s \in 1..(sink - 1) : ~Took(s)

Verdict == Count /\ ErrorMeansNobodyHeard

LEMMA VerdictInit == Init => Verdict
<1> SUFFICES ASSUME Init PROVE Verdict
  OBVIOUS
<1>1. /\ sink = 1 /\ failures = 0
      /\ offered = [s \in DOMAIN Sinks |-> <<>>]
  BY DEF Init, FreshMain
<1>2. Count
  BY <1>1 DEF Count
<1>3. ErrorMeansNobodyHeard
  BY <1>1, SinksListed, NothingListing DEF ErrorMeansNobodyHeard
<1> QED BY <1>2, <1>3 DEF Verdict

LEMMA VerdictQuiet ==
  ASSUME Verdict, UNCHANGED <<sink, failures, outcome, offered>>
  PROVE  Verdict'
BY DEF Verdict, Count, Took, ErrorMeansNobodyHeard

LEMMA VerdictRestart ==
  ASSUME Restart
  PROVE  Verdict'
<1>1. /\ sink' = 1 /\ failures' = 0
      /\ offered' = [s \in DOMAIN Sinks |-> <<>>]
  BY DEF Restart
<1>2. Count'
  BY <1>1 DEF Count
<1>3. ErrorMeansNobodyHeard'
  BY <1>1, SinksListed, NothingListing DEF ErrorMeansNobodyHeard
<1> QED BY <1>2, <1>3 DEF Verdict

LEMMA VerdictSinkReturns ==
  ASSUME IInv, Verdict, NEW ok \in BOOLEAN, SinkReturns(ok)
  PROVE  Verdict'
<1> DEFINE got == [entry |-> Sample, rule |-> Head(alerts).rule, ok |-> ok]
           failed == IF ok THEN failures ELSE failures + 1
           N == Len(Sinks)
           took(s) == offered'[s][Len(offered'[s])].ok
<1>1. /\ offered' = [offered EXCEPT ![sink] = Append(@, got)]
      /\ MoreSinks(failed) \/ LastSink(failed)
  BY DEF SinkReturns, Offer
<1>2. /\ sink \in 1..N /\ sink \in Nat /\ N \in Nat \ {0} /\ DOMAIN Sinks = 1..N
      /\ offered = [s \in 1..N |-> offered[s]] /\ Behind \in Nat
      /\ \A s \in 1..N : Listing(offered[s])
      /\ \A s \in 1..N :
           Len(offered[s]) = IF s < sink THEN Behind + 1 ELSE Behind
  BY SinksListed DEF IInv, Lists, Lag
<1>3. /\ offered'[sink] = Append(offered[sink], got)
      /\ \A s \in 1..N : s # sink => offered'[s] = offered[s]
  <2> HIDE DEF got
  <2> QED BY <1>1, <1>2
<1>4. got.ok = ok
  OBVIOUS
<1> HIDE DEF got
<1>5. /\ Len(offered'[sink]) = Behind + 1
      /\ offered'[sink][Behind + 1] = got
      /\ \A k \in 1..Behind : offered'[sink][k] = offered[sink][k]
  <2>1. Len(offered[sink]) = Behind
    BY <1>2
  <2> QED BY <1>2, <1>3, <2>1, AppendListing
<1>6. took(sink) = ok
  BY <1>4, <1>5 DEF Took
<1>7. \A s \in 1..N : s # sink => took(s) = Took(s)
  BY <1>3 DEF Took
<1> HIDE DEF took
<1>8. failures \in 0..(sink - 1) /\ failures \in Nat
  BY <1>2 DEF Verdict, Count
<1>9. failed = sink <=> \A s \in 1..sink : ~took(s)
  <2>1. failed = sink <=> failures = sink - 1 /\ ~ok
    BY <1>2, <1>8
  <2>2. failures = sink - 1 <=> \A s \in 1..(sink - 1) : ~Took(s)
    BY DEF Verdict, Count
  <2>3. \A s \in 1..(sink - 1) : took(s) = Took(s)
    BY <1>2, <1>7
  <2>4. (\A s \in 1..sink : ~took(s))
          <=> ~took(sink) /\ \A s \in 1..(sink - 1) : ~took(s)
    <3>1. \A s : s \in 1..sink <=> s = sink \/ s \in 1..(sink - 1)
      BY <1>2
    <3> QED BY <3>1, Zenon
  <2> QED BY <1>6, <2>1, <2>2, <2>3, <2>4
<1>10. failed \in 0..sink
  BY <1>2, <1>8
<1> HIDE DEF failed
<1>11. CASE MoreSinks(failed)
  <2>1. sink < N /\ sink' = sink + 1 /\ failures' = failed /\ outcome' = outcome
    BY <1>11 DEF MoreSinks
  <2>2. Count'
    <3>1. sink' - 1 = sink
      BY <1>2, <2>1
    <3> QED BY <1>9, <1>10, <2>1, <3>1 DEF Count, Took, took
  <2>3. ErrorMeansNobodyHeard'
    <3>1. N \in 1..N /\ N # sink /\ ~(N < sink)
      BY <1>2, <2>1
    <3>2. Len(offered[N]) = Behind /\ Len(offered'[N]) = Behind
      BY <1>2, <1>3, <3>1
    <3>3. ASSUME Behind > 0, NEW s \in 1..N
          PROVE  offered'[s][Behind] = offered[s][Behind]
      <4>1. Behind \in 1..Behind
        BY <1>2, <3>3
      <4> QED BY <1>3, <1>5, <4>1
    <3>4. Behind > 0 => outcome = IF \E s \in 1..N : offered[s][Behind].ok
                                  THEN "ok" ELSE "failed"
      BY <1>2, <3>2 DEF Verdict, ErrorMeansNobodyHeard
    <3>5. Behind > 0 => outcome' = IF \E s \in 1..N : offered'[s][Behind].ok
                                   THEN "ok" ELSE "failed"
      BY <2>1, <3>3, <3>4
    <3> QED BY <1>2, <3>2, <3>5 DEF ErrorMeansNobodyHeard
  <2> QED BY <2>2, <2>3 DEF Verdict
<1>12. CASE LastSink(failed)
  <2>1. /\ sink = N /\ sink' = 1 /\ failures' = 0
        /\ outcome' = IF failed = N THEN "failed" ELSE "ok"
    BY <1>12 DEF LastSink
  <2>2. Count'
    BY <2>1 DEF Count
  <2>3. \A s \in 1..N : Len(offered'[s]) = Behind + 1
    <3> TAKE s \in 1..N
    <3>1. CASE s = sink
      BY <1>5, <3>1
    <3>2. CASE s # sink
      BY <1>2, <1>3, <2>1, <3>2
    <3> QED BY <3>1, <3>2
  <2>4. \A s \in 1..N : took(s) = offered'[s][Behind + 1].ok
    BY <2>3 DEF took
  <2>5. outcome' = IF \E s \in 1..N : offered'[s][Behind + 1].ok
                   THEN "ok" ELSE "failed"
    BY <1>9, <2>1, <2>4
  <2>6. Len(offered'[N]) = Behind + 1
    BY <1>2, <2>3
  <2>7. ErrorMeansNobodyHeard'
    BY <1>2, <2>5, <2>6 DEF ErrorMeansNobodyHeard
  <2> QED BY <2>2, <2>7 DEF Verdict
<1> QED
  BY <1>1, <1>11, <1>12

LEMMA VerdictStep == IInv /\ Verdict /\ [Next]_vars => Verdict'
<1> SUFFICES ASSUME IInv, Verdict, [Next]_vars PROVE Verdict'
  OBVIOUS
<1>1. CASE \/ \E e \in Entries : Log(e)
           \/ Journalctl \/ Tailer \/ Tick
  BY <1>1, VerdictQuiet DEF Log, Journalctl, Tailer, Tick, mainVars
<1>2. CASE Receive \/ Exit \/ SinkPanics
  BY <1>2, VerdictQuiet DEF Receive, Exit, SinkPanics
<1>3. CASE UNCHANGED vars
  BY <1>3, VerdictQuiet DEF vars, mainVars
<1> QED
  BY <1>1, <1>2, <1>3, VerdictSinkReturns, VerdictRestart DEF Next

(***************************************************************************)
(* MultiSink::dispatch reports a failure exactly if no sink took the alert,*)
(* for every number of sinks (alert/mod.rs:94-107).                        *)
(***************************************************************************)
THEOREM FailureMeansNobodyHeard == Spec => []ErrorMeansNobodyHeard
<1>1. Spec => []Verdict
  BY VerdictInit, VerdictStep, Invariant, PTL DEF Spec
<1>2. Verdict => ErrorMeansNobodyHeard
  BY DEF Verdict
<1> QED BY <1>1, <1>2, PTL

-----------------------------------------------------------------------------
(***************************************************************************)
(* The tailer inside the daemon.  What the proofs of Journal say of it     *)
(* holds here too: the steps of the composition are its steps, but for the *)
(* end of the process and its next start.                                  *)
(***************************************************************************)
JP == INSTANCE JournalProofs

LEMMA JournalAssumed == JP!JournalAssumption
BY WatchtowerAssumption DEF JP!JournalAssumption

LEMMA PipelineInit == Init => JP!IInv
<1>1. Init => JP!Init
  BY DEF Init, J!Init, J!StartAt, JP!Init, JP!StartAt
<1> QED BY <1>1, JP!InitInv, JournalAssumed

LEMMA PipelineStep ==
  ASSUME JP!IInv,
         \/ \E e \in Entries : Log(e)
         \/ Journalctl \/ Tailer \/ Receive \/ Exit
         \/ UNCHANGED journalVars
  PROVE  JP!IInv'
<1> SUFFICES [JP!Next]_(JP!journalVars)
  BY JP!StepInv, JournalAssumed
<1>1. CASE \E e \in Entries : Log(e)
  BY <1>1 DEF Log, J!Log, JP!Log, JP!Outside, JP!Next
<1>2. CASE Journalctl
  BY <1>2
  DEF Journalctl, J!JournalctlPrints, J!JournalctlExits,
      JP!JournalctlPrints, JP!JournalctlExits, JP!Outside, JP!Next
<1>3. CASE Tailer
  BY <1>3
  DEF Tailer, J!Task, J!SkipLine, J!TakeLine, J!NextLine, J!Send,
      J!Cancel, J!EndOfStream, J!ReadFails, J!Stream!Forwardable,
      JP!Task, JP!SkipLine, JP!TakeLine, JP!NextLine, JP!Send, JP!Cancel,
      JP!EndOfStream, JP!ReadFails, JP!Stream!Forwardable, JP!Next
<1>4. CASE Receive
  BY <1>4 DEF Receive, J!Recv, JP!Recv, JP!Next
<1>5. CASE Exit
  BY <1>5 DEF Exit, J!RecvNone, J!Over, JP!RecvNone, JP!Over, JP!Next
<1>6. CASE UNCHANGED journalVars
  BY <1>6 DEF journalVars, JP!journalVars
<1> QED BY <1>1, <1>2, <1>3, <1>4, <1>5, <1>6

(* The receiver is dropped and the child killed: nothing more is owed.     *)
LEMMA PipelinePanics ==
  ASSUME JP!IInv, SinkPanics
  PROVE  JP!IInv'
<1> USE DEF JP!IInv
<1>1. /\ receiver' = "dropped" /\ channel' = <<>> /\ tailer' = "cancelled"
      /\ journalctl' = "exited"
      /\ UNCHANGED <<journal, first, printed, taken, received>>
  BY DEF SinkPanics
<1>2. JP!TypeOK'
  BY <1>1, JournalAssumed DEF JP!TypeOK, JP!Over, JP!JournalAssumption
<1>3. JP!Ends'
  BY <1>1 DEF JP!Ends
<1>4. /\ JP!Last' = JP!Last /\ \A i : JP!Usable(i)' = JP!Usable(i)
      /\ JP!Sent' = taken /\ JP!Sent <= taken
      /\ JP!Sent \in Int /\ taken \in Nat
  BY <1>1 DEF JP!Last, JP!Sent, JP!Usable, JP!TypeOK, JP!Stream!LastReceived,
     JP!Stream!Forwardable
<1> HIDE DEF JP!Last, JP!Usable, JP!Sent
<1>5. (JP!LastInRange /\ JP!ReceivedAll /\ JP!ChannelHolds)'
  BY <1>1, <1>4 DEF JP!LastInRange, JP!ReceivedAll, JP!ChannelHolds
<1>6. JP!ChannelSorted'
  BY <1>1 DEF JP!ChannelSorted
<1> QED BY <1>2, <1>3, <1>5, <1>6

LEMMA PipelineRestart ==
  ASSUME JP!IInv, Restart
  PROVE  JP!IInv'
<1>1. /\ journal \in Seq(Entries) /\ Len(journal) \in Nat /\ Backlog \in Nat
      /\ journal' = journal /\ first' \in 0..Len(journal)
      /\ journalctl' = "running" /\ printed' = first' /\ taken' = first'
      /\ tailer' = "reading" /\ channel' = <<>> /\ received' = <<>>
      /\ receiver' = "open"
  BY WatchtowerAssumption DEF Restart, JP!IInv, JP!TypeOK
<1>2. JP!TypeOK'
  <2>1. first' \in Nat /\ first' <= Len(journal)
    BY <1>1
  <2>2. /\ channel' \in Seq(Nat) /\ Len(channel') = 0
        /\ received' \in Seq(Nat)
    BY <1>1
  <2>3. ChannelCap \in Nat /\ PipeCap \in Nat
    BY JournalAssumed DEF JP!JournalAssumption
  <2>4. /\ first' <= taken' /\ taken' <= printed' /\ printed' <= Len(journal')
        /\ taken' \in Nat /\ printed' \in Nat
    <3>1. Len(journal') = Len(journal)
      BY <1>1
    <3>2. first' <= first'
      BY <2>1
    <3> QED BY <1>1, <2>1, <3>1, <3>2, Zenon
  <2>5. Len(channel') <= ChannelCap /\ printed' - taken' <= PipeCap
    <3>1. \A n, p \in Nat : n - n <= p
      OBVIOUS
    <3>2. printed' = taken'
      BY <1>1, Zenon
    <3>3. Len(channel') <= ChannelCap
      BY <2>2, <2>3
    <3>4. taken' - taken' <= PipeCap
      BY <2>3, <2>4, <3>1, Zenon
    <3> QED BY <3>2, <3>3, <3>4, Zenon
  <2> QED BY <1>1, <2>1, <2>2, <2>4, <2>5 DEF JP!TypeOK
<1>3. JP!Last' = first' /\ JP!Sent' = first'
  BY <1>1 DEF JP!Last, JP!Stream!LastReceived, JP!Sent
<1>4. JP!Ends' /\ JP!LastInRange'
  BY <1>1, <1>3 DEF JP!Ends, JP!LastInRange
<1>5. (JP!ReceivedAll /\ JP!ChannelSorted /\ JP!ChannelHolds)'
  BY <1>1, <1>3
  DEF JP!ReceivedAll, JP!ChannelSorted, JP!ChannelHolds
<1> QED BY <1>2, <1>4, <1>5 DEF JP!IInv

(***************************************************************************)
(* How the end of the loop goes with the end of the stream.                *)
(***************************************************************************)
Leaving ==
  /\ daemon = "running" <=> receiver = "open"
  /\ daemon = "succeeded" => receiver = "ended" /\ alerts = <<>>

LEMMA LeavingInit == Init => Leaving
BY DEF Init, FreshMain, J!Init, J!StartAt, Leaving

LEMMA LeavingStep == Leaving /\ [Next]_vars => Leaving'
<1> SUFFICES ASSUME Leaving, [Next]_vars PROVE Leaving'
  OBVIOUS
<1>1. CASE \E e \in Entries : Log(e)
  BY <1>1 DEF Leaving, Log, J!Log, mainVars
<1>2. CASE Journalctl
  BY <1>2 DEF Leaving, Journalctl, J!JournalctlPrints, J!JournalctlExits, mainVars
<1>3. CASE Tailer
  BY <1>3
  DEF Leaving, Tailer, J!Task, J!SkipLine, J!TakeLine, J!NextLine, J!Send,
      J!Cancel, J!EndOfStream, J!ReadFails, mainVars
<1>4. CASE Receive
  BY <1>4 DEF Leaving, Receive, Receiving, J!Recv
<1>5. CASE Exit
  BY <1>5 DEF Leaving, Exit, Receiving, J!RecvNone
<1>6. CASE \E ok \in BOOLEAN : SinkReturns(ok)
  BY <1>6 DEF Leaving, SinkReturns, Dispatching, journalVars
<1>7. CASE SinkPanics \/ Restart
  BY <1>7 DEF Leaving, SinkPanics, Restart
<1>8. CASE Tick \/ UNCHANGED vars
  BY <1>8 DEF Leaving, Tick, vars, journalVars, mainVars
<1> QED
  BY <1>1, <1>2, <1>3, <1>4, <1>5, <1>6, <1>7, <1>8 DEF Next

(***************************************************************************)
(* The fan-out, the pipeline and the end of the loop together.             *)
(***************************************************************************)
LEMMA Together == Spec => [](IInv /\ JP!IInv /\ Leaving)
<1>1. JP!IInv /\ [Next]_vars => JP!IInv'
  <2> SUFFICES ASSUME JP!IInv, [Next]_vars PROVE JP!IInv'
    OBVIOUS
  <2>1. CASE (\E ok \in BOOLEAN : SinkReturns(ok)) \/ Tick \/ UNCHANGED vars
    <3>1. UNCHANGED journalVars
      BY <2>1 DEF SinkReturns, Tick, vars
    <3> QED BY <3>1, PipelineStep
  <2> QED
    BY <2>1, PipelineStep, PipelinePanics, PipelineRestart DEF Next
<1> QED
  BY <1>1, PipelineInit, LeavingInit, LeavingStep, Invariant, PTL DEF Spec

(***************************************************************************)
(* When the journal stream ended and main returned Ok, every usable entry  *)
(* that was printed has been classified and every sink has had every alert *)
(* (journal.rs:92-95, main.rs:130-150).                                    *)
(***************************************************************************)
THEOREM NothingLeftBehind == Spec => []ExitMeansDelivered
<1>1. ASSUME IInv, JP!IInv, Leaving PROVE ExitMeansDelivered
  <2> SUFFICES ASSUME daemon = "succeeded", tailer = "eof"
               PROVE  /\ \A i \in (first + 1)..printed :
                           J!Stream!Forwardable(journal[i])
                             => i \in Range(received)
                      /\ \A s \in DOMAIN Sinks : Given(s) = raised
    BY DEF ExitMeansDelivered
  <2>1. receiver = "ended" /\ alerts = <<>>
    BY <1>1 DEF Leaving
  <2>2. ASSUME NEW i \in (first + 1)..printed, J!Stream!Forwardable(journal[i])
        PROVE  i \in Range(received)
    <3>1. JP!EndMeansDrained
      BY <1>1, JP!DrainedInv, JournalAssumed
    <3>2. PICK k \in 1..Len(received) : received[k] = i
      BY <2>1, <2>2, <3>1
      DEF JP!EndMeansDrained, J!Stream!Forwardable, JP!Stream!Forwardable
    <3>3. DOMAIN received = 1..Len(received)
      BY <1>1, ListingSeq DEF IInv, Lists
    <3> QED BY <3>2, <3>3 DEF Range
  <2>3. ASSUME NEW s \in DOMAIN Sinks PROVE Given(s) = raised
    <3>1. s \in 1..Len(Sinks)
      BY SinksListed
    <3>2. /\ sink = 1 /\ Listing(raised) /\ Listing(offered[s])
          /\ Len(offered[s]) = Behind /\ Len(alerts) = 0
      BY <1>1, <2>1, <3>1, NothingListing DEF IInv, Lists, Lag
    <3>3. /\ Len(raised) \in Nat /\ Len(offered[s]) = Len(raised)
          /\ DOMAIN offered[s] = 1..Len(raised)
          /\ raised = [k \in 1..Len(raised) |-> raised[k]]
      BY <3>2, ListingSeq DEF Behind
    <3>4. \A k \in 1..Len(raised) : AlertOf(offered[s][k]) = raised[k]
      BY <1>1, <3>1, <3>3 DEF IInv, Faithful
    <3>5. Given(s) = [k \in 1..Len(raised) |-> AlertOf(offered[s][k])]
      BY <3>3, Zenon DEF Given, AlertOf
    <3>6. Given(s) = [k \in 1..Len(raised) |-> raised[k]]
      BY <3>4, <3>5, Zenon
    <3> QED BY <3>3, <3>6, Zenon
  <2> QED BY <2>2, <2>3
<1> QED BY <1>1, Together, PTL

-----------------------------------------------------------------------------
(***************************************************************************)
(* The Vec that ingest returns.  Counting the positions up to a given one  *)
(* numbers them from 1 without a gap, so every place of the Vec has its    *)
(* rule, and no two have the same.                                         *)
(***************************************************************************)
UpTo(P, i) == { j \in P : j <= i }

LEMMA RuleTable ==
  /\ Len(RuleOrder) \in Nat /\ DOMAIN RuleOrder = 1..Len(RuleOrder)
  /\ \A i, j \in 1..Len(RuleOrder) : RuleOrder[i] = RuleOrder[j] => i = j
  /\ \A as : Positions(as) \in SUBSET (1..Len(RuleOrder))
<1>1. RuleOrder \in Seq(C!Rules) /\ IsInjective(RuleOrder)
  BY WatchtowerAssumption
<1>2. Len(RuleOrder) \in Nat /\ DOMAIN RuleOrder = 1..Len(RuleOrder)
  BY <1>1
<1>3. \A as : Positions(as) \subseteq 1..Len(RuleOrder)
  BY DEF Positions
<1> QED BY <1>1, <1>2, <1>3 DEF IsInjective

LEMMA RankInRange ==
  ASSUME NEW n \in Nat, NEW P \in SUBSET (1..n), NEW i \in P
  PROVE  /\ UpTo(P, i) \in SUBSET P /\ i \in UpTo(P, i)
         /\ IsFiniteSet(UpTo(P, i))
         /\ Cardinality(UpTo(P, i)) \in 1..Cardinality(P)
<1>1. IsFiniteSet(P) /\ Cardinality(P) \in Nat
  <2>1. IsFiniteSet(1..n)
    BY FS_Interval
  <2> QED BY <2>1, FS_Subset, FS_CardinalityType
<1>2. UpTo(P, i) \in SUBSET P /\ i \in UpTo(P, i)
  BY DEF UpTo
<1>3. IsFiniteSet(UpTo(P, i)) /\ Cardinality(UpTo(P, i)) <= Cardinality(P)
  BY <1>1, <1>2, FS_Subset
<1>4. Cardinality(UpTo(P, i)) \in Nat /\ Cardinality(UpTo(P, i)) # 0
  BY <1>2, <1>3, FS_CardinalityType, FS_EmptySet
<1> QED BY <1>1, <1>2, <1>3, <1>4

LEMMA RankInjective ==
  ASSUME NEW n \in Nat, NEW P \in SUBSET (1..n), NEW i \in P, NEW j \in P,
         Cardinality(UpTo(P, i)) = Cardinality(UpTo(P, j))
  PROVE  i = j
<1>1. ASSUME NEW x \in P, NEW y \in P, x < y
      PROVE  Cardinality(UpTo(P, x)) # Cardinality(UpTo(P, y))
  <2>1. UpTo(P, x) \subseteq UpTo(P, y) /\ y \notin UpTo(P, x)
    <3>1. x \in Nat /\ y \in Nat /\ P \subseteq Nat
      OBVIOUS
    <3>2. \A z \in P : z <= x => z <= y
      BY <1>1, <3>1
    <3>3. ~(y <= x)
      BY <1>1, <3>1
    <3> QED BY <3>2, <3>3 DEF UpTo
  <2> QED BY <2>1, RankInRange, FS_Subset
<1>2. i < j \/ j < i \/ i = j
  OBVIOUS
<1> QED BY <1>1, <1>2

LEMMA RankOnto ==
  ASSUME NEW n \in Nat, NEW P \in SUBSET (1..n), NEW k \in 1..Cardinality(P)
  PROVE  \E i \in P : Cardinality(UpTo(P, i)) = k
<1> DEFINE c == Cardinality(P)
           f == [i \in P |-> Cardinality(UpTo(P, i))]
<1>1. c \in Nat
  <2>1. IsFiniteSet(1..n)
    BY FS_Interval
  <2> QED BY <2>1, FS_Subset, FS_CardinalityType
<1>2. f \in [P -> 1..c]
  BY RankInRange
<1>3. \A i, j \in P : f[i] = f[j] => i = j
  BY RankInjective
<1>4. IsFiniteSet(1..c) /\ Cardinality(1..c) = c
  BY <1>1, FS_Interval
<1> HIDE DEF f
<1>5. f \in Injection(P, 1..c)
  BY <1>2, <1>3 DEF Injection, IsInjective
<1>6. f \in Surjection(P, 1..c)
  BY <1>4, <1>5, FS_Injection
<1>7. PICK i \in P : f[i] = k
  BY <1>6 DEF Surjection
<1> QED BY <1>7 DEF f

LEMMA PlacesOfVec ==
  ASSUME NEW as, NEW k \in 1..Cardinality(Positions(as))
  PROVE  /\ AlertAt(as, k) \in as
         /\ \E i \in Positions(as) :
              /\ AlertAt(as, k).rule = RuleOrder[i]
              /\ Cardinality(UpTo(Positions(as), i)) = k
<1> DEFINE P == Positions(as)
           At(a, i) == a.rule = RuleOrder[i] /\ Cardinality(UpTo(P, i)) = k
<1>1. Len(RuleOrder) \in Nat /\ P \in SUBSET (1..Len(RuleOrder))
  BY RuleTable
<1>2. PICK i \in P : Cardinality(UpTo(P, i)) = k
  BY <1>1, RankOnto
<1>3. PICK a \in as : a.rule = RuleOrder[i]
  BY <1>2 DEF Positions
<1>4. \E a1 \in as : \E i1 \in P : At(a1, i1)
  BY <1>2, <1>3
<1>5. AlertAt(as, k) = CHOOSE a1 \in as : \E i1 \in P : At(a1, i1)
  BY DEF AlertAt, UpTo
<1> HIDE DEF At, P
<1>6. AlertAt(as, k) \in as /\ \E i1 \in P : At(AlertAt(as, k), i1)
  BY <1>4, <1>5
<1> QED BY <1>1, <1>6 DEF At, P

LEMMA VecOfIngest ==
  ASSUME NEW as
  PROVE  LET vec == InRuleOrder(as)
         IN /\ DOMAIN vec = 1..Len(vec) /\ Len(vec) \in Nat
            /\ Len(vec) <= Len(RuleOrder)
            /\ \A k \in 1..Len(vec) : vec[k] \in as
            /\ \A k, l \in 1..Len(vec) : k # l => vec[k].rule # vec[l].rule
<1> DEFINE vec == InRuleOrder(as)
           P == Positions(as)
           c == Cardinality(P)
<1>1. /\ Len(RuleOrder) \in Nat /\ DOMAIN RuleOrder = 1..Len(RuleOrder)
      /\ P \in SUBSET (1..Len(RuleOrder))
  BY RuleTable
<1>2. /\ IsFiniteSet(1..Len(RuleOrder))
      /\ Cardinality(1..Len(RuleOrder)) = Len(RuleOrder)
  <2>1. \A n \in Nat : IsFiniteSet(1..n) /\ Cardinality(1..n) = n
    BY FS_Interval
  <2> QED BY <1>1, <2>1, Zenon
<1>3. c \in Nat /\ c <= Len(RuleOrder)
  <2> HIDE DEF P
  <2>1. IsFiniteSet(P) /\ c <= Cardinality(1..Len(RuleOrder))
    BY <1>1, <1>2, FS_Subset, Zenon
  <2> QED BY <1>2, <2>1, FS_CardinalityType, Zenon
<1>4. vec = [k \in 1..c |-> AlertAt(as, k)]
  BY DEF InRuleOrder
<1>5. Listing(vec)
  BY InRuleOrderListing
<1>6. DOMAIN vec = 1..c
  BY <1>4
<1>7. Len(vec) = c
  <2>1. vec = [k \in 1..c |-> vec[k]]
    BY <1>4
  <2> HIDE DEF vec, c
  <2> QED BY <1>3, <2>1, LenOfListing
<1>8. \A k \in 1..c : vec[k] = AlertAt(as, k)
  BY <1>4
<1>9. ASSUME NEW k \in 1..c, NEW l \in 1..c, vec[k].rule = vec[l].rule
      PROVE  k = l
  <2>1. PICK i \in P :
          vec[k].rule = RuleOrder[i] /\ Cardinality(UpTo(P, i)) = k
    BY <1>8, PlacesOfVec
  <2>2. PICK j \in P :
          vec[l].rule = RuleOrder[j] /\ Cardinality(UpTo(P, j)) = l
    BY <1>8, PlacesOfVec
  <2>3. i = j
    BY <1>1, <1>9, <2>1, <2>2, RuleTable
  <2> QED BY <2>1, <2>2, <2>3
<1>10. \A k \in 1..c : vec[k] \in as
  BY <1>8, PlacesOfVec
<1> HIDE DEF vec, c
<1>11. \A k, l \in 1..c : k # l => vec[k].rule # vec[l].rule
  BY <1>9
<1> QED BY <1>3, <1>6, <1>7, <1>10, <1>11 DEF vec

-----------------------------------------------------------------------------
(***************************************************************************)
(* The alerts and the journal.  Nothing has been raised that lies beyond   *)
(* the last entry received, and what is received next does.                *)
(***************************************************************************)
RaisedPast ==
  \A k \in 1..Len(raised) :
    raised[k].entry \in Nat /\ raised[k].entry <= JP!Last

Story == RaisedPast /\ AlertsFollowJournal

LEMMA StoryBegins ==
  ASSUME raised = <<>>
  PROVE  Story
BY NothingListing DEF Story, RaisedPast, AlertsFollowJournal

LEMMA StoryReceive ==
  ASSUME Listing(raised), JP!IInv, Story, Receive
  PROVE  Story'
<1> DEFINE m == Len(raised)
           n == Len(alerts')
           head == channel[1]
<1>1. /\ head \in Nat /\ head = Head(channel) /\ JP!Last' = head
      /\ JP!Last < head /\ JP!Last \in Nat
  <2>1. JP!Recv
    BY DEF Receive, J!Recv, JP!Recv
  <2>2. /\ head \in JP!Stream!Pending /\ JP!Last' = head /\ head \in Nat
        /\ Len(channel) >= 1
    BY <2>1, JP!HeadIsNext, JournalAssumed
  <2>3. JP!Last < head /\ JP!Last \in Nat
    BY <2>2 DEF JP!Stream!Pending, JP!Last, JP!IInv, JP!LastInRange
  <2>4. head = Head(channel)
    BY <2>1 DEF JP!Recv, JP!IInv, JP!TypeOK
  <2> QED BY <2>2, <2>3, <2>4
<1>2. /\ n \in Nat /\ m \in Nat /\ Len(raised') = m + n
      /\ \A k \in 1..m : raised'[k] = raised[k]
      /\ \A k \in 1..n :
           raised'[m + k] = [entry |-> Head(channel), rule |-> alerts'[k].rule]
  BY RaisedByReceive
<1>3. \A k, l \in 1..n : k # l => alerts'[k].rule # alerts'[l].rule
  BY VecOfIngest DEF Receive
<1>4. \A k \in 1..m : raised[k].entry \in Nat /\ raised[k].entry <= JP!Last
  BY DEF Story, RaisedPast
<1> HIDE DEF m, n, head
<1>5. ASSUME NEW k \in 1..(m + n)
      PROVE  \/ k \in 1..m /\ raised'[k] = raised[k]
             \/ /\ k - m \in 1..n /\ raised'[k].entry = head
                /\ raised'[k].rule = alerts'[k - m].rule
  <2>1. CASE k \in 1..m
    BY <1>2, <2>1
  <2>2. CASE k \notin 1..m
    <3>1. k - m \in 1..n /\ k = m + (k - m)
      BY <1>2, <2>2
    <3>2. raised'[k] = [entry |-> Head(channel), rule |-> alerts'[k - m].rule]
      BY <1>2, <3>1
    <3> QED BY <1>1, <3>1, <3>2
  <2> QED BY <2>1, <2>2
<1>6. RaisedPast'
  <2>1. ASSUME NEW k \in 1..(m + n)
        PROVE  raised'[k].entry \in Nat /\ raised'[k].entry <= head
    <3>1. CASE k \in 1..m /\ raised'[k] = raised[k]
      <4>1. raised[k].entry \in Nat /\ raised[k].entry <= JP!Last
        BY <1>4, <3>1
      <4> QED BY <1>1, <3>1, <4>1
    <3>2. CASE raised'[k].entry = head
      BY <1>1, <3>2
    <3> QED BY <1>5, <3>1, <3>2
  <2> QED BY <1>1, <1>2, <2>1 DEF RaisedPast
<1>7. AlertsFollowJournal'
  <2> SUFFICES ASSUME NEW k \in 1..(m + n), NEW l \in 1..(m + n), k < l
      PROVE  /\ raised'[k].entry <= raised'[l].entry
             /\ raised'[k].entry = raised'[l].entry =>
                  raised'[k].rule # raised'[l].rule
    BY <1>2 DEF AlertsFollowJournal
  <2>1. CASE l \in 1..m
    <3>1. k \in 1..m
      BY <1>2, <2>1
    <3> QED BY <1>2, <2>1, <3>1 DEF Story, AlertsFollowJournal, m
  <2>2. CASE l \notin 1..m /\ k \in 1..m
    <3>1. raised'[l].entry = head /\ raised'[k] = raised[k]
      BY <1>2, <1>5, <2>2
    <3>2. raised[k].entry \in Nat /\ raised[k].entry <= JP!Last
      BY <1>4, <2>2
    <3> QED BY <1>1, <3>1, <3>2
  <2>3. CASE l \notin 1..m /\ k \notin 1..m
    <3>1. /\ k - m \in 1..n /\ l - m \in 1..n
          /\ raised'[k].entry = head /\ raised'[k].rule = alerts'[k - m].rule
          /\ raised'[l].entry = head /\ raised'[l].rule = alerts'[l - m].rule
      BY <1>5, <2>3
    <3>2. k - m # l - m
      BY <1>2
    <3> QED BY <1>1, <1>3, <3>1, <3>2
  <2> QED BY <1>2, <2>1, <2>2, <2>3
<1> QED BY <1>6, <1>7 DEF Story

LEMMA StoryStep ==
  ASSUME Listing(raised), JP!IInv, Story, [Next]_vars
  PROVE  Story'
<1>1. ASSUME UNCHANGED <<raised, received, first>> PROVE Story'
  BY <1>1 DEF Story, RaisedPast, AlertsFollowJournal, JP!Last,
     JP!Stream!LastReceived
<1>2. CASE \E e \in Entries : Log(e)
  BY <1>1, <1>2 DEF Log, J!Log, mainVars
<1>3. CASE Journalctl
  BY <1>1, <1>3 DEF Journalctl, J!JournalctlPrints, J!JournalctlExits, mainVars
<1>4. CASE Tailer
  BY <1>1, <1>4 DEF Tailer, J!Task, J!SkipLine, J!TakeLine, J!NextLine, J!Send,
     J!Cancel, J!EndOfStream, J!ReadFails, mainVars
<1>5. CASE Receive
  BY <1>5, StoryReceive
<1>6. CASE Exit \/ SinkPanics
  BY <1>1, <1>6 DEF Exit, J!RecvNone, SinkPanics
<1>7. CASE (\E ok \in BOOLEAN : SinkReturns(ok)) \/ Tick \/ UNCHANGED vars
  BY <1>1, <1>7 DEF SinkReturns, Tick, vars, journalVars, mainVars
<1>8. CASE Restart
  <2>1. (raised = <<>>)'
    BY <1>8 DEF Restart
  <2>2. \A k \in 1..Len(raised') : FALSE
    BY <2>1, NothingListing
  <2> QED BY <2>2 DEF Story, RaisedPast, AlertsFollowJournal
<1> QED
  BY <1>2, <1>3, <1>4, <1>5, <1>6, <1>7, <1>8 DEF Next

(***************************************************************************)
(* The alerts come in the order in which the entries that caused them were *)
(* logged, and no entry raises an alert of the same rule twice, for every  *)
(* journal, channel, pipe and rule table (main.rs:130-146).                *)
(***************************************************************************)
THEOREM AlertsInJournalOrder == Spec => []AlertsFollowJournal
<1>1. Init => Story
  BY StoryBegins DEF Init, FreshMain
<1>2. Spec => []Story
  <2>1. IInv /\ JP!IInv /\ Leaving /\ Story /\ [Next]_vars => Story'
    BY StoryStep DEF IInv, Lists
  <2> QED BY <1>1, <2>1, Together, PTL DEF Spec
<1>3. Story => AlertsFollowJournal
  BY DEF Story
<1> QED BY <1>2, <1>3, PTL

-----------------------------------------------------------------------------
(***************************************************************************)
(* The type of the daemon.  The classifier's part is taken over from       *)
(* ClassifierProofs, whose histories are not needed for it; the tailer's   *)
(* from the invariant of JournalProofs; and the entry a message came from  *)
(* is usable, so that parse_line is given what it can parse.               *)
(***************************************************************************)
CP == INSTANCE ClassifierProofs WITH arrivals <- <<>>, alarms <- <<>>

LEMMA RulesAssumed == CP!RulesAssumption
BY WatchtowerAssumption
DEF CP!RulesAssumption, C!RulesAssumption, CP!Rules, C!Rules,
    CP!StructuredEvent, C!StructuredEvent, CP!Level, C!Level

LEMMA ClassifierSame ==
  /\ C!Slots = CP!Slots
  /\ C!Alert = CP!Alert
  /\ \A e : C!SlotsOf(e) = CP!SlotsOf(e)
  /\ \A s, n, e, t : C!MakeAlert(s, n, e, t) = CP!MakeAlert(s, n, e, t)
<1>1. C!Slots = CP!Slots /\ \A e : C!SlotsOf(e) = CP!SlotsOf(e)
  BY DEF C!Slots, CP!Slots, C!SlotsOf, CP!SlotsOf, C!MatchingRules,
         CP!MatchingRules, C!Rules, CP!Rules, C!KeyOf, CP!KeyOf,
         C!UnwrapOr, CP!UnwrapOr
<1>2. C!Alert = CP!Alert
  BY <1>1, Zenon DEF C!Alert, CP!Alert, C!Rules, CP!Rules
<1>3. \A s, n, e, t : C!MakeAlert(s, n, e, t) = CP!MakeAlert(s, n, e, t)
  BY Zenon DEF C!MakeAlert, CP!MakeAlert, C!Severity, CP!Severity, C!Rules,
               CP!Rules
<1> QED BY <1>1, <1>2, <1>3

LEMMA ClassifierTypeSame == C!TypeOK <=> CP!TypeOK
BY ClassifierSame, Zenon DEF C!TypeOK, CP!TypeOK

LEMMA ClassifierKeepsType ==
  ASSUME C!TypeOK, NEW e \in Events, C!Ingest(e)
  PROVE  C!TypeOK'
<1> DEFINE old(s) == C!Expired(events[s], now - Window[s.rule])
<1>1. \A S : C!Cardinality(S) = CP!Cardinality(S)
  BY Zenon DEF C!Cardinality, CP!Cardinality
<1>2. \A s : old(s) = CP!Expired(events[s], now - Window[s.rule])
  BY Zenon DEF C!Expired, CP!Expired
<1>3. \A s : C!Cardinality(old(s)) = CP!Cardinality(old(s))
  BY <1>1, Zenon
<1> HIDE DEF old
<1>4. \A s : C!Pushed(s) = CP!Pushed(s)
  BY <1>2, <1>3, Zenon DEF C!Pushed, CP!Pushed, C!DropExpired, CP!DropExpired, old
<1>5. \A s : C!Fires(s) <=> CP!Fires(s)
  BY <1>4, Zenon DEF C!Fires, CP!Fires, C!InCooldown, CP!InCooldown
<1>6. CP!Ingest(e)
  BY <1>4, <1>5, ClassifierSame DEF C!Ingest, CP!Ingest
<1>7. CP!TypeOK'
  BY <1>6, ClassifierTypeSame, CP!IngestTyped, RulesAssumed
<1>8. (C!TypeOK <=> CP!TypeOK)'
  BY ClassifierTypeSame, PTL
<1> QED BY <1>7, <1>8

LEMMA ListingIn ==
  ASSUME NEW S, NEW q, Listing(q), \A k \in 1..Len(q) : q[k] \in S
  PROVE  q \in Seq(S)
<1>1. Len(q) \in Nat /\ q = [k \in 1..Len(q) |-> q[k]]
  BY ListingSeq
<1>2. q \in [1..Len(q) -> S]
  BY <1>1, Zenon
<1> QED BY <1>1, <1>2

LEMMA ReceivedUsable ==
  ASSUME JP!IInv, Receive
  PROVE  /\ Head(channel) \in Nat
         /\ ParseLine[Message(Head(channel))] \in Events \cup {Unstructured}
<1>1. /\ channel \in Seq(Nat) /\ channel # <<>>
      /\ journal \in Seq(Entries) /\ Len(journal) \in Nat
  BY DEF Receive, J!Recv, JP!IInv, JP!TypeOK
<1>2. 1 \in 1..Len(channel) /\ Head(channel) = channel[1] /\ channel[1] \in Nat
  BY <1>1
<1>3. /\ JP!Last < channel[1] /\ channel[1] <= JP!Sent
      /\ JP!Usable(channel[1])
  BY <1>2 DEF JP!IInv, JP!ChannelSorted
<1>4. channel[1] \in 1..Len(journal)
  <2>1. /\ JP!Last \in Nat /\ JP!Sent \in Int /\ JP!Sent <= taken
        /\ taken \in Nat /\ printed \in Nat /\ taken <= printed
        /\ printed <= Len(journal)
    BY DEF JP!IInv, JP!LastInRange, JP!TypeOK, JP!Sent
  <2> QED BY <1>1, <1>2, <1>3, <2>1
<1>5. journal[channel[1]] \in Entries
  BY <1>1, <1>4
<1>6. J!Stream!Forwardable(journal[channel[1]])
  BY <1>3 DEF JP!Usable, JP!Stream!Forwardable, J!Stream!Forwardable
<1>7. ParseLine[journal[channel[1]].message] \in Events \cup {Unstructured}
  BY <1>5, <1>6, WatchtowerAssumption
<1> QED BY <1>2, <1>7 DEF Message

(***************************************************************************)
(* What the invariants above leave open of the type.                       *)
(***************************************************************************)
MainTyped ==
  /\ daemon \in {"running", "succeeded", "failed"}
  /\ alerts \in Seq(C!Alert) /\ Len(alerts) <= Len(RuleOrder)
  /\ outcome \in {"ok", "failed"}
  /\ raised \in Seq([entry: Nat, rule: C!Rules])

Typed == C!TypeOK /\ MainTyped

LEMMA NothingTyped ==
  \A S : <<>> \in Seq(S) /\ Len(<<>>) <= Len(RuleOrder)
BY RuleTable

LEMMA TypedInit == Init => Typed
<1> SUFFICES ASSUME Init PROVE Typed
  OBVIOUS
<1>1. C!TypeOK
  <2>1. /\ now \in Nat
        /\ events \in [C!Slots -> Seq(Nat)]
        /\ last_fired \in [C!Slots -> Nat \cup {None}]
        /\ fired = {}
    BY DEF Init, C!Init
  <2> QED BY <2>1 DEF C!TypeOK
<1>2. MainTyped
  BY NothingTyped DEF Init, FreshMain, MainTyped
<1> QED BY <1>1, <1>2 DEF Typed

LEMMA TypedReceive ==
  ASSUME IInv, JP!IInv, Typed, Receive
  PROVE  Typed'
<1>1. C!TypeOK'
  <2>1. CASE ParseLine[Message(Head(channel))] = Unstructured
    <3>1. fired' = {} /\ UNCHANGED <<now, events, last_fired>>
      BY <2>1 DEF Receive, Ingest, C!IngestUnstructured
    <3> QED BY <3>1 DEF Typed, C!TypeOK
  <2>2. CASE ParseLine[Message(Head(channel))] # Unstructured
    <3>1. /\ ParseLine[Message(Head(channel))] \in Events
          /\ C!Ingest(ParseLine[Message(Head(channel))])
      BY <2>2, ReceivedUsable DEF Receive, Ingest
    <3> QED BY <3>1, ClassifierKeepsType DEF Typed
  <2> QED BY <2>1, <2>2
<1>2. /\ Listing(alerts') /\ Len(alerts') <= Len(RuleOrder)
      /\ \A k \in 1..Len(alerts') : alerts'[k] \in C!Alert
  <2>1. /\ Len(alerts') <= Len(RuleOrder)
        /\ \A k \in 1..Len(alerts') : alerts'[k] \in fired'
    BY VecOfIngest DEF Receive
  <2>2. fired' \subseteq C!Alert
    BY <1>1 DEF C!TypeOK
  <2> QED BY <2>1, <2>2, RaisedByReceive DEF IInv, Lists
<1>3. alerts' \in Seq(C!Alert)
  BY <1>2, ListingIn
<1>4. raised' \in Seq([entry: Nat, rule: C!Rules])
  <2> DEFINE m == Len(raised)
             n == Len(alerts')
             R == [entry: Nat, rule: C!Rules]
  <2>1. /\ Listing(raised') /\ m \in Nat /\ n \in Nat
        /\ Len(raised') = m + n
        /\ \A k \in 1..m : raised'[k] = raised[k]
        /\ \A k \in 1..n : raised'[m + k] =
             [entry |-> Head(channel), rule |-> alerts'[k].rule]
    BY RaisedByReceive DEF IInv, Lists
  <2>2. \A k \in 1..n : alerts'[k].rule \in C!Rules
    BY <1>2 DEF C!Alert
  <2>3. \A k \in 1..n : raised'[m + k] \in R
    <3> SUFFICES ASSUME NEW k \in 1..n PROVE raised'[m + k] \in R
      OBVIOUS
    <3>1. Head(channel) \in Nat
      BY ReceivedUsable
    <3>2. raised'[m + k] = [entry |-> Head(channel), rule |-> alerts'[k].rule]
      BY <2>1
    <3> QED BY <2>2, <3>1, <3>2
  <2>4. \A k \in 1..m : raised'[k] \in R
    <3>1. raised \in Seq(R)
      BY DEF Typed, MainTyped
    <3> HIDE DEF R
    <3>2. \A k \in 1..m : raised[k] \in R
      BY <3>1
    <3> QED BY <2>1, <3>2
  <2> HIDE DEF m, n, R
  <2>5. ASSUME NEW k \in 1..(m + n) PROVE raised'[k] \in R
    <3>1. k \in 1..m \/ (k - m \in 1..n /\ k = m + (k - m))
      BY <2>1
    <3> QED BY <2>3, <2>4, <3>1, Zenon
  <2> QED BY <2>1, <2>5, ListingIn DEF R
<1>5. MainTyped'
  BY <1>2, <1>3, <1>4 DEF Typed, MainTyped, Receive
<1> QED BY <1>1, <1>5 DEF Typed

LEMMA TypedStep ==
  ASSUME IInv, JP!IInv, Typed, [Next]_vars
  PROVE  Typed'
<1>1. ASSUME UNCHANGED classifierVars PROVE C!TypeOK'
  BY <1>1 DEF Typed, C!TypeOK, classifierVars
<1>2. ASSUME UNCHANGED mainVars PROVE MainTyped'
  BY <1>2 DEF Typed, MainTyped, mainVars
<1>3. CASE (\E e \in Entries : Log(e)) \/ Journalctl \/ Tailer \/ UNCHANGED vars
  BY <1>1, <1>2, <1>3 DEF Log, Journalctl, Tailer, vars, Typed
<1>4. CASE Tick
  <2>1. C!TypeOK'
    BY <1>4 DEF Tick, C!Tick, Typed, C!TypeOK
  <2> QED BY <1>2, <1>4, <2>1 DEF Tick, Typed
<1>5. CASE Receive
  BY <1>5, TypedReceive
<1>6. CASE Exit \/ SinkPanics
  <2>1. MainTyped'
    BY <1>6 DEF Exit, SinkPanics, Typed, MainTyped
  <2> QED BY <1>1, <1>6, <2>1 DEF Exit, SinkPanics, Typed
<1>7. ASSUME NEW ok \in BOOLEAN, SinkReturns(ok) PROVE Typed'
  <2>1. /\ alerts # <<>> /\ UNCHANGED <<daemon, raised>>
        /\ UNCHANGED classifierVars
        /\ \/ UNCHANGED <<alerts, outcome>>
           \/ alerts' = Tail(alerts) /\ outcome' \in {"ok", "failed"}
    BY <1>7 DEF SinkReturns, Dispatching, MoreSinks, LastSink
  <2>2. alerts \in Seq(C!Alert) /\ Len(alerts) <= Len(RuleOrder)
    BY DEF Typed, MainTyped
  <2>3. alerts' \in Seq(C!Alert) /\ Len(alerts') <= Len(RuleOrder)
    <3>1. CASE alerts' = alerts
      BY <2>2, <3>1
    <3>2. CASE alerts' = Tail(alerts)
      <4>1. alerts' \in Seq(C!Alert) /\ Len(alerts') = Len(alerts) - 1
        BY <2>1, <2>2, <3>2
      <4> QED BY <2>2, <4>1, RuleTable
    <3> QED BY <2>1, <3>1, <3>2
  <2> QED BY <1>1, <2>1, <2>3 DEF Typed, MainTyped
<1>8. CASE Restart
  <2>1. /\ now' = now
        /\ events' \in [C!Slots -> Seq(Nat)]
        /\ last_fired' \in [C!Slots -> Nat \cup {None}]
        /\ fired' = {}
    BY <1>8 DEF Restart
  <2>2. C!TypeOK'
    BY <2>1 DEF C!TypeOK, Typed
  <2>3. MainTyped'
    BY <1>8, NothingTyped DEF Restart, MainTyped
  <2> QED BY <2>2, <2>3 DEF Typed
<1> QED
  BY <1>3, <1>4, <1>5, <1>6, <1>7, <1>8 DEF Next

(***************************************************************************)
(* Every state of the daemon is well typed: the Vec never holds more       *)
(* alerts than there are rules, the index and the count of MultiSink       *)
(* never leave its list of sinks (alert/mod.rs:94-107), and the loop       *)
(* receives exactly while the receiver is open (main.rs:130).              *)
(***************************************************************************)
THEOREM TypeCorrect == Spec => []TypeOK
<1>1. Spec => []Typed
  <2>1. IInv /\ JP!IInv /\ Typed /\ [Next]_vars => Typed'
    BY TypedStep
  <2> QED BY <2>1, TypedInit, Together, PTL DEF Spec
<1>2. Spec => []Verdict
  BY VerdictInit, VerdictStep, Invariant, PTL DEF Spec
<1>3. IInv /\ JP!IInv /\ Leaving /\ Verdict /\ Typed => TypeOK
  <2> SUFFICES ASSUME IInv, JP!IInv, Leaving, Verdict, Typed PROVE TypeOK
    OBVIOUS
  <2>1. J!TypeOK
    BY DEF JP!IInv, JP!TypeOK, J!TypeOK, JP!Over, J!Over
  <2>2. sink \in 1..Len(Sinks) /\ DOMAIN offered = DOMAIN Sinks
    BY SinksListed, Zenon DEF IInv, Lists
  <2>3. failures \in 0..(sink - 1)
    BY DEF Verdict, Count
  <2> QED BY <2>1, <2>2, <2>3 DEF TypeOK, Typed, MainTyped, Leaving
<1> QED BY <1>1, <1>2, <1>3, Together, PTL

-----------------------------------------------------------------------------
(***************************************************************************)
(* Nothing that fired is lost on the way into the Vec.  The classifier     *)
(* returns at most one alert per rule, since an event has one key for each *)
(* rule it matches; so numbering the rules numbers the alerts.             *)
(***************************************************************************)
OnePerRule(as) ==
  /\ \A a \in as : a.rule \in C!Rules
  /\ \A a, b \in as : a.rule = b.rule => a = b

LEMMA VecHoldsAll ==
  ASSUME NEW as, OnePerRule(as)
  PROVE  LET vec == InRuleOrder(as)
         IN \A a : a \in as <=> \E k \in 1..Len(vec) : vec[k] = a
<1> DEFINE vec == InRuleOrder(as)
           P == Positions(as)
           c == Cardinality(P)
<1>1. /\ DOMAIN vec = 1..Len(vec)
      /\ \A k \in 1..Len(vec) : vec[k] \in as
  BY VecOfIngest
<1>2. vec = [k \in 1..c |-> AlertAt(as, k)]
  BY DEF InRuleOrder
<1>3. 1..Len(vec) = 1..c /\ \A k \in 1..c : vec[k] = AlertAt(as, k)
  BY <1>1, <1>2
<1>4. /\ Len(RuleOrder) \in Nat /\ P \in SUBSET (1..Len(RuleOrder))
      /\ Range(RuleOrder) = C!Rules /\ DOMAIN RuleOrder = 1..Len(RuleOrder)
  BY RuleTable, WatchtowerAssumption
<1>5. ASSUME NEW a \in as PROVE \E k \in 1..c : vec[k] = a
  <2>1. PICK i \in 1..Len(RuleOrder) : RuleOrder[i] = a.rule
    BY <1>4 DEF OnePerRule, Range
  <2>2. i \in P
    BY <2>1 DEF Positions
  <2> DEFINE k == Cardinality(UpTo(P, i))
  <2>3. k \in 1..c
    BY <1>4, <2>2, RankInRange
  <2>4. PICK j \in P : /\ AlertAt(as, k).rule = RuleOrder[j]
                       /\ Cardinality(UpTo(P, j)) = k
    BY <2>3, PlacesOfVec
  <2>5. i = j
    BY <1>4, <2>2, <2>4, RankInjective
  <2>6. AlertAt(as, k) \in as /\ AlertAt(as, k).rule = a.rule
    BY <2>1, <2>3, <2>4, <2>5, PlacesOfVec
  <2>7. AlertAt(as, k) = a
    BY <2>6 DEF OnePerRule
  <2> QED BY <1>3, <2>3, <2>7
<1> HIDE DEF vec, c
<1> QED BY <1>1, <1>3, <1>5 DEF vec

LEMMA FiredOnePerRule ==
  ASSUME C!TypeOK', NEW e, C!Ingest(e)
  PROVE  OnePerRule(fired')
<1>1. \A s \in C!SlotsOf(e) : s = [rule |-> s.rule, key |-> C!KeyOf(s.rule, e)]
  BY DEF C!SlotsOf
<1>2. ASSUME NEW a \in fired'
      PROVE  \E s \in C!SlotsOf(e) :
               a = C!MakeAlert(s, Len(C!Pushed(s)), e, now) /\ a.rule = s.rule
  BY DEF C!Ingest, C!MakeAlert
<1>3. ASSUME NEW a \in fired', NEW b \in fired', a.rule = b.rule PROVE a = b
  <2>1. PICK s \in C!SlotsOf(e) :
          a = C!MakeAlert(s, Len(C!Pushed(s)), e, now) /\ a.rule = s.rule
    BY <1>2
  <2>2. PICK x \in C!SlotsOf(e) :
          b = C!MakeAlert(x, Len(C!Pushed(x)), e, now) /\ b.rule = x.rule
    BY <1>2
  <2>3. s.rule = x.rule
    BY <1>3, <2>1, <2>2, Zenon
  <2>4. s = x
    BY <1>1, <2>3, Zenon
  <2> QED BY <2>1, <2>2, <2>4, Zenon
<1>4. \A a \in fired' : a.rule \in C!Rules
  BY DEF C!TypeOK, C!Alert
<1> QED BY <1>3, <1>4 DEF OnePerRule

(***************************************************************************)
(* What an entry fired is what it raises, and it goes to the sinks: no     *)
(* alert that ingest returned is left out, for every rule table, event and *)
(* order of the rules (main.rs:132-146).                                   *)
(***************************************************************************)
THEOREM FiredIsRaised ==
  Spec => [][ Receive =>
                \A a : a \in fired' <=>
                          \E k \in 1..Len(alerts') : alerts'[k] = a ]_vars
<1>1. ASSUME C!TypeOK', JP!IInv, Receive
      PROVE  \A a : a \in fired' <=>
                      \E k \in 1..Len(alerts') : alerts'[k] = a
  <2>1. alerts' = InRuleOrder(fired')
    BY <1>1 DEF Receive
  <2>2. OnePerRule(fired')
    <3>1. CASE ParseLine[Message(Head(channel))] = Unstructured
      BY <1>1, <3>1 DEF Receive, Ingest, C!IngestUnstructured, OnePerRule
    <3>2. CASE ParseLine[Message(Head(channel))] # Unstructured
      BY <1>1, <3>2, FiredOnePerRule DEF Receive, Ingest
    <3> QED BY <3>1, <3>2
  <2> QED BY <2>1, <2>2, VecHoldsAll
<1>2. TypeOK => C!TypeOK
  BY DEF TypeOK
<1> QED BY <1>1, <1>2, TypeCorrect, Together, PTL
=============================================================================
