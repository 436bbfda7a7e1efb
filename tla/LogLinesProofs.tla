--------------------------- MODULE LogLinesProofs ---------------------------
(***************************************************************************)
(* What parse_line makes of the lines of the logger, for every record, and *)
(* with it what the classifier counts.                                     *)
(***************************************************************************)
EXTENDS LogLines, ClassifierProofs, SequenceTheorems

-----------------------------------------------------------------------------
(***************************************************************************)
(* The first match.                                                        *)
(***************************************************************************)
LEMMA MinIs ==
  ASSUME NEW S \in SUBSET Nat, NEW m \in S, \A x \in S : m <= x
  PROVE  Min(S) = m
<1>1. \A y \in S : (\A x \in S : y <= x) => y = m
  OBVIOUS
<1> QED
  BY <1>1 DEF Min

(* Where the parts of a line are: what precedes the step, the step, and    *)
(* the message.                                                            *)
Before(w) == Field("chain", w.chain) \o Field("rid", w.rid)

StepPart(w) == IF w.step = None THEN <<>> ELSE w.step

LEMMA Parts ==
  ASSUME NEW w, IsRecord(w)
  PROVE  /\ Before(w) \in Seq(Token) /\ Len(Before(w)) \in Nat
         /\ StepPart(w) \in Seq(Token) /\ w.message \in Seq(Token)
         /\ WrittenRest(w) = (Before(w) \o StepPart(w)) \o w.message
         /\ \A i \in DOMAIN Before(w) : Before(w)[i].field \in {"chain", "rid"}
         /\ w.chain = None =>
              \A i \in DOMAIN Before(w) : Before(w)[i].field = "rid"
         /\ w.chain # None =>
              /\ 1 \in DOMAIN Before(w)
              /\ Before(w)[1] = [field |-> "chain", text |-> w.chain]
<1>1. /\ w.chain # None => w.chain \in STRING \ {""}
      /\ w.rid # None => w.rid \in STRING
      /\ w.step # None => w.step \in Seq(Token)
      /\ w.message \in Seq(Token)
  BY DEF IsRecord
<1>2. StepPart(w) \in Seq(Token)
  <2>1. CASE w.step = None
    <3>1. StepPart(w) = <<>>
      BY <2>1 DEF StepPart
    <3> QED BY <3>1
  <2>2. CASE w.step # None
    BY <1>1, <2>2 DEF StepPart
  <2> QED BY <2>1, <2>2
<1>3. ASSUME NEW name \in {"chain", "rid"}, NEW v, v # None => v \in STRING
      PROVE  /\ Field(name, v) \in Seq(Token)
             /\ Len(Field(name, v)) = IF v = None THEN 0 ELSE 1
             /\ v # None => Field(name, v)[1] = [field |-> name, text |-> v]
  <2>1. CASE v = None
    <3>1. Field(name, v) = <<>>
      BY <2>1 DEF Field
    <3> QED BY <2>1, <3>1
  <2>2. CASE v # None
    <3> DEFINE t == [field |-> name, text |-> v]
    <3>1. t \in Token
      BY <1>3, <2>2 DEF Token
    <3>2. Field(name, v) = <<t>>
      BY <2>2 DEF Field
    <3> HIDE DEF t
    <3>3. <<t>> \in Seq(Token) /\ Len(<<t>>) = 1 /\ <<t>>[1] = t
      BY <3>1
    <3> QED BY <2>2, <3>2, <3>3 DEF t
  <2> QED BY <2>1, <2>2
<1> DEFINE c == Field("chain", w.chain)
           r == Field("rid", w.rid)
<1>4. /\ c \in Seq(Token) /\ Len(c) = IF w.chain = None THEN 0 ELSE 1
      /\ w.chain # None => c[1] = [field |-> "chain", text |-> w.chain]
  BY <1>1, <1>3
<1>5. /\ r \in Seq(Token) /\ Len(r) = IF w.rid = None THEN 0 ELSE 1
      /\ w.rid # None => r[1] = [field |-> "rid", text |-> w.rid]
  BY <1>1, <1>3
<1>6. Before(w) = c \o r
  BY DEF Before
<1>7. /\ Before(w) \in Seq(Token) /\ Len(Before(w)) = Len(c) + Len(r)
      /\ DOMAIN Before(w) = 1..(Len(c) + Len(r))
      /\ \A i \in 1..(Len(c) + Len(r)) :
           Before(w)[i] = IF i <= Len(c) THEN c[i] ELSE r[i - Len(c)]
  <2> HIDE DEF c, r
  <2> QED BY <1>4, <1>5, <1>6, ConcatProperties
<1>8. \A i \in 1..(Len(c) + Len(r)) :
        \/ w.chain # None /\ i = 1
             /\ Before(w)[i] = [field |-> "chain", text |-> w.chain]
        \/ Before(w)[i] = [field |-> "rid", text |-> w.rid]
  <2> HIDE DEF c, r
  <2> QED BY <1>4, <1>5, <1>7
<1>9. /\ \A i \in DOMAIN Before(w) : Before(w)[i].field \in {"chain", "rid"}
      /\ w.chain = None =>
           \A i \in DOMAIN Before(w) : Before(w)[i].field = "rid"
  <2> HIDE DEF c, r
  <2> QED BY <1>7, <1>8
<1>10. w.chain # None =>
         /\ 1 \in DOMAIN Before(w)
         /\ Before(w)[1] = [field |-> "chain", text |-> w.chain]
  <2> HIDE DEF c, r
  <2> QED BY <1>4, <1>5, <1>7
<1>11. WrittenRest(w) = (Before(w) \o StepPart(w)) \o w.message
  BY DEF WrittenRest, Before, StepPart
<1>12. Before(w) \in Seq(Token) /\ Len(Before(w)) \in Nat
  <2>1. Len(c) \in Nat /\ Len(r) \in Nat
    BY <1>4, <1>5
  <2> QED BY <1>7, <2>1
<1> QED
  BY <1>1, <1>2, <1>9, <1>10, <1>11, <1>12, Zenon

LEMMA Layout ==
  ASSUME NEW w, IsRecord(w)
  PROVE  /\ WrittenRest(w) \in Seq(Token)
         /\ DOMAIN WrittenRest(w)
              = 1..(Len(Before(w)) + Len(StepPart(w)) + Len(w.message))
         /\ \A i \in DOMAIN WrittenRest(w) :
              WrittenRest(w)[i] =
                IF i <= Len(Before(w)) THEN Before(w)[i]
                ELSE IF i <= Len(Before(w)) + Len(StepPart(w))
                     THEN StepPart(w)[i - Len(Before(w))]
                     ELSE w.message[i - Len(Before(w)) - Len(StepPart(w))]
<1> DEFINE b == Before(w)
           st == StepPart(w)
           m == w.message
<1>1. b \in Seq(Token) /\ st \in Seq(Token) /\ m \in Seq(Token)
        /\ WrittenRest(w) = (b \o st) \o m
  BY Parts
<1> HIDE DEF b, st, m
<1>2. /\ b \o st \in Seq(Token) /\ Len(b \o st) = Len(b) + Len(st)
      /\ \A i \in 1..(Len(b) + Len(st)) :
           (b \o st)[i] = IF i <= Len(b) THEN b[i] ELSE st[i - Len(b)]
  BY <1>1, ConcatProperties
<1> DEFINE bs == b \o st
<1> HIDE DEF bs
<1>3. /\ bs \o m \in Seq(Token) /\ Len(bs \o m) = Len(bs) + Len(m)
      /\ \A i \in 1..(Len(bs) + Len(m)) :
           (bs \o m)[i] = IF i <= Len(bs) THEN bs[i] ELSE m[i - Len(bs)]
  BY <1>1, <1>2, ConcatProperties DEF bs
<1>4. Len(b) \in Nat /\ Len(st) \in Nat /\ Len(m) \in Nat /\ Len(bs) = Len(b) + Len(st)
  BY <1>1, <1>2 DEF bs
<1>5. DOMAIN (bs \o m) = 1..(Len(b) + Len(st) + Len(m))
  BY <1>3, <1>4
<1>6. \A i \in 1..(Len(b) + Len(st) + Len(m)) :
        (bs \o m)[i] = IF i <= Len(b) THEN b[i]
                       ELSE IF i <= Len(b) + Len(st) THEN st[i - Len(b)]
                            ELSE m[i - Len(b) - Len(st)]
  <2> TAKE i \in 1..(Len(b) + Len(st) + Len(m))
  <2>1. CASE i <= Len(bs)
    BY <1>2, <1>3, <1>4, <2>1 DEF bs
  <2>2. CASE i > Len(bs)
    <3>1. (bs \o m)[i] = m[i - Len(bs)]
      BY <1>3, <1>4, <2>2
    <3>2. i - Len(bs) = i - Len(b) - Len(st)
      BY <1>4
    <3> QED BY <1>4, <2>2, <3>1, <3>2
  <2> QED BY <1>4, <2>1, <2>2
<1>7. WrittenRest(w) = bs \o m
  BY <1>1 DEF bs
<1> QED
  BY <1>3, <1>5, <1>6, <1>7 DEF b, st, m

(* Which part a token of the line belongs to.                              *)
LEMMA Places ==
  ASSUME NEW w, IsRecord(w), NEW i \in DOMAIN WrittenRest(w)
  PROVE  /\ i \in Nat /\ i >= 1
         /\ \/ i \in DOMAIN Before(w) /\ WrittenRest(w)[i] = Before(w)[i]
            \/ /\ i > Len(Before(w)) /\ i <= Len(Before(w)) + Len(StepPart(w))
               /\ i - Len(Before(w)) \in DOMAIN StepPart(w)
               /\ WrittenRest(w)[i] = StepPart(w)[i - Len(Before(w))]
            \/ /\ i > Len(Before(w)) + Len(StepPart(w))
               /\ \E j \in DOMAIN w.message : WrittenRest(w)[i] = w.message[j]
<1> DEFINE rest == WrittenRest(w)
           b == Before(w)
           st == StepPart(w)
           m == w.message
<1>1. /\ DOMAIN rest = 1..(Len(b) + Len(st) + Len(m))
      /\ rest[i] = IF i <= Len(b) THEN b[i]
                   ELSE IF i <= Len(b) + Len(st) THEN st[i - Len(b)]
                        ELSE m[i - Len(b) - Len(st)]
  BY Layout
<1>2. b \in Seq(Token) /\ st \in Seq(Token) /\ m \in Seq(Token)
  BY Parts
<1>3. i \in DOMAIN rest
  OBVIOUS
<1> HIDE DEF rest, b, st, m
<1>4. /\ Len(b) \in Nat /\ Len(st) \in Nat /\ Len(m) \in Nat
      /\ DOMAIN b = 1..Len(b) /\ DOMAIN st = 1..Len(st) /\ DOMAIN m = 1..Len(m)
  BY <1>2
<1>5. i \in Nat /\ i >= 1 /\ i <= Len(b) + Len(st) + Len(m)
  BY <1>1, <1>3, <1>4
<1>6. CASE i <= Len(b)
  BY <1>1, <1>4, <1>5, <1>6 DEF rest, b, st, m
<1>7. CASE i > Len(b) /\ i <= Len(b) + Len(st)
  <2>1. i - Len(b) \in DOMAIN st /\ rest[i] = st[i - Len(b)]
    BY <1>1, <1>4, <1>5, <1>7
  <2> QED BY <1>5, <1>7, <2>1 DEF rest, b, st, m
<1>8. CASE i > Len(b) + Len(st)
  <2>1. i - Len(b) - Len(st) \in DOMAIN m /\ rest[i] = m[i - Len(b) - Len(st)]
    BY <1>1, <1>4, <1>5, <1>8
  <2> QED BY <1>5, <1>8, <2>1 DEF rest, b, st, m
<1> QED
  BY <1>4, <1>5, <1>6, <1>7, <1>8

(* The chain comes first.                                                  *)
LEMMA ChainPlace ==
  ASSUME NEW w, IsRecord(w), w.chain # None
  PROVE  /\ 1 \in DOMAIN WrittenRest(w)
         /\ WrittenRest(w)[1] = [field |-> "chain", text |-> w.chain]
<1>1. /\ 1 \in DOMAIN Before(w) /\ Before(w) \in Seq(Token)
      /\ StepPart(w) \in Seq(Token) /\ w.message \in Seq(Token)
      /\ Before(w)[1] = [field |-> "chain", text |-> w.chain]
  BY Parts
<1>2. /\ Len(Before(w)) \in Nat /\ Len(Before(w)) >= 1
      /\ Len(StepPart(w)) \in Nat /\ Len(w.message) \in Nat
  BY <1>1
<1>3. 1 \in DOMAIN WrittenRest(w)
  <2>1. ASSUME NEW a \in Nat, NEW b \in Nat, NEW c \in Nat, a >= 1
        PROVE  1 \in 1..(a + b + c)
    BY <2>1
  <2>2. 1 \in 1..(Len(Before(w)) + Len(StepPart(w)) + Len(w.message))
    BY <1>2, <2>1
  <2> QED BY <2>2, Layout
<1>4. WrittenRest(w)[1] = Before(w)[1]
  BY <1>2, <1>3, Layout
<1> QED
  BY <1>1, <1>3, <1>4

-----------------------------------------------------------------------------
(***************************************************************************)
(* The fields of a legible record are found again.                         *)
(***************************************************************************)
LEMMA ChainIsFound ==
  ASSUME NEW w, IsRecord(w), Legible(w)
  PROVE  Chain(WrittenRest(w)) = w.chain
<1>1. /\ Assigns("chain", WrittenRest(w)) \in SUBSET Nat
      /\ \A i \in Assigns("chain", WrittenRest(w)) : 1 <= i
  BY Places DEF Assigns
<1>2. CASE w.chain # None
  <2>1. w.chain # ""
    BY <1>2 DEF IsRecord
  <2> DEFINE rest == WrittenRest(w)
  <2>5. 1 \in DOMAIN rest /\ rest[1] = [field |-> "chain", text |-> w.chain]
    BY <1>2, ChainPlace
  <2>6. rest[1].field = "chain" /\ rest[1].text = w.chain
    BY <2>5
  <2>2. 1 \in Assigns("chain", rest)
    BY <2>1, <2>5, <2>6 DEF Assigns, Gives
  <2>3. Min(Assigns("chain", rest)) = 1
    BY <1>1, <2>2, MinIs
  <2>4. Assigns("chain", rest) # {}
    BY <2>2
  <2> HIDE DEF rest
  <2>7. Chain(rest) = rest[1].text
    BY <2>3, <2>4 DEF Chain
  <2> QED BY <2>6, <2>7 DEF rest
<1>3. CASE w.chain = None
  <2>1. \A i \in DOMAIN WrittenRest(w) : WrittenRest(w)[i].field # "chain"
    <3> SUFFICES ASSUME NEW i \in DOMAIN WrittenRest(w)
                 PROVE  WrittenRest(w)[i].field # "chain"
      OBVIOUS
    <3>1. ASSUME NEW j \in DOMAIN Before(w) PROVE Before(w)[j].field # "chain"
      BY <1>3, Parts
    <3>2. ASSUME NEW j \in DOMAIN StepPart(w)
          PROVE  StepPart(w)[j].field # "chain"
      <4>1. w.step # None
        BY <3>2 DEF StepPart
      <4>2. WrittenStep(w.step) /\ w.step \in Seq(Token)
        BY <4>1 DEF Legible, WrittenStep
      <4>6. j \in 1..Len(w.step)
        BY <3>2, <4>1, <4>2 DEF StepPart
      <4>3. CASE j = 1
        BY <4>1, <4>2, <4>3 DEF StepPart, WrittenStep, Gives
      <4>4. CASE j \in 2..(Len(w.step) - 1)
        BY <4>1, <4>2, <4>4 DEF StepPart, WrittenStep
      <4>7. CASE j = Len(w.step)
        BY <4>1, <4>2, <4>7 DEF StepPart, WrittenStep, IsFragment
      <4>5. Len(w.step) \in Nat
        BY <4>2
      <4> QED BY <4>3, <4>4, <4>5, <4>6, <4>7
    <3>3. ASSUME NEW j \in DOMAIN w.message PROVE w.message[j].field # "chain"
      BY <1>3 DEF Legible, Mentions
    <3> QED BY <3>1, <3>2, <3>3, Places
  <2>2. Assigns("chain", WrittenRest(w)) = {}
    BY <2>1 DEF Assigns, Gives
  <2> QED BY <1>3, <2>2 DEF Chain
<1> QED
  BY <1>2, <1>3

(***************************************************************************)
(* The lazy repetition cuts a step of the logger out of the line exactly,  *)
(* wherever in the line it is and whatever follows it.                     *)
(***************************************************************************)
LEMMA StepIsCutOut ==
  ASSUME NEW rest \in Seq(Token), NEW b \in Nat, NEW n \in Nat,
         NEW st \in Seq(Token), NEW L \in Nat, L >= 2, Len(st) = L,
         Gives(st[1], "step"), IsFragment(st[L]),
         \A i \in 2..(L - 1) : ~IsFragment(st[i]),
         DOMAIN rest = 1..(b + L + n),
         \A i \in 1..L : rest[b + i] = st[i],
         \A i \in 1..b : ~Gives(rest[i], "step")
  PROVE  Step(rest) = Text(st)
<1>1. PICK p \in Nat, last \in Nat : p = b + 1 /\ last = b + L
  OBVIOUS
<1>2. p \in DOMAIN rest /\ last \in DOMAIN rest /\ p < last
  BY <1>1
<1>3. last \in Ends(p, rest)
  <2>1. rest[last] = st[L] /\ L \in 2..L
    BY <1>1
  <2> QED BY <1>2, <2>1 DEF Ends
<1>4. \A k \in Ends(p, rest) : last <= k
  <2> SUFFICES ASSUME NEW k \in DOMAIN rest, p < k, k < last,
                      IsFragment(rest[k])
               PROVE  FALSE
    BY <1>1 DEF Ends
  <2>1. PICK i \in 2..(L - 1) : k = b + i
    <3>1. k \in Nat
      OBVIOUS
    <3>2. k - b \in 2..(L - 1) /\ k = b + (k - b)
      BY <1>1, <3>1
    <3> QED BY <3>2
  <2>2. i \in 1..L
    OBVIOUS
  <2>3. rest[k] = st[i]
    BY <2>1, <2>2
  <2> QED BY <2>1, <2>3
<1>5. Ends(p, rest) \in SUBSET Nat
  BY DEF Ends
<1>6. Min(Ends(p, rest)) = last
  BY <1>3, <1>4, <1>5, MinIs
<1> DEFINE at == { i \in Assigns("step", rest) : Ends(i, rest) # {} }
<1>7. p \in at
  <2>1. rest[p] = st[1]
    BY <1>1
  <2>2. p \in Assigns("step", rest)
    BY <1>2, <2>1 DEF Assigns
  <2>3. Ends(p, rest) # {}
    BY <1>3
  <2> QED BY <2>2, <2>3
<1>8. \A i \in at : i \in Nat /\ p <= i
  <2> SUFFICES ASSUME NEW i \in DOMAIN rest, Gives(rest[i], "step")
               PROVE  i \in Nat /\ p <= i
    BY DEF Assigns
  <2>1. i \in Nat /\ i >= 1 /\ i \notin 1..b
    OBVIOUS
  <2> QED BY <1>1, <2>1
<1>9. at \in SUBSET Nat
  BY <1>8
<1>10. Min(at) = p
  <2> HIDE DEF at
  <2> QED BY <1>7, <1>8, <1>9, MinIs
<1>11. StepSpan(p, rest) = st
  <2> DEFINE cut == SubSeq(rest, p, last)
  <2>1. \A i \in p..last : rest[i] \in Token
    <3> TAKE i \in p..last
    <3>1. i \in DOMAIN rest
      BY <1>1
    <3> QED BY <3>1
  <2>2. (last - p) + 1 = L /\ p <= last /\ p \in Int /\ last \in Int
    BY <1>1
  <2>3. /\ cut \in Seq(Token)
        /\ Len(cut) = L
        /\ \A i \in 1..L : cut[i] = rest[p + i - 1]
    BY <2>1, <2>2, SubSeqProperties
  <2>4. \A i \in 1..L : rest[p + i - 1] = st[i]
    <3> TAKE i \in 1..L
    <3>1. p + i - 1 = b + i
      BY <1>1
    <3> QED BY <3>1
  <2>5. cut = st
    <3> HIDE DEF cut
    <3>1. \A i \in 1..Len(cut) : cut[i] = st[i]
      BY <2>3, <2>4
    <3> QED BY <2>3, <3>1, SeqEqual
  <2> QED BY <1>6, <2>5 DEF StepSpan
<1>12. Step(rest) = Text(StepSpan(p, rest))
  BY <1>7, <1>10 DEF Step
<1> QED
  BY <1>11, <1>12

LEMMA StepIsFound ==
  ASSUME NEW w, IsRecord(w), Legible(w)
  PROVE  Step(WrittenRest(w)) = IF w.step = None THEN None ELSE Text(w.step)
<1> DEFINE rest == WrittenRest(w)
<1>1. ASSUME NEW j \in DOMAIN Before(w) PROVE Before(w)[j].field # "step"
  BY Parts
<1>2. CASE w.step = None
  <2>1. StepPart(w) = <<>>
    BY <1>2 DEF StepPart
  <2>2. ASSUME NEW j \in DOMAIN w.message PROVE w.message[j].field # "step"
    BY <1>2 DEF Legible, Mentions
  <2>3. \A i \in DOMAIN rest : rest[i].field # "step"
    BY <1>1, <2>1, <2>2, Places
  <2>4. { i \in Assigns("step", rest) : Ends(i, rest) # {} } = {}
    BY <2>3 DEF Assigns, Gives
  <2> HIDE DEF rest
  <2>5. Step(rest) = None
    BY <2>4 DEF Step
  <2> QED BY <1>2, <2>5 DEF rest
<1>3. CASE w.step # None
  <2>1. StepPart(w) = w.step /\ WrittenStep(w.step)
    BY <1>3 DEF StepPart, Legible
  <2> DEFINE b == Before(w)
             st == StepPart(w)
             m == w.message
  <2>2. b \in Seq(Token) /\ st \in Seq(Token) /\ m \in Seq(Token)
    BY Parts
  <2>3. /\ rest \in Seq(Token)
        /\ DOMAIN rest = 1..(Len(b) + Len(st) + Len(m))
        /\ \A i \in DOMAIN rest :
             rest[i] = IF i <= Len(b) THEN b[i]
                       ELSE IF i <= Len(b) + Len(st) THEN st[i - Len(b)]
                            ELSE m[i - Len(b) - Len(st)]
    BY Layout
  <2>4. \A i \in DOMAIN b : ~Gives(b[i], "step")
    BY <1>1 DEF Gives
  <2>5. WrittenStep(st)
    BY <2>1
  <2> HIDE DEF rest, b, st, m
  <2>6. Len(b) \in Nat /\ Len(st) \in Nat /\ Len(m) \in Nat /\ DOMAIN b = 1..Len(b)
    BY <2>2
  <2>7. \A i \in 1..Len(b) : ~Gives(rest[i], "step")
    <3> TAKE i \in 1..Len(b)
    <3>1. i \in DOMAIN rest /\ i <= Len(b)
      BY <2>3, <2>6
    <3> QED BY <2>3, <2>4, <2>6, <3>1
  <2>8. \A i \in 1..Len(st) : rest[Len(b) + i] = st[i]
    <3> TAKE i \in 1..Len(st)
    <3> DEFINE k == Len(b) + i
    <3>1. k \in DOMAIN rest /\ k > Len(b) /\ k <= Len(b) + Len(st)
            /\ k - Len(b) = i
      BY <2>3, <2>6
    <3> HIDE DEF k
    <3>2. rest[k] = st[k - Len(b)]
      BY <2>3, <2>6, <3>1
    <3> QED BY <3>1, <3>2 DEF k
  <2>9. Step(rest) = Text(st)
    <3>1. /\ Len(st) >= 2 /\ Gives(st[1], "step") /\ IsFragment(st[Len(st)])
          /\ \A i \in 2..(Len(st) - 1) : ~IsFragment(st[i])
      BY <2>5 DEF WrittenStep
    <3> QED BY <2>2, <2>3, <2>6, <2>7, <2>8, <3>1, StepIsCutOut
  <2> QED BY <1>3, <2>1, <2>9 DEF rest, st
<1> QED
  BY <1>2, <1>3

LEMMA ParseIsNamed ==
  ASSUME NEW w, IsRecord(w), Legible(w)
  PROVE  ParseLine(WrittenLine(w)) = Named(w, Rejects(WrittenRest(w)))
<1>1. w.level # None
  BY DEF Legible
<1>2. /\ WrittenLine(w).level = w.level
      /\ WrittenLine(w).rest = WrittenRest(w)
  BY DEF WrittenLine
<1>3. ParseLine(WrittenLine(w)) =
        [level |-> LevelOf(w.level), chain |-> Chain(WrittenRest(w)),
         step |-> Step(WrittenRest(w)), reject |-> Rejects(WrittenRest(w))]
  BY <1>1, <1>2 DEF ParseLine
<1> QED
  BY <1>3, ChainIsFound, StepIsFound DEF Named

-----------------------------------------------------------------------------
(***************************************************************************)
(* A legible record counts under its own level, chain and step, and its    *)
(* text decides at most whether the reject rule counts it too: for every   *)
(* set of records, of fragments and of rejecting texts, and all rules      *)
(* (parse.rs:112-158 with classify.rs:177-191).                            *)
(***************************************************************************)
THEOREM LinesCountAsNamed == LSpec => CountedAsNamed
<1> DEFINE Counted ==
      heard' # heard /\ Legible(line') =>
        \E reject \in BOOLEAN : \A s \in Slots :
          arrivals'[s] = IF s \in SlotsOf(Named(line', reject))
                         THEN Append(arrivals[s], now) ELSE arrivals[s]
<1>1. ASSUME NEW w \in Records, IngestLine(w)
      PROVE  Counted
  <2> DEFINE r == Rejects(WrittenRest(w))
  <2> SUFFICES ASSUME Legible(w)
               PROVE  \E reject \in BOOLEAN : \A s \in Slots :
                        arrivals'[s] = IF s \in SlotsOf(Named(w, reject))
                                       THEN Append(arrivals[s], now)
                                       ELSE arrivals[s]
    BY <1>1 DEF IngestLine
  <2>1. ParseLine(WrittenLine(w)) = Named(w, r)
    BY ParseIsNamed, RecordsAssumption
  <2>2. ParseLine(WrittenLine(w)) # Unstructured
    BY RecordsAssumption DEF Legible
  <2>3. HIngest(Named(w, r))
    BY <1>1, <2>1, <2>2 DEF IngestLine
  <2>4. r \in BOOLEAN
    BY DEF Rejects
  <2> HIDE DEF r
  <2> WITNESS r \in BOOLEAN
  <2> QED BY <2>3 DEF HIngest
<1>2. [LNext]_lineVars => Counted
  <2>1. CASE heard' = heard
    BY <2>1
  <2>2. ASSUME [LNext]_lineVars, heard' # heard
        PROVE  \E w \in Records : IngestLine(w)
    BY <2>2 DEF LNext, lineVars
  <2> HIDE DEF Counted
  <2>3. heard' = heard => Counted
    BY DEF Counted
  <2> QED BY <1>1, <2>2, <2>3
<1> QED
  BY <1>2, PTL DEF LSpec, CountedAsNamed

(***************************************************************************)
(* The cooldown holds for what the services log as it does for events.     *)
(***************************************************************************)
THEOREM LinesSpaceAlarms == LSpec => []AlarmsSpaced
<1>1. LInit => HInit
  BY DEF LInit
<1>2. [LNext]_lineVars => [HNextStepped]_historyVars
  <2>1. ASSUME NEW w \in Records, IngestLine(w) PROVE HNextStepped
    <3>1. CASE ParseLine(WrittenLine(w)) = Unstructured
      BY <2>1, <3>1 DEF IngestLine, HNextStepped, HNext
    <3>2. CASE ParseLine(WrittenLine(w)) # Unstructured
      <4>1. ParseLine(WrittenLine(w)) \in Events
        BY <3>2, RecordsAssumption DEF ParseLine, WrittenLine
      <4>2. HIngest(ParseLine(WrittenLine(w)))
        BY <2>1, <3>2 DEF IngestLine
      <4> QED BY <4>1, <4>2 DEF HNextStepped, HNext
    <3> QED BY <3>1, <3>2
  <2>2. ASSUME HOther(Tick \/ SetClockBack) PROVE HNextStepped
    BY <2>2 DEF HOther, HNextStepped, HNext
  <2>3. UNCHANGED lineVars => UNCHANGED historyVars
    BY DEF lineVars
  <2> QED BY <2>1, <2>2, <2>3 DEF LNext
<1> QED
  BY <1>1, <1>2, CooldownHolds, PTL DEF LSpec, HSpecStepped
=============================================================================
