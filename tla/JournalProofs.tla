--------------------------- MODULE JournalProofs ----------------------------
(***************************************************************************)
(* What the lines of a journal move, and what a set of journals nets to.   *)
(***************************************************************************)
EXTENDS Journal, SumsProofs

-----------------------------------------------------------------------------
(***************************************************************************)
(* What a journal moves.                                                   *)
(***************************************************************************)
\* What the lines of one journal move on one account in one currency.
LineMove(lines, a, c, i) ==
    IF lines[i].coa = a /\ lines[i].ccy = c THEN lines[i].debit - lines[i].credit ELSE 0
Move(lines, a, c) == Total([i \in DOMAIN lines |-> LineMove(lines, a, c, i)])

LEMMA LinesAreFinite ==
    ASSUME NEW lines \in Seq(Line)
    PROVE  /\ IsFiniteSet(DOMAIN lines)
           /\ \A i \in DOMAIN lines : /\ lines[i].coa \in Accounts
                                      /\ lines[i].ccy \in Currencies
                                      /\ lines[i].debit \in Int
                                      /\ lines[i].credit \in Int
<1>1. DOMAIN lines = 1..Len(lines) /\ Len(lines) \in Nat
  OBVIOUS
<1>2. IsFiniteSet(DOMAIN lines)
  BY <1>1, FS_Interval
<1>3. \A i \in DOMAIN lines : lines[i] \in Line
  BY <1>1
<1> QED
  BY <1>2, <1>3 DEF Line

LEMMA MoveIsInt ==
    ASSUME NEW lines \in Seq(Line), NEW a, NEW c
    PROVE  Move(lines, a, c) \in Int
<1> DEFINE f == [i \in DOMAIN lines |-> LineMove(lines, a, c, i)]
<1>1. DOMAIN f = DOMAIN lines /\ \A i \in DOMAIN f : f[i] \in Int
  BY LinesAreFinite DEF LineMove
<1>2. IsFiniteSet(DOMAIN f)
  BY <1>1, LinesAreFinite
<1> HIDE DEF f
<1>3. Total(f) \in Int
  BY <1>1, <1>2, TotalInt
<1> QED
  BY <1>3 DEF Move, f

\* The flipped lines are lines again.
LEMMA FlipIsLines ==
    ASSUME NEW lines \in Seq(Line)
    PROVE  /\ Flip(lines) \in Seq(Line)
           /\ Len(Flip(lines)) = Len(lines)
<1>1. lines \in [1..Len(lines) -> Line] /\ Len(lines) \in Nat
  OBVIOUS
<1>2. Flip(lines) \in [1..Len(lines) -> Line]
  BY <1>1 DEF Flip, Line
<1> QED
  BY <1>1, <1>2

\* Reversing twice gives the lines back.
LEMMA FlipTwice ==
    ASSUME NEW lines \in Seq(Line)
    PROVE  Flip(Flip(lines)) = lines
<1>1. lines \in [1..Len(lines) -> Line] /\ DOMAIN lines = 1..Len(lines)
  OBVIOUS
<1>2. ASSUME NEW i \in DOMAIN lines
      PROVE  Flip(Flip(lines))[i] = lines[i]
  BY <1>1 DEF Flip, Line
<1>3. Flip(Flip(lines)) = [i \in DOMAIN lines |-> Flip(Flip(lines))[i]]
  BY DEF Flip
<1> QED
  BY <1>1, <1>2, <1>3

LEMMA FlipMovesBack ==
    ASSUME NEW lines \in Seq(Line), NEW a, NEW c
    PROVE  Move(Flip(lines), a, c) = -Move(lines, a, c)
<1> DEFINE D == DOMAIN lines
           flip == Flip(lines)
           f == [i \in D |-> LineMove(lines, a, c, i)]
           h == [i \in DOMAIN flip |-> LineMove(flip, a, c, i)]
<1>1. /\ DOMAIN flip = D
      /\ \A i \in D : /\ flip[i].coa = lines[i].coa
                      /\ flip[i].ccy = lines[i].ccy
                      /\ flip[i].debit = lines[i].credit
                      /\ flip[i].credit = lines[i].debit
  BY DEF Flip
<1>2. IsFiniteSet(D) /\ \A i \in D : lines[i].debit \in Int /\ lines[i].credit \in Int
  BY LinesAreFinite
<1> HIDE DEF flip
<1>3. DOMAIN f = D /\ DOMAIN h = D
  BY <1>1
<1>4. ASSUME NEW i \in D PROVE f[i] \in Int /\ h[i] = -f[i]
  BY <1>1, <1>2 DEF LineMove
<1> HIDE DEF f, h
<1>5. Total(h) = -Total(f)
  BY <1>2, <1>3, <1>4, TotalNeg
<1> QED
  BY <1>5 DEF Move, f, h, flip

LEMMA NetOfOne ==
    ASSUME NEW js, NEW k, js[k].lines \in Seq(Line), NEW a, NEW c
    PROVE  NetOf(js, {k}, a, c) = Move(js[k].lines, a, c)
<1> DEFINE f == [i \in {k} |-> Move(js[i].lines, a, c)]
<1>1. f[k] = Move(js[k].lines, a, c) /\ DOMAIN f = {k} /\ f[k] \in Int
  BY MoveIsInt
<1>2. NetOf(js, {k}, a, c) = Total(f)
  BY DEF NetOf, Move, LineMove
<1> HIDE DEF f
<1> QED
  BY <1>1, <1>2, TotalOne

\* One more journal below a chain.
LEMMA NetOfMore ==
    ASSUME NEW js, NEW K, IsFiniteSet(K), NEW k, k \notin K,
           \A i \in K \cup {k} : js[i].lines \in Seq(Line), NEW a, NEW c
    PROVE  /\ NetOf(js, {k} \cup K, a, c) = Move(js[k].lines, a, c) + NetOf(js, K, a, c)
           /\ NetOf(js, K, a, c) \in Int
<1> DEFINE U == K \cup {k}
           f == [i \in U |-> Move(js[i].lines, a, c)]
           e == [i \in K |-> Move(js[i].lines, a, c)]
<1>1. \A i \in U : f[i] \in Int
  BY MoveIsInt
<1>2. DOMAIN f = U /\ DOMAIN e = K /\ \A i \in K : e[i] = f[i]
  OBVIOUS
<1>3. f[k] = Move(js[k].lines, a, c)
  OBVIOUS
<1>4. Total(f) = NetOf(js, U, a, c) /\ Total(e) = NetOf(js, K, a, c)
  BY DEF NetOf, Move, LineMove
<1> HIDE DEF f, e
<1>5. Total(f) = f[k] + Total(e)
  <2>1. DOMAIN f = K \cup {k} /\ \A i \in K \cup {k} : f[i] \in Int
    BY <1>1, <1>2
  <2>2. DOMAIN e = K /\ \A i \in K : e[i] = f[i]
    BY <1>2
  <2> QED
    BY <2>1, <2>2, TotalAdd
<1>6. Total(e) \in Int
  BY <1>1, <1>2, TotalInt
<1>7. {k} \cup K = U
  OBVIOUS
<1> QED
  BY <1>3, <1>4, <1>5, <1>6, <1>7

LEMMA TotalTwo ==
    ASSUME NEW f, NEW x, NEW y, x # y, DOMAIN f = {x, y}, f[x] \in Int, f[y] \in Int
    PROVE  Total(f) = f[x] + f[y]
<1> DEFINE S == {x}
           e == [z \in S |-> f[z]]
<1>1. IsFiniteSet(S)
  BY FS_Singleton, Zenon
<1>2. DOMAIN e = {x} /\ e[x] = f[x] /\ e[x] \in Int
  OBVIOUS
<1>3. Total(e) = f[x]
  <2> HIDE DEF e
  <2> QED
    BY <1>2, TotalOne
<1>4. /\ y \notin S /\ DOMAIN f = S \cup {y} /\ DOMAIN e = S
      /\ \A z \in S : e[z] = f[z]
  OBVIOUS
<1>5. \A z \in S \cup {y} : f[z] \in Int
  OBVIOUS
<1> HIDE DEF S, e
<1>6. Total(f) = f[y] + Total(e)
  BY <1>1, <1>4, <1>5, TotalAdd
<1> QED
  BY <1>3, <1>6

\* Two lines move what the one and the other move.
LEMMA MoveOfTwo ==
    ASSUME NEW lines \in Seq(Line), Len(lines) = 2, NEW a, NEW c
    PROVE  Move(lines, a, c) = LineMove(lines, a, c, 1) + LineMove(lines, a, c, 2)
<1> DEFINE f == [i \in DOMAIN lines |-> LineMove(lines, a, c, i)]
<1>1. DOMAIN lines = {1, 2}
  OBVIOUS
<1>2. \A i \in DOMAIN lines : LineMove(lines, a, c, i) \in Int
  BY LinesAreFinite DEF LineMove
<1>3. DOMAIN f = DOMAIN lines /\ \A i \in DOMAIN lines : f[i] = LineMove(lines, a, c, i)
  OBVIOUS
<1> HIDE DEF f
<1>4. /\ DOMAIN f = {1, 2} /\ f[1] \in Int /\ f[2] \in Int
      /\ f[1] = LineMove(lines, a, c, 1) /\ f[2] = LineMove(lines, a, c, 2)
  <2>1. 1 \in DOMAIN lines /\ 2 \in DOMAIN lines
    BY <1>1
  <2> QED
    BY <1>1, <1>2, <1>3, <2>1
<1>5. PICK x, y : x = 1 /\ y = 2
  OBVIOUS
<1>6. x # y /\ DOMAIN f = {x, y} /\ f[x] \in Int /\ f[y] \in Int
  BY <1>4, <1>5
<1>7. Total(f) = f[x] + f[y]
  BY <1>6, TotalTwo
<1> QED
  BY <1>4, <1>5, <1>7 DEF Move, f

\* A ledger with one more journal nets to what that journal moves on top of what
\* it netted to.
LEMMA NetOfAppended ==
    ASSUME NEW js, NEW row, NEW Row, js \in Seq(Row), row \in Row,
           \A r \in Row : r.lines \in Seq(Line), NEW a, NEW c
    PROVE  /\ NetOf(Append(js, row), DOMAIN Append(js, row), a, c)
                  = NetOf(js, DOMAIN js, a, c) + Move(row.lines, a, c)
           /\ NetOf(js, DOMAIN js, a, c) \in Int
<1> DEFINE more == Append(js, row)
           n == Len(js) + 1
           D == DOMAIN js
           f == [k \in D |-> Move(js[k].lines, a, c)]
           g == [k \in D |-> Move(more[k].lines, a, c)]
<1>1. /\ more \in Seq(Row) /\ DOMAIN more = {n} \cup D /\ n \notin D /\ more[n] = row
      /\ \A k \in D : more[k] = js[k]
      /\ D = 1..Len(js) /\ Len(js) \in Nat
  OBVIOUS
<1>2. IsFiniteSet(D)
  BY <1>1, FS_Interval
<1>3. \A k \in D \cup {n} : more[k].lines \in Seq(Line)
  <2>1. \A k \in DOMAIN more : more[k] \in Row
    BY <1>1
  <2> QED
    BY <1>1, <2>1
<1> HIDE DEF more, n
<1>4. /\ NetOf(more, {n} \cup D, a, c) = Move(more[n].lines, a, c) + NetOf(more, D, a, c)
      /\ NetOf(more, D, a, c) \in Int
  BY <1>1, <1>2, <1>3, NetOfMore
<1>5. NetOf(more, D, a, c) = NetOf(js, D, a, c)
  <2>1. DOMAIN f = D /\ DOMAIN g = D /\ \A k \in D : f[k] = g[k]
    BY <1>1
  <2>2. NetOf(js, D, a, c) = Total(f) /\ NetOf(more, D, a, c) = Total(g)
    BY DEF NetOf, Move, LineMove
  <2> HIDE DEF f, g, D
  <2>3. Total(f) = Total(g)
    BY <1>2, <2>1, TotalSame
  <2> QED
    BY <2>2, <2>3
<1>6. Move(row.lines, a, c) \in Int
  BY MoveIsInt
<1> QED
  BY <1>1, <1>4, <1>5, <1>6 DEF more
=============================================================================
