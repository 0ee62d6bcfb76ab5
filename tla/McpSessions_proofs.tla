------------------------- MODULE McpSessions_proofs -------------------------
(***************************************************************************)
(* What McpSessions promises, for any number of sessions and requests, any *)
(* calls, rows and capacities: streams carry every answer once, and the    *)
(* answers to queries are as new as the table they are read from.          *)
(***************************************************************************)
EXTENDS McpSessions, FiniteSetTheorems, SequenceTheorems, WellFoundedInduction, TLAPS

-----------------------------------------------------------------------------
(* Sets of rows                                                            *)

(* A set of natural numbers that is not empty has a least element.         *)
LEMMA Least ==
  ASSUME NEW S \in SUBSET Nat, S # {}
  PROVE  \E m \in S : \A x \in S : m <= x
<1> DEFINE R == OpToRel(<, Nat)
<1>1. IsWellFoundedOn(R, Nat)
  BY NatLessThanWellFounded
<1>2. \A x, y \in Nat : <<x, y>> \in R <=> x < y
  BY DEF OpToRel
<1> HIDE DEF R
<1>3. PICK m \in S : \A y \in S : <<y, m>> \notin R
  BY <1>1, WFMin
<1>4. \A y \in S : y \in Nat /\ m \in Nat /\ ~(y < m)
  BY <1>2, <1>3
<1> QED BY <1>4

(* A set of rows that is not empty has a newest one.                       *)
LEMMA Newest ==
  ASSUME NEW n \in Nat, NEW S \in SUBSET (1..n), S # {}
  PROVE  \E m \in S : \A x \in S : x <= m
<1> DEFINE T == {n - x : x \in S}
<1>1. T \in SUBSET Nat /\ T # {}
  <2>1. \A x \in S : x \in 1..n /\ n - x \in Nat /\ n - x \in T
    OBVIOUS
  <2> QED BY <2>1
<1>2. PICK t \in T : \A u \in T : t <= u
  BY <1>1, Least
<1>3. PICK m \in S : t = n - m
  OBVIOUS
<1>4. \A x \in S : n - m <= n - x
  BY <1>2, <1>3
<1>5. \A x \in S : x <= m
  BY <1>4
<1> QED BY <1>5

Above(S, i) == {j \in S : j > i}

Top(S, n) == {i \in S : Cardinality(Above(S, i)) < n}

(* The rows above an older one are more.                                   *)
LEMMA AboveGrows ==
  ASSUME NEW n \in Nat, NEW S \in SUBSET (1..n), NEW i \in S, NEW j \in S
  PROVE  /\ IsFiniteSet(S) /\ IsFiniteSet(Above(S, i)) /\ Cardinality(Above(S, i)) \in Nat
         /\ i < j => Cardinality(Above(S, j)) + 1 <= Cardinality(Above(S, i))
<1>1. IsFiniteSet(1..n)
  BY FS_Interval
<1>2. IsFiniteSet(S) /\ Above(S, i) \in SUBSET S /\ Above(S, j) \in SUBSET S
  BY <1>1, FS_Subset DEF Above
<1>3. /\ IsFiniteSet(Above(S, i)) /\ Cardinality(Above(S, i)) \in Nat
      /\ IsFiniteSet(Above(S, j)) /\ Cardinality(Above(S, j)) \in Nat
  BY <1>2, FS_Subset, FS_CardinalityType
<1>4. ASSUME i < j PROVE Cardinality(Above(S, j)) + 1 <= Cardinality(Above(S, i))
  <2> DEFINE T == Above(S, j) \cup {j}
  <2>1. j \notin Above(S, j) /\ T \in SUBSET Above(S, i)
    <3>1. \A x \in S : x \in Nat
      OBVIOUS
    <3>2. j \notin Above(S, j) /\ j \in Above(S, i)
      BY <3>1, <1>4 DEF Above
    <3>3. \A x \in Above(S, j) : x \in Above(S, i)
      BY <3>1, <1>4 DEF Above
    <3> QED BY <3>2, <3>3
  <2>2. Cardinality(T) = Cardinality(Above(S, j)) + 1
    BY <2>1, <1>3, FS_AddElement
  <2> HIDE DEF T
  <2> QED BY <2>1, <2>2, <1>3, FS_Subset
<1> QED BY <1>2, <1>3, <1>4

(* The n newest of at least n rows are n.                                  *)
LEMMA TopHolds ==
  ASSUME NEW last \in Nat, NEW S \in SUBSET (1..last)
  PROVE  \A n \in Nat : Cardinality(S) >= n => Cardinality(Top(S, n)) = n
<1> DEFINE Bad == {n \in Nat : Cardinality(S) >= n /\ Cardinality(Top(S, n)) # n}
<1> SUFFICES ASSUME Bad # {} PROVE FALSE
  OBVIOUS
<1>1. PICK m \in Nat :
        /\ Cardinality(S) >= m /\ Cardinality(Top(S, m)) # m
        /\ \A n \in Nat : Cardinality(S) >= n /\ Cardinality(Top(S, n)) # n => m <= n
  <2>1. PICK m \in Bad : \A x \in Bad : m <= x
    <3>1. Bad \in SUBSET Nat
      OBVIOUS
    <3> HIDE DEF Bad
    <3> QED BY <3>1, Least
  <2> QED BY <2>1
<1> HIDE DEF Bad
<1>2. IsFiniteSet(S) /\ Cardinality(S) \in Nat
  <2>1. IsFiniteSet(1..last)
    BY FS_Interval
  <2>2. IsFiniteSet(S)
    BY <2>1, FS_Subset
  <2> QED BY <2>2, FS_CardinalityType
<1>3. \A i \in S : Cardinality(Above(S, i)) \in Nat /\ i \in Nat
  <2>1. \A i \in S : Cardinality(Above(S, i)) \in Nat
    BY AboveGrows
  <2> QED BY <2>1
<1>4. m # 0
  <2>1. \A i \in S : ~(Cardinality(Above(S, i)) < 0)
    BY <1>3
  <2>2. Top(S, 0) = {}
    BY <2>1 DEF Top
  <2> QED BY <2>2, <1>1, FS_EmptySet
<1> DEFINE k == m - 1
           old == Top(S, k)
           rest == S \ old
<1>5. k \in Nat /\ m = k + 1 /\ Cardinality(Top(S, k)) = k /\ Cardinality(S) > k
  BY <1>1, <1>2, <1>4
<1>6. old \in SUBSET S /\ Cardinality(old) = k /\ IsFiniteSet(old)
  <2>1. old \in SUBSET S
    BY DEF Top
  <2> QED BY <2>1, <1>2, <1>5, FS_Subset
<1>7. rest # {} /\ rest \in SUBSET (1..last)
  <2>1. old # S
    BY <1>5, <1>6
  <2> QED BY <2>1, <1>6
<1>8. PICK g \in rest : \A x \in rest : x <= g
  <2> HIDE DEF rest
  <2> QED BY <1>7, Newest
<1>9. Cardinality(Above(S, g)) >= k
  BY <1>8, <1>3, <1>5 DEF Top
<1>10. Above(S, g) = old
  <2>1. ASSUME NEW j \in S, j > g PROVE j \in old
    BY <2>1, <1>8
  <2>2. ASSUME NEW j \in old PROVE j > g
    <3>1. j \in S /\ g \in S /\ j # g /\ Cardinality(Above(S, j)) < k
      BY <2>2, <1>8 DEF Top
    <3>2. ~(j < g)
      <4>1. j < g => Cardinality(Above(S, g)) + 1 <= Cardinality(Above(S, j))
        BY <3>1, AboveGrows
      <4> HIDE DEF k
      <4> QED BY <4>1, <3>1, <1>3, <1>5, <1>9
    <3> QED BY <3>1, <3>2
  <2> QED BY <2>1, <2>2, <1>6 DEF Above
<1>11. Top(S, m) = old \cup {g}
  <2>1. ASSUME NEW x \in Top(S, m), x \notin old PROVE x = g
    <3>1. x \in S /\ x \in rest /\ x <= g /\ Cardinality(Above(S, x)) < m
      BY <2>1, <1>8 DEF Top
    <3>2. ~(x < g)
      <4>1. g \in S /\ (x < g => Cardinality(Above(S, g)) + 1 <= Cardinality(Above(S, x)))
        BY <3>1, <1>8, AboveGrows
      <4> HIDE DEF k
      <4> QED BY <4>1, <3>1, <1>3, <1>5, <1>9
    <3> QED BY <3>1, <3>2, <1>8
  <2>2. old \subseteq Top(S, m)
    <3> SUFFICES ASSUME NEW x \in old PROVE x \in Top(S, m)
      OBVIOUS
    <3>1. x \in S /\ Cardinality(Above(S, x)) < k
      BY DEF Top
    <3>2. Cardinality(Above(S, x)) < m
      <4> HIDE DEF k
      <4> QED BY <3>1, <1>3, <1>5
    <3> QED BY <3>1, <3>2 DEF Top
  <2>3. g \in Top(S, m)
    <3>1. g \in S /\ Cardinality(Above(S, g)) < m
      <4> HIDE DEF k
      <4> QED BY <1>10, <1>6, <1>5, <1>8
    <3> QED BY <3>1 DEF Top
  <2> QED BY <2>1, <2>2, <2>3
<1>12. Cardinality(Top(S, m)) = k + 1
  <2> HIDE DEF old, k
  <2>1. g \notin old
    BY <1>8
  <2> QED BY <2>1, <1>6, <1>11, FS_AddElement
<1> QED BY <1>1, <1>5, <1>12

(* What a limit cuts off is older than as many rows as it lets through.    *)
LEMMA LimitCuts ==
  ASSUME NEW last \in Nat, NEW S \in SUBSET (1..last), NEW n \in Nat,
         NEW i \in S, i \notin Top(S, n)
  PROVE  Cardinality({j \in Top(S, n) : j > i}) = n
<1> DEFINE U == Above(S, i)
<1>1. U \in SUBSET (1..last) /\ Cardinality(U) \in Nat
  BY AboveGrows DEF Above
<1>2. Cardinality(U) >= n
  <2>1. ~(Cardinality(U) < n)
    BY DEF Top
  <2> QED BY <2>1, <1>1
<1>3. \A j \in U : Above(U, j) = Above(S, j)
  <2>1. \A x \in S : x \in Nat
    OBVIOUS
  <2>2. ASSUME NEW j \in U, NEW x \in S, x > j PROVE x > i
    BY <2>1, <2>2 DEF Above
  <2> QED BY <2>2 DEF Above
<1>4. Top(U, n) = {j \in Top(S, n) : j > i}
  BY <1>3 DEF Top, Above
<1> HIDE DEF U
<1> QED BY <1>1, <1>2, <1>4, TopHolds

-----------------------------------------------------------------------------
(* The queries                                                             *)

(* The rows a query selects are rows of the table.                         *)
LEMMA Selected ==
  ASSUME table \in Seq(AnyRow), NEW c, NEW kind
  PROVE  Matching(kind, c) \in SUBSET (1..Len(table)) /\ Len(table) \in Nat
BY DEF Matching

(* The same without the type, which selects more.                          *)
LEMMA AnyType ==
  ASSUME NEW c \in Call, NEW kind
  PROVE  LET any == [c EXCEPT !.type = ""]
         IN  /\ any.symbol = c.symbol /\ any.exchange = c.exchange /\ any.type = ""
             /\ Matching(kind, c) \subseteq Matching(kind, any)
<1> DEFINE any == [c EXCEPT !.type = ""]
<1>1. any.symbol = c.symbol /\ any.exchange = c.exchange /\ any.type = ""
  BY DEF Call
<1> HIDE DEF any
<1>2. Matching(kind, c) \subseteq Matching(kind, any)
  BY <1>1 DEF Matching, Is
<1> QED BY <1>1, <1>2 DEF any

(* A market is known by its exchange and its symbol.                       *)
LEMMA OneType ==
  ASSUME table \in Seq(AnyRow), NEW i \in DOMAIN table, NEW j \in DOMAIN table,
         table[i].exchange = table[j].exchange, table[i].symbol = table[j].symbol
  PROVE  table[i].type = table[j].type
<1>1. table[i] \in AnyRow /\ table[j] \in AnyRow
  OBVIOUS
<1>2. PICK m \in Listing : /\ table[i].exchange = m.exchange /\ table[i].symbol = m.symbol
                           /\ table[i].type = m.type
  BY <1>1 DEF AnyRow, Row
<1>3. PICK n \in Listing : /\ table[j].exchange = n.exchange /\ table[j].symbol = n.symbol
                           /\ table[j].type = n.type
  BY <1>1 DEF AnyRow, Row
<1> QED BY <1>2, <1>3, McpAssumption

(* A query of this form shows rows of the table, and they make up for the  *)
(* rows that it was asked for.                                             *)
Sound(c, a) ==
  /\ a \in [kind : {"rows", "other"}, rows : SUBSET DOMAIN table]
  /\ a.kind = "rows" => \A i \in Asked(c) : Covers(c, a.rows, i)

(* The newest rows that a limit lets through make up for those it cuts.    *)
LEMMA LatestCovers ==
  ASSUME table \in Seq(AnyRow), NEW c \in Call,
         c.tool \in {"get_trades", "get_liquidations", "get_heatmap"},
         LimitOf(c) \in Nat, NEW S \in SUBSET DOMAIN table,
         \A i, j \in S : /\ table[i].kind = table[j].kind
                         /\ table[i].symbol = table[j].symbol
  PROVE  /\ Latest(S, LimitOf(c)) \in SUBSET DOMAIN table
         /\ \A i \in S : Covers(c, Latest(S, LimitOf(c)), i)
<1> DEFINE n == LimitOf(c)
           shown == Latest(S, n)
<1>1. S \in SUBSET (1..Len(table)) /\ Len(table) \in Nat
  OBVIOUS
<1>2. shown = Top(S, n) /\ shown \subseteq S
  BY DEF Latest, Top, Above
<1>3. ASSUME NEW i \in S, i \notin shown PROVE Covers(c, shown, i)
  <2>1. Cardinality({j \in shown : j > i}) = n
    <3> HIDE DEF n
    <3>1. n \in Nat /\ i \notin Top(S, n)
      BY <1>2, <1>3 DEF n
    <3>2. Cardinality({j \in Top(S, n) : j > i}) = n
      BY <3>1, <1>1, LimitCuts
    <3> QED BY <3>2, <1>2
  <2>2. shown \cap Newer(i) = {j \in shown : j > i}
    BY <1>1, <1>2 DEF Newer
  <2> HIDE DEF shown
  <2> QED BY <2>1, <2>2 DEF Covers
<1>4. \A i \in S : Covers(c, shown, i)
  BY <1>3 DEF Covers
<1> HIDE DEF n
<1> QED BY <1>2, <1>4 DEF n

(* GetTrades and GetLiquidations.                                          *)
LEMMA LimitedSound ==
  ASSUME table \in Seq(AnyRow), NEW c \in Call, c.tool \in {"get_trades", "get_liquidations"}
  PROVE  Sound(c, GetLimited(KindOf(c.tool), c))
<1> DEFINE kind == KindOf(c.tool)
           S == Since(Matching(kind, c), c)
           shown == Latest(S, LimitOf(c))
<1>1. kind # "snapshot" /\ kind \in RowKind /\ c.limit \in Int /\ LimitOf(c) = c.limit
  BY DEF KindOf, RowKind, Call, LimitOf
<1>2. GetLimited(kind, c) = IF c.limit < 0 THEN Other ELSE Rows(shown)
  BY <1>1 DEF GetLimited
<1>3. S \in SUBSET DOMAIN table
  BY Selected DEF Since
<1>4. Asked(c) = S
  BY <1>1 DEF Asked
<1>5. \A i, j \in S : /\ table[i].kind = table[j].kind
                      /\ table[i].symbol = table[j].symbol
  BY DEF Since, Matching
<1> HIDE DEF S
<1>6. CASE c.limit < 0
  BY <1>6, <1>2 DEF Sound, Other, kind
<1>7. CASE ~(c.limit < 0)
  <2>1. LimitOf(c) \in Nat
    BY <1>1, <1>7
  <2>2. shown \in SUBSET DOMAIN table /\ \A i \in S : Covers(c, shown, i)
    BY <2>1, <1>3, <1>5, LatestCovers
  <2> HIDE DEF shown
  <2> QED BY <2>2, <1>2, <1>4, <1>7 DEF Sound, Rows, kind
<1> QED BY <1>6, <1>7

(* GetLatestMarketStats.                                                   *)
LEMMA StatsSound ==
  ASSUME table \in Seq(AnyRow), NEW c \in Call, c.tool = "get_market_stats"
  PROVE  Sound(c, GetLatestMarketStats(c))
<1> DEFINE S == Matching("stat", [c EXCEPT !.type = ""])
           shown == {i \in S : ~\E j \in S : j > i /\ table[j].exchange = table[i].exchange}
           any == [c EXCEPT !.type = ""]
<1>1. GetLatestMarketStats(c) = Rows(shown)
  BY DEF GetLatestMarketStats
<1>2. S \in SUBSET (1..Len(table)) /\ Len(table) \in Nat /\ DOMAIN table = 1..Len(table)
  <2> HIDE DEF any
  <2>1. Matching("stat", any) \in SUBSET (1..Len(table)) /\ Len(table) \in Nat
    BY Selected
  <2>2. S = Matching("stat", any) /\ DOMAIN table = 1..Len(table)
    BY DEF any
  <2> HIDE DEF S
  <2> QED BY <2>1, <2>2
<1>3. Asked(c) \subseteq S
  BY AnyType DEF Asked, KindOf, Since
<1>4. \A i, j \in S : table[i].kind = table[j].kind /\ table[i].symbol = table[j].symbol
  BY AnyType DEF Matching
<1> HIDE DEF S
<1>5. ASSUME NEW i \in S PROVE Covers(c, shown, i)
  <2> DEFINE E == {j \in S : table[j].exchange = table[i].exchange}
  <2>1. E \in SUBSET (1..Len(table)) /\ E # {}
    BY <1>2
  <2>2. PICK g \in E : \A j \in E : j <= g
    <3> HIDE DEF E
    <3> QED BY <2>1, <1>2, Newest
  <2>3. g \in S /\ table[g].exchange = table[i].exchange /\ i <= g
    BY <2>2
  <2>4. g \in shown
    <3>1. ASSUME NEW j \in S, table[j].exchange = table[g].exchange PROVE j <= g
      BY <3>1, <2>2, <2>3
    <3>2. \A j \in S : j \in Nat
      BY <1>2
    <3> QED BY <3>1, <3>2, <2>3
  <2>5. g = i \/ g \in Newer(i)
    BY <2>3, <1>2, <1>4 DEF Newer
  <2> HIDE DEF shown, E
  <2> QED BY <2>3, <2>4, <2>5 DEF Covers
<1>6. shown \subseteq DOMAIN table
  BY <1>2
<1> HIDE DEF shown
<1> QED BY <1>1, <1>3, <1>5, <1>6 DEF Sound, Rows

(* GetLatestOrderbook.                                                     *)
LEMMA OrderbookSound ==
  ASSUME table \in Seq(AnyRow), NEW c \in Call, c.tool = "get_orderbook"
  PROVE  Sound(c, GetLatestOrderbook(c))
<1> DEFINE M == Matching("snapshot", c)
           T == OfExchange(M, c)
           S == OfExchange(Matching("snapshot", [c EXCEPT !.type = ""]), c)
           shown == {i \in T : \A j \in S : j <= i}
           any == [c EXCEPT !.type = ""]
<1>1. GetLatestOrderbook(c) = Rows(shown)
  BY DEF GetLatestOrderbook, AtLatest
<1>2. S \in SUBSET (1..Len(table)) /\ Len(table) \in Nat /\ DOMAIN table = 1..Len(table)
  <2> HIDE DEF any
  <2>1. Matching("snapshot", any) \in SUBSET (1..Len(table)) /\ Len(table) \in Nat
    BY Selected
  <2>2. S = OfExchange(Matching("snapshot", any), c)
    BY DEF any
  <2> HIDE DEF S
  <2>3. S \subseteq Matching("snapshot", any)
    BY <2>2 DEF OfExchange
  <2>4. DOMAIN table = 1..Len(table)
    OBVIOUS
  <2> QED BY <2>1, <2>3, <2>4
<1>3. T \subseteq S
  BY AnyType DEF OfExchange
<1>4. Asked(c) \subseteq T
  BY DEF Asked, KindOf, Since, OfExchange
<1>5. \A i, j \in S : /\ table[i].kind = "snapshot" /\ table[i].symbol = c.symbol
                      /\ table[i].exchange = c.exchange
  BY AnyType DEF Matching, OfExchange
<1>6. ASSUME NEW i \in T, NEW g \in S PROVE g \in T
  <2>1. i \in DOMAIN table /\ g \in DOMAIN table /\ i \in S
    BY <1>2, <1>3
  <2>2. table[g].type = table[i].type
    BY <2>1, <1>5, OneType
  <2>3. Is(table[i].type, c.type) /\ Is(table[i].exchange, c.exchange)
    BY DEF OfExchange, Matching
  <2>4. table[g].kind = "snapshot" /\ table[g].symbol = c.symbol /\ table[g].exchange = c.exchange
        /\ table[i].exchange = c.exchange
    BY <2>1, <1>5
  <2> QED BY <2>1, <2>2, <2>3, <2>4 DEF OfExchange, Matching
<1> HIDE DEF S, T, M
<1>7. ASSUME NEW i \in T PROVE Covers(c, shown, i)
  <2>1. i \in S /\ S # {}
    BY <1>3
  <2>2. PICK g \in S : \A j \in S : j <= g
    BY <2>1, <1>2, Newest
  <2>3. g \in shown
    BY <2>2, <1>6
  <2>4. g = i \/ g \in Newer(i)
    BY <2>1, <2>2, <1>2, <1>5 DEF Newer
  <2>5. table[g].exchange = table[i].exchange
    BY <2>1, <1>5
  <2> HIDE DEF shown
  <2> QED BY <2>3, <2>4, <2>5 DEF Covers
<1>8. shown \subseteq DOMAIN table
  BY <1>2, <1>3
<1> HIDE DEF shown
<1> QED BY <1>1, <1>4, <1>7, <1>8 DEF Sound, Rows

(* ComputeHeatmap.                                                         *)
LEMMA HeatmapSound ==
  ASSUME table \in Seq(AnyRow), NEW c \in Call, c.tool = "get_heatmap"
  PROVE  Sound(c, ComputeHeatmap(c))
<1> DEFINE S == OfExchange(Since(Matching("snapshot", c), c), c)
           shown == Latest(S, LimitOf(c))
<1>1. Asked(c) = S
  BY DEF Asked, KindOf
<1>2. S \in SUBSET DOMAIN table
  BY Selected DEF OfExchange, Since
<1>3. \A i, j \in S : /\ table[i].kind = table[j].kind
                      /\ table[i].symbol = table[j].symbol
  BY DEF OfExchange, Since, Matching
<1>4. LimitOf(c) = HeatmapLimit /\ LimitOf(c) \in Nat
  BY McpAssumption DEF LimitOf
<1>5. ComputeHeatmap(c) = IF c.type # "" THEN Other ELSE Rows(shown)
  BY <1>4 DEF ComputeHeatmap
<1> HIDE DEF S
<1>6. shown \in SUBSET DOMAIN table /\ \A i \in S : Covers(c, shown, i)
  BY <1>2, <1>3, <1>4, LatestCovers
<1> HIDE DEF shown
<1>7. Sound(c, Rows(shown))
  BY <1>1, <1>6 DEF Sound, Rows
<1>8. Sound(c, Other)
  BY DEF Sound, Other
<1> QED BY <1>5, <1>7, <1>8

(* What any tool answers.                                                  *)
LEMMA ResultSound ==
  ASSUME table \in Seq(AnyRow), NEW c \in Call
  PROVE  Sound(c, Result(c))
<1>1. c.tool \in Tool
  BY DEF Call
<1>2. CASE c.tool = "get_trades"
  BY <1>2, LimitedSound DEF Result, GetTrades, KindOf
<1>3. CASE c.tool = "get_liquidations"
  BY <1>3, LimitedSound DEF Result, GetLiquidations, KindOf
<1>4. CASE c.tool = "get_market_stats"
  BY <1>4, StatsSound DEF Result
<1>5. CASE c.tool = "get_orderbook"
  BY <1>5, OrderbookSound DEF Result
<1>6. CASE c.tool = "get_heatmap"
  BY <1>6, HeatmapSound DEF Result
<1> QED BY <1>1, <1>2, <1>3, <1>4, <1>5, <1>6 DEF Tool

-----------------------------------------------------------------------------
(* The invariant                                                           *)

Members(q) == {q[i] : i \in DOMAIN q}

Once(q) == \A i, j \in DOMAIN q : q[i] = q[j] => i = j

(* Nobody waits for a connection twice.                                    *)
QueuedOnce == Once(queue)

(* A stream that was not opened is empty.                                  *)
Opened == \A s \in Sessions : stream[s] = "none" => Sent(s) = <<>>

(* A request is for a stream whose endpoint has been written; what it asks *)
(* is known until it is answered, and the answer until it is sent.         *)
Underway ==
  \A r \in Requests :
    /\ at[r] # "unsent" => to[r] \in Sessions /\ written[to[r]] # <<>>
    /\ at[r] \in {"decoding", "waiting", "querying"} => call[r] \in Call
    /\ at[r] # "sending" => answer[r].kind = "none"

PoolInv == PoolTyped /\ QueuedOnce /\ IsFiniteSet(held)

IInv ==
  /\ TypeOK
  /\ PoolInv
  /\ Opened
  /\ Underway
  /\ AnsweredOnce

(* A step that leaves the streams alone.                                   *)
LEMMA SameStreams ==
  ASSUME StreamsTyped, Opened, UNCHANGED sessionVars
  PROVE  /\ StreamsTyped' /\ Opened'
         /\ \A s \in Sessions : Sent(s)' = Sent(s) /\ (written[s] # <<>> => written'[s] # <<>>)
BY DEF StreamsTyped, Opened, sessionVars, Sent

(* A step that leaves the requests alone.                                  *)
LEMMA SameRequests ==
  ASSUME RequestsTyped, Underway, UNCHANGED requestVars, DOMAIN table \subseteq DOMAIN table',
         \A s \in Sessions : written[s] # <<>> => written'[s] # <<>>
  PROVE  RequestsTyped' /\ Underway'
<1>1. RequestsTyped'
  <2>1. answer' \in [Requests -> [kind : {"none", "rows", "other"}, rows : SUBSET DOMAIN table']]
    BY DEF RequestsTyped, requestVars
  <2> QED BY <2>1 DEF RequestsTyped, requestVars
<1>2. Underway'
  BY DEF Underway, requestVars
<1> QED BY <1>1, <1>2

(* A step that leaves the pool and who waits or queries alone.             *)
LEMMA SamePool ==
  ASSUME PoolInv, UNCHANGED <<queue, held, hub, table>>,
         \A r \in Requests : /\ at'[r] = "waiting" <=> at[r] = "waiting"
                             /\ at'[r] = "querying" <=> at[r] = "querying"
  PROVE  PoolInv'
<1>1. Waiting' = Waiting /\ Holding' = Holding
  BY DEF Waiting, Holding
<1> QED BY <1>1 DEF PoolInv, PoolTyped, QueuedOnce

(* A step that puts nothing into a channel and accepts nothing.            *)
LEMMA SameAnswers ==
  ASSUME AnsweredOnce, \A s \in Sessions : Sent(s)' = Sent(s),
         \A r \in Requests, s \in Sessions :
           (to'[r] = s /\ at'[r] = "accepted") <=> (to[r] = s /\ at[r] = "accepted")
  PROVE  AnsweredOnce'
BY DEF AnsweredOnce

(* The address of the session goes into an empty stream.                   *)
LEMMA ConnectKeeps ==
  ASSUME StreamsTyped, Opened, AnsweredOnce, NEW s \in Sessions, Connect(s)
  PROVE  /\ StreamsTyped' /\ Opened' /\ AnsweredOnce'
         /\ \A t \in Sessions : written[t] # <<>> => written'[t] # <<>>
<1> DEFINE first == <<"endpoint">>
<1>1. /\ stream[s] = "none" /\ stream' = [stream EXCEPT ![s] = "select"]
      /\ sessions' = sessions \cup {s}
      /\ eventChan' = [eventChan EXCEPT ![s] = first]
      /\ written' = written /\ peer' = peer /\ to' = to /\ at' = at
  BY DEF Connect, requestVars
<1>2. first \in Seq(Events) /\ Len(first) = 1 /\ first[1] = "endpoint" /\ DOMAIN first = {1}
  BY DEF Events
<1> HIDE DEF first
<1>3. written[s] = <<>> /\ Sent(s) = <<>>
  <2>1. Sent(s) = <<>> /\ written[s] \in Seq(Events) /\ eventChan[s] \in Seq(Events)
    BY <1>1 DEF Opened, StreamsTyped
  <2> QED BY <2>1, ConcatEqualIffEmpty DEF Sent
<1>4. Sent(s)' = first /\ \A t \in Sessions \ {s} : Sent(t)' = Sent(t)
  <2>1. eventChan'[s] = first /\ written'[s] = <<>>
    BY <1>1, <1>3 DEF StreamsTyped
  <2>2. Sent(s)' = <<>> \o first
    BY <2>1 DEF Sent
  <2>3. Sent(s)' = first
    BY <2>2, <1>2
  <2>4. \A t \in Sessions \ {s} : Sent(t)' = Sent(t)
    BY <1>1 DEF Sent, StreamsTyped
  <2> QED BY <2>3, <2>4
<1>5. StreamsTyped'
  <2>1. Len(eventChan'[s]) <= ChanCap
    <3>1. ChanCap \in Nat \ {0}
      BY McpAssumption
    <3>2. eventChan'[s] = first
      BY <1>1 DEF StreamsTyped
    <3> QED BY <3>1, <3>2, <1>2
  <2> QED BY <2>1, <1>1, <1>2 DEF StreamsTyped
<1>6. Opened'
  BY <1>1, <1>4 DEF Opened, StreamsTyped
<1>7. AnsweredOnce'
  <2>1. {r \in Requests : to[r] = s /\ at[r] = "accepted"} = {}
    BY <1>3 DEF AnsweredOnce
  <2>2. {first[i] : i \in DOMAIN first} \ {"endpoint"} = {}
    BY <1>2
  <2> QED BY <1>1, <1>2, <1>4, <2>1, <2>2 DEF AnsweredOnce
<1> QED BY <1>1, <1>5, <1>6, <1>7

(* An event goes from the channel to the stream, which stays the same.     *)
LEMMA TakeKeeps ==
  ASSUME StreamsTyped, Opened, NEW s \in Sessions, TakeEvent(s)
  PROVE  /\ StreamsTyped' /\ Opened'
         /\ \A t \in Sessions : /\ Sent(t)' = Sent(t)
                                /\ written[t] # <<>> => written'[t] # <<>>
<1> DEFINE w == written[s]
           e == eventChan[s]
<1>1. /\ w \in Seq(Events) /\ e \in Seq(Events) /\ e # <<>> /\ Len(e) <= ChanCap
      /\ stream[s] = "select" /\ stream' = [stream EXCEPT ![s] = "writing"]
      /\ written' = [written EXCEPT ![s] = Append(w, Head(e))]
      /\ eventChan' = [eventChan EXCEPT ![s] = Tail(e)]
      /\ sessions' = sessions /\ peer' = peer
  BY DEF TakeEvent, StreamsTyped
<1>2. written'[s] = Append(w, Head(e)) /\ eventChan'[s] = Tail(e)
  BY <1>1 DEF StreamsTyped
<1>3. /\ Append(w, Head(e)) \in Seq(Events) /\ Append(w, Head(e)) # <<>>
      /\ Tail(e) \in Seq(Events) /\ Len(Tail(e)) = Len(e) - 1
      /\ Append(w, Head(e)) \o Tail(e) = w \o e
  <2> HIDE DEF w, e
  <2>1. Head(e) \in Events /\ Tail(e) \in Seq(Events) /\ Len(Tail(e)) = Len(e) - 1
    BY <1>1
  <2>2. Append(w, Head(e)) \in Seq(Events) /\ Append(w, Head(e)) # <<>>
    BY <1>1, <2>1
  <2>3. Append(w, Head(e)) \o Tail(e) = w \o e
    BY <1>1, <2>1
  <2> QED BY <2>1, <2>2, <2>3
<1>4. Sent(s)' = Sent(s) /\ \A t \in Sessions \ {s} : Sent(t)' = Sent(t)
  <2>1. Sent(s)' = Sent(s)
    BY <1>2, <1>3 DEF Sent
  <2>2. \A t \in Sessions \ {s} : written'[t] = written[t] /\ eventChan'[t] = eventChan[t]
    BY <1>1 DEF StreamsTyped
  <2> QED BY <2>1, <2>2 DEF Sent
<1>5. \A t \in Sessions : written[t] # <<>> => written'[t] # <<>>
  BY <1>1, <1>2, <1>3 DEF StreamsTyped
<1>6. StreamsTyped'
  <2>1. Len(e) \in Nat /\ ChanCap \in Nat
    BY <1>1, McpAssumption
  <2>2. written' \in [Sessions -> Seq(Events)] /\ eventChan' \in [Sessions -> Seq(Events)]
    BY <1>1, <1>3 DEF StreamsTyped
  <2>3. \A t \in Sessions : Len(eventChan'[t]) <= ChanCap
    BY <1>1, <1>2, <1>3, <2>1 DEF StreamsTyped
  <2>4. stream' \in [Sessions -> {"none", "select", "writing", "ended"}]
        /\ sessions' = {t \in Sessions : stream'[t] \notin {"none", "ended"}}
    BY <1>1 DEF StreamsTyped
  <2> QED BY <2>2, <2>3, <2>4, <1>1 DEF StreamsTyped
<1>7. Opened'
  BY <1>1, <1>4 DEF Opened, StreamsTyped
<1> QED BY <1>4, <1>5, <1>6, <1>7

(* A stream goes on or ends, or its client changes.                        *)
LEMMA StreamTurns ==
  ASSUME StreamsTyped, Opened, NEW s \in Sessions, Written(s) \/ EndStream(s) \/ PeerChanges(s)
  PROVE  /\ StreamsTyped' /\ Opened'
         /\ \A t \in Sessions : /\ Sent(t)' = Sent(t)
                                /\ written[t] # <<>> => written'[t] # <<>>
<1>1. written' = written /\ eventChan' = eventChan /\ \A t \in Sessions : Sent(t)' = Sent(t)
  BY DEF Written, EndStream, PeerChanges, Sent
<1>2. /\ stream' \in [Sessions -> {"none", "select", "writing", "ended"}]
      /\ \A t \in Sessions : stream'[t] = "none" => stream[t] = "none"
      /\ sessions' = {t \in Sessions : stream'[t] \notin {"none", "ended"}}
      /\ peer' \in [Sessions -> {"reading", "stalled", "gone"}]
  <2>1. CASE Written(s)
    BY <2>1 DEF Written, StreamsTyped
  <2>2. CASE EndStream(s)
    BY <2>2 DEF EndStream, StreamsTyped
  <2>3. CASE PeerChanges(s)
    BY <2>3 DEF PeerChanges, StreamsTyped
  <2> QED BY <2>1, <2>2, <2>3
<1>3. StreamsTyped'
  BY <1>1, <1>2 DEF StreamsTyped
<1>4. Opened'
  BY <1>1, <1>2 DEF Opened
<1> QED BY <1>1, <1>3, <1>4

-----------------------------------------------------------------------------
(* The queue                                                               *)

(* Somebody new joins.                                                     *)
LEMMA Joins ==
  ASSUME NEW T, NEW q \in Seq(T), Once(q), NEW x \in T, x \notin Members(q)
  PROVE  /\ Append(q, x) \in Seq(T) /\ Once(Append(q, x))
         /\ Members(Append(q, x)) = Members(q) \cup {x}
<1> DEFINE p == Append(q, x)
<1>1. /\ p \in Seq(T) /\ Len(q) \in Nat /\ DOMAIN q = 1..Len(q) /\ DOMAIN p = 1..(Len(q) + 1)
      /\ p[Len(q) + 1] = x /\ \A i \in 1..Len(q) : p[i] = q[i]
  OBVIOUS
<1>2. \A i \in 1..Len(q) : q[i] # x
  BY <1>1 DEF Members
<1> HIDE DEF p
<1>3. Once(p)
  BY <1>1, <1>2 DEF Once
<1>4. Members(p) = Members(q) \cup {x}
  BY <1>1 DEF Members
<1> QED BY <1>1, <1>3, <1>4 DEF p

(* A member leaves, from wherever it stands.                               *)
LEMMA Leaves ==
  ASSUME NEW T, NEW q \in Seq(T), Once(q), NEW k \in DOMAIN q
  PROVE  LET p == SubSeq(q, 1, k - 1) \o SubSeq(q, k + 1, Len(q))
         IN  p \in Seq(T) /\ Once(p) /\ Members(p) = Members(q) \ {q[k]}
<1> DEFINE a == SubSeq(q, 1, k - 1)
           b == SubSeq(q, k + 1, Len(q))
           p == a \o b
           n == Len(q)
<1>1. n \in Nat /\ DOMAIN q = 1..n /\ k \in 1..n
  OBVIOUS
<1>2. /\ a \in Seq(T) /\ Len(a) = k - 1 /\ \A i \in 1..(k-1) : a[i] = q[i]
  BY <1>1
<1>3. /\ b \in Seq(T) /\ Len(b) = n - k /\ \A i \in 1..(n-k) : b[i] = q[k + i]
  BY <1>1
<1> HIDE DEF a, b, n
<1>4. /\ p \in Seq(T) /\ DOMAIN p = 1..(n - 1)
      /\ \A i \in 1..(k-1) : p[i] = q[i]
      /\ \A i \in k..(n-1) : p[i] = q[i + 1]
  <2>1. p \in Seq(T) /\ Len(p) = Len(a) + Len(b)
    BY <1>2, <1>3, ConcatProperties
  <2>2. Len(p) = n - 1 /\ DOMAIN p = 1..(n - 1)
    <3>1. Len(p) = n - 1
      BY <2>1, <1>1, <1>2, <1>3
    <3> HIDE DEF p
    <3> QED BY <2>1, <3>1
  <2>3. ASSUME NEW i \in 1..(k-1) PROVE p[i] = q[i]
    <3>1. i \in 1..(Len(a) + Len(b)) /\ i <= Len(a)
      BY <1>1, <1>2, <1>3
    <3>2. p[i] = a[i]
      BY <3>1, <1>2, <1>3
    <3> QED BY <3>2, <1>2
  <2>4. ASSUME NEW i \in k..(n-1) PROVE p[i] = q[i + 1]
    <3>1. i \in 1..(Len(a) + Len(b)) /\ i > Len(a) /\ i - Len(a) \in 1..(n-k)
          /\ k + (i - Len(a)) = i + 1
      BY <1>1, <1>2, <1>3
    <3>2. p[i] = b[i - Len(a)]
      BY <3>1, <1>2, <1>3
    <3> QED BY <3>1, <3>2, <1>3
  <2> QED BY <2>1, <2>2, <2>3, <2>4
<1> HIDE DEF p
<1>5. Once(p)
  <2> SUFFICES ASSUME NEW i \in 1..(n-1), NEW j \in 1..(n-1), p[i] = p[j] PROVE i = j
    BY <1>4 DEF Once
  <2> DEFINE At(x) == IF x < k THEN x ELSE x + 1
  <2>1. \A x \in 1..(n-1) : At(x) \in 1..n /\ p[x] = q[At(x)]
    BY <1>1, <1>4
  <2>2. At(i) = At(j)
    <3> HIDE DEF At
    <3> QED BY <2>1, <1>1 DEF Once
  <2> QED BY <2>2, <1>1
<1>6. Members(p) = Members(q) \ {q[k]}
  <2>1. ASSUME NEW x \in Members(p) PROVE x \in Members(q) \ {q[k]}
    <3>1. PICK i \in 1..(n-1) : x = p[i]
      BY <1>4 DEF Members
    <3>2. PICK j \in 1..n : j # k /\ x = q[j]
      BY <3>1, <1>1, <1>4
    <3> QED BY <3>2, <1>1 DEF Members, Once
  <2>2. ASSUME NEW x \in Members(q) \ {q[k]} PROVE x \in Members(p)
    <3>1. PICK j \in 1..n : x = q[j] /\ j # k
      BY <1>1 DEF Members
    <3>2. CASE j < k
      <4>1. j \in 1..(k-1) /\ j \in 1..(n-1) /\ p[j] = q[j]
        BY <3>1, <3>2, <1>1, <1>4
      <4> QED BY <4>1, <3>1, <1>4 DEF Members
    <3>3. CASE j > k
      <4>1. j - 1 \in k..(n-1) /\ j - 1 \in 1..(n-1) /\ p[j - 1] = q[j]
        BY <3>1, <3>3, <1>1, <1>4
      <4> QED BY <4>1, <3>1, <1>4 DEF Members
    <3> QED BY <3>1, <3>2, <3>3, <1>1
  <2> QED BY <2>1, <2>2
<1> QED BY <1>4, <1>5, <1>6 DEF p, a, b, n

(* The first of the queue leaves it.                                       *)
LEMMA FirstLeaves ==
  ASSUME NEW T, NEW q \in Seq(T), Once(q), q # <<>>
  PROVE  /\ Head(q) \in Members(q) /\ Tail(q) \in Seq(T) /\ Once(Tail(q))
         /\ Members(Tail(q)) = Members(q) \ {Head(q)}
<1> DEFINE p == Tail(q)
           n == Len(q)
<1>1. /\ n \in Nat /\ n > 0 /\ DOMAIN q = 1..n /\ Head(q) = q[1]
      /\ p \in Seq(T) /\ DOMAIN p = 1..(n - 1) /\ \A i \in 1..(n-1) : p[i] = q[i + 1]
  OBVIOUS
<1> HIDE DEF p, n
<1>2. Once(p)
  <2> SUFFICES ASSUME NEW i \in 1..(n-1), NEW j \in 1..(n-1), p[i] = p[j] PROVE i = j
    BY <1>1 DEF Once
  <2>1. i + 1 \in 1..n /\ j + 1 \in 1..n /\ q[i + 1] = q[j + 1]
    BY <1>1
  <2>2. i + 1 = j + 1
    BY <2>1, <1>1 DEF Once
  <2> QED BY <2>2
<1>3. Members(p) = Members(q) \ {q[1]}
  <2>1. ASSUME NEW x \in Members(p) PROVE x \in Members(q) \ {q[1]}
    <3>1. PICK i \in 1..(n-1) : x = q[i + 1]
      BY <1>1 DEF Members
    <3>2. i + 1 \in 1..n /\ i + 1 # 1 /\ 1 \in 1..n
      BY <1>1
    <3> QED BY <3>1, <3>2, <1>1 DEF Members, Once
  <2>2. ASSUME NEW x \in Members(q) \ {q[1]} PROVE x \in Members(p)
    <3>1. PICK j \in 1..n : x = q[j] /\ j # 1
      BY <1>1 DEF Members
    <3>2. j - 1 \in 1..(n-1) /\ p[j - 1] = q[j]
      BY <3>1, <1>1
    <3> QED BY <3>1, <3>2, <1>1 DEF Members
  <2> QED BY <2>1, <2>2
<1>4. Head(q) \in Members(q)
  <2>1. 1 \in DOMAIN q
    BY <1>1
  <2> QED BY <2>1, <1>1 DEF Members
<1> QED BY <1>1, <1>2, <1>3, <1>4 DEF p

(* Who begins to wait joins the queue.                                     *)
LEMMA PoolJoins ==
  ASSUME PoolInv, NEW x \in Requests \cup {"hub"}, x \notin Waiting, queue' = Append(queue, x),
         Waiting' = Waiting \cup {x}, Holding' = Holding, held' = held, table' = table,
         hub' \in {"idle", "waiting", "inserting"}
  PROVE  PoolInv'
<1>1. /\ queue \in Seq(Requests \cup {"hub"}) /\ Once(queue) /\ Members(queue) = Waiting
  BY DEF PoolInv, PoolTyped, QueuedOnce, Members
<1>2. /\ queue' \in Seq(Requests \cup {"hub"}) /\ Once(queue') /\ Members(queue') = Waiting'
  BY <1>1, Joins
<1> QED BY <1>2 DEF PoolInv, PoolTyped, QueuedOnce, Members

(* Who gives up leaves it.                                                 *)
LEMMA PoolLeaves ==
  ASSUME PoolInv, NEW x \in Requests \cup {"hub"}, Leave(x),
         Waiting' = Waiting \ {x}, Holding' = Holding, held' = held, table' = table,
         hub' \in {"idle", "waiting", "inserting"}
  PROVE  PoolInv'
<1>1. /\ queue \in Seq(Requests \cup {"hub"}) /\ Once(queue) /\ Members(queue) = Waiting
  BY DEF PoolInv, PoolTyped, QueuedOnce, Members
<1>2. PICK k \in DOMAIN queue :
        queue[k] = x /\ queue' = SubSeq(queue, 1, k - 1) \o SubSeq(queue, k + 1, Len(queue))
  BY DEF Leave
<1>3. /\ queue' \in Seq(Requests \cup {"hub"}) /\ Once(queue') /\ Members(queue') = Waiting'
  BY <1>1, <1>2, Leaves
<1> QED BY <1>3 DEF PoolInv, PoolTyped, QueuedOnce, Members

(* A connection goes back to the pool.                                     *)
LEMMA PoolReleases ==
  ASSUME PoolInv, NEW x, held' = held \ {x}, Holding' = Holding \ {x},
         Waiting' = Waiting, queue' = queue, table' \in Seq(AnyRow),
         hub' \in {"idle", "waiting", "inserting"}
  PROVE  PoolInv'
<1>1. IsFiniteSet(held) /\ Cardinality(held) <= MaxConns /\ held' \in SUBSET held /\ MaxConns \in Nat
  BY McpAssumption DEF PoolInv, PoolTyped
<1>2. /\ IsFiniteSet(held') /\ Cardinality(held') <= Cardinality(held)
      /\ Cardinality(held') \in Nat /\ Cardinality(held) \in Nat
  BY <1>1, FS_Subset, FS_CardinalityType
<1>3. Cardinality(held') <= MaxConns
  BY <1>1, <1>2
<1> QED BY <1>2, <1>3 DEF PoolInv, PoolTyped, QueuedOnce

(* The first of the queue gets a connection.                               *)
LEMMA GrantKeeps ==
  ASSUME PoolInv, RequestsTyped, Grant
  PROVE  /\ PoolInv' /\ table' = table
         /\ \/ hub' = "inserting" /\ at' = at
            \/ \E r \in Requests :
                 at[r] = "waiting" /\ at' = [at EXCEPT ![r] = "querying"]
<1> DEFINE x == Head(queue)
<1>1. /\ queue \in Seq(Requests \cup {"hub"}) /\ Once(queue) /\ Members(queue) = Waiting
      /\ queue # <<>>
  BY DEF PoolInv, PoolTyped, QueuedOnce, Members, Grant
<1>2. /\ x \in Waiting /\ queue' \in Seq(Requests \cup {"hub"}) /\ Once(queue')
      /\ Members(queue') = Waiting \ {x}
  BY <1>1, FirstLeaves DEF Grant
<1>3. /\ held' = held \cup {x} /\ Cardinality(held) < MaxConns /\ table' = table
      /\ IF x = "hub" THEN hub' = "inserting" /\ at' = at
         ELSE at' = [at EXCEPT ![x] = "querying"] /\ hub' = hub
  BY DEF Grant
<1> HIDE DEF x
<1>4. x = "hub" => hub = "waiting"
  BY <1>2, McpAssumption DEF Waiting
<1>5. x # "hub" => x \in Requests /\ at[x] = "waiting"
  BY <1>2 DEF Waiting
<1>6. Waiting' = Waiting \ {x} /\ Holding' = Holding \cup {x}
  <2>1. CASE x = "hub"
    BY <2>1, <1>3, <1>4, McpAssumption DEF Waiting, Holding
  <2>2. CASE x # "hub"
    <3>1. \A r \in Requests : at'[r] = IF r = x THEN "querying" ELSE at[r]
      BY <2>2, <1>3, <1>5 DEF RequestsTyped
    <3> QED BY <3>1, <2>2, <1>3, <1>5, McpAssumption DEF Waiting, Holding
  <2> QED BY <2>1, <2>2
<1>7. IsFiniteSet(held') /\ Cardinality(held') <= MaxConns
  <2>1. IsFiniteSet(held) /\ Cardinality(held) \in Nat /\ MaxConns \in Nat
    BY McpAssumption, FS_CardinalityType DEF PoolInv
  <2>2. IsFiniteSet(held') /\ Cardinality(held') <= Cardinality(held) + 1
    BY <2>1, <1>3, FS_AddElement
  <2> QED BY <2>1, <2>2, <1>3, FS_CardinalityType
<1>8. PoolInv'
  <2>1. hub' \in {"idle", "waiting", "inserting"} /\ held' = Holding' /\ table' \in Seq(AnyRow)
    BY <1>3, <1>6 DEF PoolInv, PoolTyped
  <2> QED BY <2>1, <1>2, <1>6, <1>7 DEF PoolInv, PoolTyped, QueuedOnce, Members
<1> QED BY <1>3, <1>5, <1>8

-----------------------------------------------------------------------------
(* The requests                                                            *)

RequestsInv == RequestsTyped /\ Underway

(* An answer is formed.                                                    *)
LEMMA AnswerForms ==
  ASSUME RequestsInv, NEW r \in Requests, at[r] \in {"decoding", "waiting", "querying"},
         NEW a \in [kind : {"rows", "other"}, rows : SUBSET DOMAIN table], Answered(r, a),
         table' = table, written' = written
  PROVE  RequestsInv' /\ to' = to /\ \A q \in Requests : at'[q] = IF q = r THEN "sending" ELSE at[q]
<1>1. /\ at' = [at EXCEPT ![r] = "sending"] /\ answer' = [answer EXCEPT ![r] = a]
      /\ call' = [call EXCEPT ![r] = NoCall] /\ to' = to
  BY DEF Answered
<1>2. \A q \in Requests : at'[q] = IF q = r THEN "sending" ELSE at[q]
  BY <1>1 DEF RequestsInv, RequestsTyped
<1>3. RequestsTyped'
  <2>1. a \in [kind : {"none", "rows", "other"}, rows : SUBSET DOMAIN table']
    OBVIOUS
  <2>2. answer' \in [Requests -> [kind : {"none", "rows", "other"}, rows : SUBSET DOMAIN table']]
    BY <2>1, <1>1 DEF RequestsInv, RequestsTyped
  <2> QED BY <2>2, <1>1 DEF RequestsInv, RequestsTyped
<1>4. Underway'
  <2> SUFFICES ASSUME NEW q \in Requests
               PROVE  /\ at'[q] # "unsent" => to'[q] \in Sessions /\ written'[to'[q]] # <<>>
                      /\ at'[q] \in {"decoding", "waiting", "querying"} => call'[q] \in Call
                      /\ at'[q] # "sending" => answer'[q].kind = "none"
    BY DEF Underway
  <2>1. q # r => call'[q] = call[q] /\ answer'[q] = answer[q]
    BY <1>1 DEF RequestsInv, RequestsTyped
  <2> QED BY <2>1, <1>1, <1>2 DEF RequestsInv, Underway
<1> QED BY <1>1, <1>2, <1>3, <1>4 DEF RequestsInv

(* A request is posted.                                                    *)
LEMMA PostKeeps ==
  ASSUME RequestsInv, PoolInv, AnsweredOnce, StreamsTyped, Opened,
         NEW r \in Requests, NEW s \in Sessions, NEW c \in Calls[r], Post(r, s, c)
  PROVE  RequestsInv' /\ PoolInv' /\ AnsweredOnce' /\ StreamsTyped' /\ Opened'
<1> DEFINE x == IF s \in sessions THEN "decoding" ELSE "invalid session"
<1>1. /\ at[r] = "unsent" /\ written[s] # <<>> /\ at' = [at EXCEPT ![r] = x]
      /\ to' = [to EXCEPT ![r] = s] /\ call' = [call EXCEPT ![r] = c] /\ answer' = answer
      /\ UNCHANGED sessionVars /\ UNCHANGED poolVars
  BY DEF Post
<1>2. x \in {"decoding", "invalid session"} /\ c \in Call
  BY McpAssumption
<1> HIDE DEF x
<1>3. /\ \A q \in Requests : at'[q] = IF q = r THEN x ELSE at[q]
      /\ \A q \in Requests : to'[q] = IF q = r THEN s ELSE to[q]
      /\ \A q \in Requests : call'[q] = IF q = r THEN c ELSE call[q]
  BY <1>1 DEF RequestsInv, RequestsTyped
<1>4. StreamsTyped' /\ Opened' /\ \A t \in Sessions : Sent(t)' = Sent(t)
  BY <1>1, SameStreams
<1>5. RequestsTyped'
  BY <1>1, <1>2 DEF RequestsInv, RequestsTyped, poolVars
<1>6. Underway'
  <2> SUFFICES ASSUME NEW q \in Requests
               PROVE  /\ at'[q] # "unsent" => to'[q] \in Sessions /\ written'[to'[q]] # <<>>
                      /\ at'[q] \in {"decoding", "waiting", "querying"} => call'[q] \in Call
                      /\ at'[q] # "sending" => answer'[q].kind = "none"
    BY DEF Underway
  <2>1. written' = written
    BY <1>1 DEF sessionVars
  <2>2. CASE q = r
    <3>1. answer'[q].kind = "none"
      BY <2>2, <1>1 DEF RequestsInv, Underway
    <3> QED BY <3>1, <2>1, <2>2, <1>1, <1>2, <1>3
  <2>3. CASE q # r
    BY <2>3, <2>1, <1>1, <1>3 DEF RequestsInv, Underway
  <2> QED BY <2>2, <2>3
<1>7. PoolInv'
  BY <1>1, <1>2, <1>3, SamePool DEF poolVars
<1>8. AnsweredOnce'
  BY <1>1, <1>2, <1>3, <1>4, SameAnswers
<1> QED BY <1>4, <1>5, <1>6, <1>7, <1>8 DEF RequestsInv

(* A request begins to wait for a connection.                              *)
LEMMA CallToolKeeps ==
  ASSUME RequestsInv, PoolInv, AnsweredOnce, StreamsTyped, Opened,
         NEW r \in Requests, CallTool(r)
  PROVE  RequestsInv' /\ PoolInv' /\ AnsweredOnce' /\ StreamsTyped' /\ Opened'
<1>1. /\ at[r] = "decoding" /\ at' = [at EXCEPT ![r] = "waiting"] /\ queue' = Append(queue, r)
      /\ UNCHANGED <<to, call, answer>> /\ UNCHANGED sessionVars /\ UNCHANGED <<held, hub, table>>
  BY DEF CallTool
<1>2. \A q \in Requests : at'[q] = IF q = r THEN "waiting" ELSE at[q]
  BY <1>1 DEF RequestsInv, RequestsTyped
<1>3. StreamsTyped' /\ Opened' /\ \A t \in Sessions : Sent(t)' = Sent(t)
  BY <1>1, SameStreams
<1>4. RequestsTyped'
  BY <1>1 DEF RequestsInv, RequestsTyped
<1>5. Underway'
  <2>1. written' = written
    BY <1>1 DEF sessionVars
  <2> QED BY <2>1, <1>1, <1>2 DEF RequestsInv, Underway
<1>6. PoolInv'
  <2>1. r \notin Waiting
    BY <1>1, McpAssumption DEF Waiting
  <2>2. Waiting' = Waiting \cup {r} /\ Holding' = Holding
    BY <1>1, <1>2 DEF Waiting, Holding
  <2>3. hub' \in {"idle", "waiting", "inserting"}
    BY <1>1 DEF PoolInv, PoolTyped
  <2> QED BY <2>1, <2>2, <2>3, <1>1, PoolJoins
<1>7. AnsweredOnce'
  BY <1>1, <1>2, <1>3, SameAnswers
<1> QED BY <1>3, <1>4, <1>5, <1>6, <1>7 DEF RequestsInv

(* A request is answered: without a query, after it or in its place.       *)
LEMMA AnsweringKeeps ==
  ASSUME RequestsInv, PoolInv, AnsweredOnce, StreamsTyped, Opened,
         NEW r \in Requests, Decline(r) \/ Query(r) \/ QueryRefused(r)
  PROVE  RequestsInv' /\ PoolInv' /\ AnsweredOnce' /\ StreamsTyped' /\ Opened'
<1>1. /\ at[r] \in {"decoding", "waiting", "querying"} /\ UNCHANGED sessionVars /\ table' = table
      /\ hub' = hub
  BY DEF Decline, Query, QueryRefused, poolVars
<1>2. table \in Seq(AnyRow)
  BY DEF PoolInv, PoolTyped
<1>3. PICK a \in [kind : {"rows", "other"}, rows : SUBSET DOMAIN table] : Answered(r, a)
  <2>1. Other \in [kind : {"rows", "other"}, rows : SUBSET DOMAIN table]
    BY DEF Other
  <2>2. CASE Query(r)
    <3>1. call[r] \in Call
      BY <2>2 DEF Query, RequestsInv, Underway
    <3>2. Result(call[r]) \in [kind : {"rows", "other"}, rows : SUBSET DOMAIN table]
      BY <3>1, <1>2, ResultSound DEF Sound
    <3> QED BY <2>1, <2>2, <3>2 DEF Query
  <2> QED BY <2>1, <2>2 DEF Decline, QueryRefused
<1>4. /\ RequestsInv' /\ to' = to
      /\ \A q \in Requests : at'[q] = IF q = r THEN "sending" ELSE at[q]
  BY <1>1, <1>3, AnswerForms DEF sessionVars
<1>5. StreamsTyped' /\ Opened' /\ \A t \in Sessions : Sent(t)' = Sent(t)
  BY <1>1, SameStreams
<1>6. AnsweredOnce'
  BY <1>1, <1>4, <1>5, SameAnswers
<1>7. hub' \in {"idle", "waiting", "inserting"} /\ r # "hub"
  BY <1>1, McpAssumption DEF PoolInv, PoolTyped
<1>8. CASE Decline(r)
  <2>1. UNCHANGED <<queue, held, hub, table>> /\ at[r] = "decoding"
    BY <1>8 DEF Decline, poolVars
  <2>2. PoolInv'
    BY <2>1, <1>4, SamePool
  <2> QED BY <2>2, <1>4, <1>5, <1>6
<1>9. CASE Query(r)
  <2>1. held' = held \ {r} /\ queue' = queue /\ at[r] = "querying"
    BY <1>9 DEF Query
  <2>2. Waiting' = Waiting /\ Holding' = Holding \ {r}
    BY <2>1, <1>1, <1>4, <1>7 DEF Waiting, Holding
  <2> QED BY <2>1, <2>2, <1>1, <1>2, <1>4, <1>5, <1>6, <1>7, PoolReleases
<1>10. CASE QueryRefused(r)
  <2>1. Leave(r) /\ held' = held /\ at[r] = "waiting"
    BY <1>10 DEF QueryRefused
  <2>2. Waiting' = Waiting \ {r} /\ Holding' = Holding
    BY <2>1, <1>1, <1>4, <1>7 DEF Waiting, Holding
  <2> QED BY <2>1, <2>2, <1>1, <1>4, <1>5, <1>6, <1>7, PoolLeaves
<1> QED BY <1>4, <1>5, <1>6, <1>8, <1>9, <1>10

(* The answer goes into the channel of its session and nowhere else.       *)
LEMMA SendKeeps ==
  ASSUME RequestsInv, PoolInv, AnsweredOnce, StreamsTyped, Opened,
         NEW r \in Requests, SendResponse(r)
  PROVE  RequestsInv' /\ PoolInv' /\ AnsweredOnce' /\ StreamsTyped' /\ Opened'
<1>0. PICK s \in Sessions : to[r] = s /\ written[s] # <<>>
  <2>1. at[r] = "sending"
    BY DEF SendResponse
  <2> QED BY <2>1 DEF RequestsInv, Underway
<1> DEFINE e == eventChan[s]
           w == written[s]
<1>1. /\ at[r] = "sending" /\ at' = [at EXCEPT ![r] = "accepted"]
      /\ answer' = [answer EXCEPT ![r] = NoAnswer] /\ Len(e) < ChanCap
      /\ eventChan' = [eventChan EXCEPT ![s] = Append(e, r)]
      /\ UNCHANGED <<sessions, stream, written, peer>> /\ to' = to /\ call' = call
      /\ UNCHANGED poolVars
  BY <1>0 DEF SendResponse, Return
<1>2. s \in Sessions /\ w # <<>> /\ w \in Seq(Events) /\ e \in Seq(Events)
  BY <1>0 DEF StreamsTyped
<1>3. /\ \A q \in Requests : at'[q] = IF q = r THEN "accepted" ELSE at[q]
      /\ \A q \in Requests : answer'[q] = IF q = r THEN NoAnswer ELSE answer[q]
  BY <1>1 DEF RequestsInv, RequestsTyped
<1>4. /\ eventChan'[s] = Append(e, r)
      /\ \A t \in Sessions : t # s => eventChan'[t] = eventChan[t]
  BY <1>1, <1>2 DEF StreamsTyped
<1> DEFINE old == Sent(s)
<1>5. /\ Sent(s)' = Append(old, r) /\ old \in Seq(Events) /\ old # <<>>
      /\ \A t \in Sessions : t # s => Sent(t)' = Sent(t)
  <2>1. \A t \in Sessions : t # s => Sent(t)' = Sent(t)
    BY <1>1, <1>4 DEF Sent
  <2>2. Sent(s)' = w \o Append(e, r)
    BY <1>1, <1>4 DEF Sent
  <2>3. old = w \o e
    BY DEF Sent
  <2> HIDE DEF w, e, old
  <2>4. r \in Events /\ old \in Seq(Events) /\ old # <<>> /\ w \o Append(e, r) = Append(w \o e, r)
    BY <2>3, <1>2 DEF Events
  <2> QED BY <2>1, <2>2, <2>3, <2>4
<1>6. StreamsTyped'
  <2>1. Append(e, r) \in Seq(Events) /\ Len(Append(e, r)) = Len(e) + 1
    BY <1>2 DEF Events
  <2>2. Len(Append(e, r)) <= ChanCap
    <3>1. ChanCap \in Nat /\ Len(e) \in Nat
      BY <1>2, McpAssumption
    <3> HIDE DEF e
    <3> QED BY <3>1, <2>1, <1>1
  <2>3. eventChan' \in [Sessions -> Seq(Events)]
    <3> HIDE DEF e
    <3> QED BY <2>1, <1>1 DEF StreamsTyped
  <2>4. \A t \in Sessions : Len(eventChan'[t]) <= ChanCap
    <3> HIDE DEF e
    <3> QED BY <2>2, <1>4 DEF StreamsTyped
  <2> QED BY <2>3, <2>4, <1>1 DEF StreamsTyped
<1>7. Opened'
  <2>1. stream[s] # "none"
    BY <1>2, <1>5 DEF Opened
  <2> QED BY <2>1, <1>1, <1>5 DEF Opened
<1>8. RequestsInv'
  <2>1. RequestsTyped'
    <3>1. NoAnswer \in [kind : {"none", "rows", "other"}, rows : SUBSET DOMAIN table']
      BY DEF NoAnswer
    <3>2. answer' \in [Requests -> [kind : {"none", "rows", "other"}, rows : SUBSET DOMAIN table']]
      BY <3>1, <1>1 DEF RequestsInv, RequestsTyped, poolVars
    <3> QED BY <3>2, <1>1 DEF RequestsInv, RequestsTyped
  <2>2. Underway'
    BY <1>1, <1>3 DEF RequestsInv, Underway, NoAnswer
  <2> QED BY <2>1, <2>2 DEF RequestsInv
<1>9. PoolInv'
  BY <1>1, <1>3, SamePool DEF poolVars
<1>10. AnsweredOnce'
  <2> DEFINE mine == {q \in Requests : to[q] = s /\ at[q] = "accepted"}
             new == Append(old, r)
  <2>1. /\ old[1] = "endpoint" /\ \A i, j \in DOMAIN old : old[i] = old[j] => i = j
        /\ {old[i] : i \in DOMAIN old} \ {"endpoint"} = mine
    BY <1>2, <1>5 DEF AnsweredOnce
  <2>2. r \notin mine /\ r # "endpoint"
    BY <1>1, McpAssumption
  <2>3. {q \in Requests : to'[q] = s /\ at'[q] = "accepted"} = mine \cup {r}
    BY <1>0, <1>1, <1>3
  <2>4. \A t \in Sessions : t # s =>
          {q \in Requests : to'[q] = t /\ at'[q] = "accepted"} =
            {q \in Requests : to[q] = t /\ at[q] = "accepted"}
    BY <1>0, <1>1, <1>3
  <2>5. /\ new # <<>> /\ Len(old) \in Nat /\ Len(old) > 0 /\ DOMAIN old = 1..Len(old)
        /\ DOMAIN new = 1..(Len(old) + 1) /\ new[Len(old) + 1] = r
        /\ \A i \in 1..Len(old) : new[i] = old[i]
    <3> HIDE DEF old
    <3> QED BY <1>5
  <2> HIDE DEF old, new, mine
  <2>6. \A i \in 1..Len(old) : old[i] # r
    BY <2>1, <2>2, <2>5
  <2>7. new[1] = "endpoint"
    BY <2>1, <2>5
  <2>8. \A i, j \in DOMAIN new : new[i] = new[j] => i = j
    BY <2>1, <2>5, <2>6
  <2>9. {new[i] : i \in DOMAIN new} = {old[i] : i \in DOMAIN old} \cup {r}
    BY <2>5
  <2>10. {new[i] : i \in DOMAIN new} \ {"endpoint"} = mine \cup {r}
    BY <2>1, <2>2, <2>9
  <2>11. Sent(s)' = new
    BY <1>5 DEF new
  <2>12. ASSUME NEW t \in Sessions
         PROVE  /\ Sent(t)' # <<>> => (Sent(t)')[1] = "endpoint"
                /\ \A i, j \in DOMAIN Sent(t)' : (Sent(t)')[i] = (Sent(t)')[j] => i = j
                /\ {(Sent(t)')[i] : i \in DOMAIN Sent(t)'} \ {"endpoint"} =
                     {q \in Requests : to'[q] = t /\ at'[q] = "accepted"}
    <3> DEFINE next == Sent(t)'
               gets == {q \in Requests : to'[q] = t /\ at'[q] = "accepted"}
    <3>1. CASE t = s
      <4>1. next = new /\ gets = mine \cup {r}
        BY <3>1, <2>3, <2>11
      <4> HIDE DEF next, gets
      <4>2. /\ next # <<>> => next[1] = "endpoint"
            /\ \A i, j \in DOMAIN next : next[i] = next[j] => i = j
            /\ {next[i] : i \in DOMAIN next} \ {"endpoint"} = gets
        BY <4>1, <2>7, <2>8, <2>10
      <4> QED BY <4>2 DEF next, gets
    <3>2. CASE t # s
      <4> DEFINE now == Sent(t)
                 got == {q \in Requests : to[q] = t /\ at[q] = "accepted"}
      <4>1. /\ now # <<>> => now[1] = "endpoint"
            /\ \A i, j \in DOMAIN now : now[i] = now[j] => i = j
            /\ {now[i] : i \in DOMAIN now} \ {"endpoint"} = got
        BY DEF AnsweredOnce
      <4>2. next = now /\ gets = got
        BY <3>2, <2>4, <1>5
      <4> HIDE DEF now, got, next, gets
      <4>3. /\ next # <<>> => next[1] = "endpoint"
            /\ \A i, j \in DOMAIN next : next[i] = next[j] => i = j
            /\ {next[i] : i \in DOMAIN next} \ {"endpoint"} = gets
        BY <4>1, <4>2
      <4> QED BY <4>3 DEF next, gets
    <3> QED BY <3>1, <3>2
  <2> QED BY <2>12 DEF AnsweredOnce
<1> QED BY <1>6, <1>7, <1>8, <1>9, <1>10

-----------------------------------------------------------------------------
(* The theorems                                                            *)

Inductive == StreamsTyped /\ Opened /\ RequestsInv /\ PoolInv /\ AnsweredOnce

LEMMA Initially == Init => IInv
<1> SUFFICES ASSUME Init PROVE IInv
  OBVIOUS
<1>1. /\ ChanCap \in Nat \ {0} /\ MaxConns \in Nat \ {0} /\ Stored \in Seq(AnyRow)
      /\ "hub" \notin Requests
  BY McpAssumption
<1> DEFINE none == <<>>
<1>2. none \in Seq(Events) /\ Len(none) = 0 /\ none \o none = none /\ DOMAIN none = {} /\ none = <<>>
      /\ none \in Seq(Requests \cup {"hub"})
  OBVIOUS
<1>3. \A s \in Sessions : written[s] = none /\ eventChan[s] = none /\ Sent(s) = none
  BY <1>2 DEF Init, Sent
<1>4. StreamsTyped
  BY <1>1, <1>2, <1>3 DEF Init, StreamsTyped
<1>5. Opened /\ Underway
  BY <1>2, <1>3 DEF Init, Opened, Underway, NoAnswer
<1>6. RequestsTyped
  BY DEF Init, RequestsTyped, NoAnswer, NoCall
<1>7. Waiting = {} /\ Holding = {}
  BY DEF Init, Waiting, Holding
<1>8. Cardinality(held) <= MaxConns /\ IsFiniteSet(held)
  BY <1>1, FS_EmptySet DEF Init
<1>9. queue = none
  BY DEF Init
<1> HIDE DEF none
<1>10. PoolInv
  <2>1. {queue[i] : i \in DOMAIN queue} = Waiting /\ queue \in Seq(Requests \cup {"hub"})
        /\ QueuedOnce
    BY <1>2, <1>7, <1>9 DEF QueuedOnce, Once
  <2> QED BY <2>1, <1>1, <1>7, <1>8 DEF Init, PoolInv, PoolTyped
<1>11. AnsweredOnce
  <2>1. \A s \in Sessions : {r \in Requests : to[r] = s /\ at[r] = "accepted"} = {}
    BY DEF Init
  <2>2. {none[i] : i \in DOMAIN none} \ {"endpoint"} = {}
    BY <1>2
  <2> QED BY <1>2, <1>3, <2>1, <2>2 DEF AnsweredOnce
<1> QED BY <1>4, <1>5, <1>6, <1>10, <1>11 DEF IInv, TypeOK, PoolInv, Init

(* What the steps of main and of the context do to the phase.              *)
LEMMA MainTyped ==
  ASSUME IInv, [Next]_vars
  PROVE  main' \in {"running", "hub", "rest", "mcp", "closing", "exited"} /\ deadline' \in BOOLEAN
<1>0. main \in {"running", "hub", "rest", "mcp", "closing", "exited"} /\ deadline \in BOOLEAN
  BY DEF IInv, TypeOK
<1>1. CASE UNCHANGED mainVars
  BY <1>0, <1>1, Zenon DEF mainVars
<1>2. CASE Signal \/ MainStep \/ RestStopped \/ Expire
  <2>1. main' \in {"running", "hub", "rest", "mcp", "closing", "exited"}
    BY <1>0, <1>2 DEF Signal, MainStep, RestStopped, Expire, HubStopped, McpStopped, Closing,
                      StoreClosed, Phase
  <2>2. deadline' = deadline \/ deadline' \in {TRUE, FALSE}
    BY <1>2, Zenon DEF Signal, MainStep, RestStopped, Expire, HubStopped, McpStopped, Closing,
                      StoreClosed, Phase
  <2>3. deadline' \in BOOLEAN
    BY <1>0, <2>2, Zenon
  <2> QED BY <2>1, <2>3
<1>3. CASE \E s \in Sessions : Connect(s) \/ StreamStep(s) \/ PeerChanges(s)
  BY <1>1, <1>3 DEF Connect, StreamStep, TakeEvent, Written, EndStream, PeerChanges
<1>4. CASE \E r \in Requests : (\E s \in Sessions, c \in Calls[r] : Post(r, s, c)) \/ RequestStep(r)
  BY <1>1, <1>4 DEF Post, RequestStep, CallTool, Decline, Query, QueryRefused, SendResponse
<1>5. CASE Grant \/ HubBegins \/ HubEnds \/ HubGivesUp
  BY <1>1, <1>5 DEF Grant, HubBegins, HubEnds, HubGivesUp
<1>6. CASE UNCHANGED vars
  BY <1>1, <1>6 DEF vars
<1> QED BY <1>2, <1>3, <1>4, <1>5, <1>6 DEF Next

(* The hub begins to wait, inserts a row or none, or gives up.             *)
LEMMA HubKeeps ==
  ASSUME Inductive, HubBegins \/ HubEnds \/ HubGivesUp
  PROVE  Inductive'
<1>1. UNCHANGED sessionVars /\ UNCHANGED requestVars
  BY DEF HubBegins, HubEnds, HubGivesUp
<1>2. at' = at /\ to' = to
  BY <1>1 DEF requestVars
<1>3. table \in Seq(AnyRow) /\ "hub" \notin Requests /\ Incoming \subseteq AnyRow
  BY McpAssumption DEF Inductive, PoolInv, PoolTyped
<1>4. table' \in Seq(AnyRow) /\ DOMAIN table \subseteq DOMAIN table'
  <2>1. CASE table' = table
    BY <2>1, <1>3
  <2>2. CASE \E row \in Incoming : table' = Append(table, row)
    BY <2>2, <1>3
  <2> QED BY <2>1, <2>2 DEF HubBegins, HubEnds, HubGivesUp
<1>5. StreamsTyped' /\ Opened'
      /\ \A s \in Sessions : Sent(s)' = Sent(s) /\ (written[s] # <<>> => written'[s] # <<>>)
  BY <1>1, SameStreams DEF Inductive
<1>6. RequestsInv'
  BY <1>1, <1>4, <1>5, SameRequests DEF Inductive, RequestsInv
<1>7. AnsweredOnce'
  BY <1>2, <1>5, SameAnswers DEF Inductive
<1>8. CASE HubBegins
  <2>1. /\ hub = "idle" /\ hub' = "waiting" /\ queue' = Append(queue, "hub")
        /\ held' = held /\ table' = table
    BY <1>8 DEF HubBegins
  <2>2. "hub" \notin Waiting /\ Waiting' = Waiting \cup {"hub"} /\ Holding' = Holding
    BY <2>1, <1>2, <1>3 DEF Waiting, Holding
  <2>3. PoolInv'
    BY <2>1, <2>2, PoolJoins DEF Inductive
  <2> QED BY <2>3, <1>5, <1>6, <1>7 DEF Inductive
<1>9. CASE HubEnds
  <2>1. /\ hub = "inserting" /\ hub' = "idle" /\ held' = held \ {"hub"} /\ queue' = queue
    BY <1>9 DEF HubEnds
  <2>2. Waiting' = Waiting /\ Holding' = Holding \ {"hub"}
    BY <2>1, <1>2, <1>3 DEF Waiting, Holding
  <2>3. PoolInv'
    BY <2>1, <2>2, <1>4, PoolReleases DEF Inductive
  <2> QED BY <2>3, <1>5, <1>6, <1>7 DEF Inductive
<1>10. CASE HubGivesUp
  <2>1. /\ hub = "waiting" /\ hub' = "idle" /\ Leave("hub") /\ held' = held /\ table' = table
    BY <1>10 DEF HubGivesUp
  <2>2. Waiting' = Waiting \ {"hub"} /\ Holding' = Holding
    BY <2>1, <1>2, <1>3 DEF Waiting, Holding
  <2>3. PoolInv'
    BY <2>1, <2>2, PoolLeaves DEF Inductive
  <2> QED BY <2>3, <1>5, <1>6, <1>7 DEF Inductive
<1> QED BY <1>8, <1>9, <1>10

(* A step of a stream.                                                     *)
LEMMA StreamKeeps ==
  ASSUME Inductive, NEW s \in Sessions, Connect(s) \/ StreamStep(s) \/ PeerChanges(s)
  PROVE  Inductive'
<1>1. UNCHANGED requestVars /\ UNCHANGED poolVars
  BY DEF Connect, StreamStep, TakeEvent, Written, EndStream, PeerChanges
<1>2. at' = at /\ to' = to /\ UNCHANGED <<queue, held, hub, table>>
  BY <1>1 DEF requestVars, poolVars
<1>3. /\ StreamsTyped' /\ Opened' /\ AnsweredOnce'
      /\ \A t \in Sessions : written[t] # <<>> => written'[t] # <<>>
  <2>1. CASE Connect(s)
    BY <2>1, ConnectKeeps DEF Inductive
  <2>2. CASE TakeEvent(s)
    BY <2>2, <1>2, TakeKeeps, SameAnswers DEF Inductive
  <2>3. CASE Written(s) \/ EndStream(s) \/ PeerChanges(s)
    BY <2>3, <1>2, StreamTurns, SameAnswers DEF Inductive
  <2> QED BY <2>1, <2>2, <2>3 DEF StreamStep
<1>4. RequestsInv'
  BY <1>1, <1>2, <1>3, SameRequests DEF Inductive, RequestsInv
<1>5. PoolInv'
  BY <1>2, SamePool DEF Inductive
<1> QED BY <1>3, <1>4, <1>5 DEF Inductive

(* A step of a request.                                                    *)
LEMMA RequestKeeps ==
  ASSUME Inductive, NEW r \in Requests,
         (\E s \in Sessions, c \in Calls[r] : Post(r, s, c)) \/ RequestStep(r)
  PROVE  Inductive'
<1>1. CASE \E s \in Sessions, c \in Calls[r] : Post(r, s, c)
  BY <1>1, PostKeeps DEF Inductive
<1>2. CASE CallTool(r)
  BY <1>2, CallToolKeeps DEF Inductive
<1>3. CASE Decline(r) \/ Query(r) \/ QueryRefused(r)
  BY <1>3, AnsweringKeeps DEF Inductive
<1>4. CASE SendResponse(r)
  BY <1>4, SendKeeps DEF Inductive
<1> QED BY <1>1, <1>2, <1>3, <1>4 DEF RequestStep

(* A connection is granted.                                                *)
LEMMA PoolKeeps ==
  ASSUME Inductive, Grant
  PROVE  Inductive'
<1>1. UNCHANGED sessionVars /\ UNCHANGED <<to, call, answer>>
  BY DEF Grant
<1>2. /\ StreamsTyped' /\ Opened'
      /\ \A t \in Sessions : Sent(t)' = Sent(t)
  BY <1>1, SameStreams DEF Inductive
<1>3. /\ PoolInv' /\ table' = table
      /\ \/ at' = at
         \/ \E r \in Requests : at[r] = "waiting" /\ at' = [at EXCEPT ![r] = "querying"]
  BY GrantKeeps DEF Inductive, RequestsInv
<1>4. RequestsInv' /\ AnsweredOnce'
  <2>1. CASE at' = at
    <3>1. UNCHANGED requestVars /\ \A s \in Sessions : written[s] # <<>> => written'[s] # <<>>
      BY <2>1, <1>1 DEF requestVars, sessionVars
    <3>2. RequestsInv'
      BY <3>1, <1>3, SameRequests DEF Inductive, RequestsInv
    <3> QED BY <3>2, <2>1, <1>1, <1>2, SameAnswers DEF Inductive
  <2>2. ASSUME NEW r \in Requests, at[r] = "waiting", at' = [at EXCEPT ![r] = "querying"]
        PROVE  RequestsInv' /\ AnsweredOnce'
    <3>1. \A q \in Requests : at'[q] = IF q = r THEN "querying" ELSE at[q]
      BY <2>2 DEF Inductive, RequestsInv, RequestsTyped
    <3>2. RequestsTyped'
      BY <2>2, <1>1, <1>3 DEF Inductive, RequestsInv, RequestsTyped
    <3>3. Underway'
      <4>1. written' = written
        BY <1>1 DEF sessionVars
      <4> QED BY <4>1, <3>1, <2>2, <1>1 DEF Inductive, RequestsInv, Underway
    <3>4. AnsweredOnce'
      BY <3>1, <2>2, <1>1, <1>2, SameAnswers DEF Inductive
    <3> QED BY <3>2, <3>3, <3>4 DEF RequestsInv
  <2> QED BY <1>3, <2>1, <2>2
<1> QED BY <1>2, <1>3, <1>4 DEF Inductive

(* A step that concerns none of them.                                      *)
LEMMA OthersKeep ==
  ASSUME Inductive, UNCHANGED <<sessionVars, requestVars, poolVars>>
  PROVE  Inductive'
<1>1. /\ StreamsTyped' /\ Opened'
      /\ \A s \in Sessions : Sent(s)' = Sent(s) /\ (written[s] # <<>> => written'[s] # <<>>)
  BY SameStreams DEF Inductive
<1>2. at' = at /\ to' = to /\ UNCHANGED requestVars /\ UNCHANGED <<queue, held, hub, table>>
  BY DEF requestVars, poolVars
<1>3. RequestsInv'
  BY <1>1, <1>2, SameRequests DEF Inductive, RequestsInv
<1>4. PoolInv'
  BY <1>2, SamePool DEF Inductive
<1>5. AnsweredOnce'
  BY <1>1, <1>2, SameAnswers DEF Inductive
<1> QED BY <1>1, <1>3, <1>4, <1>5 DEF Inductive

LEMMA Preserved == IInv /\ [Next]_vars => IInv'
<1> SUFFICES ASSUME IInv, [Next]_vars PROVE IInv'
  OBVIOUS
<1>1. Inductive
  BY DEF IInv, TypeOK, Inductive, RequestsInv
<1>2. Inductive'
  <2>1. CASE \E s \in Sessions : Connect(s) \/ StreamStep(s) \/ PeerChanges(s)
    BY <2>1, <1>1, StreamKeeps
  <2>2. CASE \E r \in Requests : (\E s \in Sessions, c \in Calls[r] : Post(r, s, c)) \/ RequestStep(r)
    BY <2>2, <1>1, RequestKeeps
  <2>3. CASE Grant
    BY <2>3, <1>1, PoolKeeps
  <2>4. CASE HubBegins \/ HubEnds \/ HubGivesUp
    BY <2>4, <1>1, HubKeeps
  <2>5. CASE Signal \/ MainStep \/ RestStopped \/ Expire
    BY <2>5, <1>1, OthersKeep DEF Signal, MainStep, RestStopped, Expire, HubStopped, McpStopped,
                                 Closing, StoreClosed, Phase
  <2>6. CASE UNCHANGED vars
    BY <2>6, <1>1, OthersKeep DEF vars
  <2> QED BY <2>1, <2>2, <2>3, <2>4, <2>5, <2>6 DEF Next
<1>3. main' \in {"running", "hub", "rest", "mcp", "closing", "exited"} /\ deadline' \in BOOLEAN
  BY MainTyped
<1> QED BY <1>2, <1>3 DEF IInv, TypeOK, Inductive, RequestsInv, PoolInv

LEMMA Invariance == Spec => []IInv
<1>1. Init => IInv
  BY Initially
<1>2. IInv /\ [Next]_vars => IInv'
  BY Preserved
<1> QED BY <1>1, <1>2, PTL DEF Spec

(* The map of the sessions, the queue and the connections in use agree     *)
(* with where handleSSE, handleMessage and the hub are.                    *)
THEOREM TypeCorrect == Spec => []TypeOK
<1>1. IInv => TypeOK
  BY DEF IInv
<1> QED BY <1>1, Invariance, PTL

(* handleMessage puts every answer into the channel of its own session,    *)
(* behind the endpoint, once, however streams end and channels fill.       *)
THEOREM EveryAnswerOnce == Spec => []AnsweredOnce
<1>1. IInv => AnsweredOnce
  BY DEF IInv
<1> QED BY <1>1, Invariance, PTL

(* What the queries of the store return is not outdated by rows of other   *)
(* exchanges, and a limit, the caller's or the heatmap's own, cuts the     *)
(* oldest rows only.                                                       *)
THEOREM AnswersAreFresh == Spec => FreshAnswers
<1> DEFINE Fresh == \A r \in Requests : at[r] = "querying" /\ answer'[r].kind = "rows" =>
                       \A i \in Asked(call[r]) : Covers(call[r], answer'[r].rows, i)
<1>1. ASSUME IInv, [Next]_vars PROVE Fresh \/ UNCHANGED vars
  <2> SUFFICES ASSUME NEW r \in Requests, at[r] = "querying", answer'[r].kind = "rows"
               PROVE  \A i \in Asked(call[r]) : Covers(call[r], answer'[r].rows, i)
    OBVIOUS
  <2>1. /\ answer[r].kind = "none" /\ call[r] \in Call /\ table \in Seq(AnyRow)
        /\ answer \in [Requests -> [kind : {"none", "rows", "other"}, rows : SUBSET DOMAIN table]]
    BY <1>1 DEF IInv, Underway, TypeOK, RequestsTyped, PoolTyped
  <2>2. answer'[r] # answer[r]
    BY <2>1
  <2>3. PICK q \in Requests : (\E s \in Sessions, c \in Calls[q] : Post(q, s, c)) \/ RequestStep(q)
    <3>1. ~UNCHANGED requestVars
      BY <2>2 DEF requestVars
    <3>2. ~UNCHANGED answer
      BY <2>2
    <3> QED BY <1>1, <3>1, <3>2 DEF Next, vars, Connect, StreamStep, TakeEvent, Written, EndStream,
               PeerChanges, Grant, HubBegins, HubEnds, HubGivesUp, Signal, MainStep, RestStopped,
               Expire, HubStopped, McpStopped, Closing, StoreClosed, Phase
  <2>4. q = r
    <3>1. \A a : Answered(q, a) => answer' = [answer EXCEPT ![q] = a]
      BY DEF Answered
    <3> QED BY <2>1, <2>2, <2>3, <3>1 DEF Post, RequestStep, CallTool, Decline, Query, QueryRefused,
               SendResponse, Return
  <2>5. Query(r)
    BY <2>2, <2>3, <2>4 DEF Post, RequestStep, CallTool, Decline, QueryRefused, SendResponse
  <2>6. answer'[r] \in {Result(call[r]), Other}
    BY <2>1, <2>5 DEF Query, Answered
  <2>7. answer'[r] = Result(call[r])
    BY <2>6 DEF Other
  <2> QED BY <2>1, <2>7, ResultSound DEF Sound
<1>2. IInv /\ [Next]_vars => Fresh \/ UNCHANGED vars
  BY <1>1
<1> HIDE DEF Fresh
<1>3. Spec => [][Fresh]_vars
  BY <1>2, Invariance, PTL DEF Spec
<1> QED BY <1>3 DEF Fresh, FreshAnswers
=============================================================================
