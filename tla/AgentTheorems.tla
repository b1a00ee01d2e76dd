--------------------------- MODULE AgentTheorems ----------------------------
(* Proofs about the agents that MCServices runs: the customer's agent, the     *)
(* staff agent and the tools that a run's graph is given.  Each theorem is     *)
(* about the specification of one of them; what it needs of the constants is   *)
(* its ASSUME.                                                                 *)
EXTENDS Integers, Sequences, FiniteSets, TLAPS, WellFoundedInduction, SequenceTheorems,
        FiniteSetTheorems

CONSTANTS
  Sessions, CallsInMessage,                                      \* both agents
  Products, Quantities, MaxQuantity, MaxLines, ShopLimits,       \* ShoppingAgent
  MaxItems,
  Staff, Articles, FirstPrice, NewPrices, Caps, MaxAnalytics,    \* MerchantAgent
  StaffLimits, MaxChanges,
  Servers, Deployments, Catalog, ToolRuns, ToolUsers, Urls,      \* McpLoader
  Allowlists, Ttl, ToolTime, ToolEdits

VARIABLES cart, session, added, unanswered, unasked, price, changes, applied, approved, lost,
          deployed, authz, row, cache, now, edits, run

Shop == INSTANCE ShoppingAgent WITH Limits <- ShopLimits, MaxCalls <- CallsInMessage
Desk == INSTANCE MerchantAgent WITH
  Limits <- StaffLimits, MaxCalls <- CallsInMessage, Products <- Articles, User <- Staff
Mcp == INSTANCE McpLoader WITH
  Runs <- ToolRuns, Users <- ToolUsers, MaxTime <- ToolTime, MaxEdits <- ToolEdits

(* The least number of a set of numbers. *)
LEMMA LeastNumber ==
  ASSUME NEW T \in SUBSET Nat, T # {}
  PROVE  \E n \in T : \A m \in T : n <= m
<1> DEFINE R == OpToRel(<, Nat)
<1>1. IsWellFoundedOn(R, Nat)
  BY NatLessThanWellFounded
<1>2. \A x, y \in Nat : x < y => <<x, y>> \in R
  BY DEF OpToRel
<1> HIDE DEF R
<1>3. PICK n \in T : \A y \in T : <<y, n>> \notin R
  BY <1>1, WFMin
<1>4. ASSUME NEW m \in T PROVE n <= m
  <2>1. m \in Nat /\ n \in Nat
    OBVIOUS
  <2>2. ~ (m < n)
    BY <1>2, <1>3, <2>1, Zenon
  <2> QED BY <2>1, <2>2, SMT
<1> QED BY <1>4

(* Induction over the numbers, for a set. *)
LEMMA EveryNumber ==
  ASSUME NEW T, 0 \in T, \A n \in Nat : n \in T => n + 1 \in T
  PROVE  Nat \subseteq T
<1> SUFFICES ASSUME Nat \ T # {} PROVE FALSE
  OBVIOUS
<1>1. PICK n \in Nat \ T : \A m \in Nat \ T : n <= m
  <2>1. (Nat \ T) \in SUBSET Nat
    OBVIOUS
  <2> QED BY <2>1, LeastNumber
<1>2. n # 0 /\ n \in Nat
  OBVIOUS
<1>3. n - 1 \in Nat /\ (n - 1) + 1 = n /\ ~(n <= n - 1)
  BY <1>2
<1>4. n - 1 \in T
  BY <1>1, <1>3
<1> QED BY <1>3, <1>4

-----------------------------------------------------------------------------
(* Passes.                                                                     *)

Within(W, n, F) == \A w \in W, i \in 1..n : F[<<w, i>>] \in W
IsPass(f, n, start, F) == f[0] = start /\ \A i \in 1..n : f[i] = F[<<f[i - 1], i>>]

(* A function given by its first value and its steps exists. *)
LEMMA PassExists ==
  ASSUME NEW W, NEW n \in Nat, NEW start \in W, NEW F, Within(W, n, F)
  PROVE  \E f \in [0..n -> W] : IsPass(f, n, start, F)
<1> USE DEF Within
<1> DEFINE P(m) == \E f \in [0..m -> W] : f[0] = start /\ \A i \in 1..m : f[i] = F[<<f[i - 1], i>>]
           T == {m \in Nat : m <= n => P(m)}
<1>1. 0 \in T
  <2> DEFINE f == [i \in 0..0 |-> start]
  <2>1. f \in [0..0 -> W] /\ f[0] = start /\ \A i \in 1..0 : f[i] = F[<<f[i - 1], i>>]
    OBVIOUS
  <2> HIDE DEF f
  <2> QED BY <2>1
<1>2. ASSUME NEW m \in Nat, m \in T PROVE m + 1 \in T
  <2> SUFFICES ASSUME m + 1 <= n PROVE P(m + 1)
    OBVIOUS
  <2>1. PICK f \in [0..m -> W] : f[0] = start /\ \A i \in 1..m : f[i] = F[<<f[i - 1], i>>]
    BY <1>2
  <2>2. F[<<f[m], m + 1>>] \in W
    OBVIOUS
  <2> DEFINE g == [i \in 0..(m + 1) |-> IF i <= m THEN f[i] ELSE F[<<f[m], m + 1>>]]
  <2>3. g \in [0..(m + 1) -> W] /\ g[0] = start
    BY <2>1, <2>2
  <2>4. ASSUME NEW i \in 1..(m + 1) PROVE g[i] = F[<<g[i - 1], i>>]
    <3>1. CASE i <= m
      <4>1. i \in 1..m /\ i - 1 \in 0..m /\ i \in 0..m
        BY <3>1
      <4> QED BY <2>1, <4>1
    <3>2. CASE i = m + 1
      <4>1. g[i] = F[<<f[m], m + 1>>] /\ g[i - 1] = f[m]
        BY <3>2
      <4> QED BY <3>2, <4>1
    <3> QED BY <3>1, <3>2
  <2> HIDE DEF g
  <2> QED BY <2>3, <2>4
<1>3. Nat \subseteq T
  <2> HIDE DEF T
  <2> QED BY <1>1, <1>2, EveryNumber
<1> QED BY <1>3 DEF IsPass

(* What holds at first and after every step holds at the end. *)
LEMMA PassKeeps ==
  ASSUME NEW W, NEW n \in Nat, NEW f, f[0] \in W,
         \A i \in 1..n : f[i - 1] \in W => f[i] \in W
  PROVE  f[n] \in W
<1> DEFINE T == {m \in Nat : m <= n => f[m] \in W}
<1>1. 0 \in T
  OBVIOUS
<1>2. ASSUME NEW m \in Nat, m \in T PROVE m + 1 \in T
  <2>1. m + 1 <= n => m + 1 \in 1..n /\ (m + 1) - 1 = m
    OBVIOUS
  <2> QED BY <1>2, <2>1
<1>3. Nat \subseteq T
  <2> HIDE DEF T
  <2> QED BY <1>1, <1>2, EveryNumber
<1> QED BY <1>3

-----------------------------------------------------------------------------
(* The customer's agent.                                                       *)

ShopDeployment ==
  /\ IsFiniteSet(Products) /\ Quantities \subseteq Nat /\ MaxLines \in Nat
  /\ ShopLimits \subseteq Nat \ {0}

Replies == {"yes", "no"}

ShopSession ==
  [at : Shop!Nodes \cup {"idle", "paused"}, seen : SUBSET Products, calls : Seq(Shop!Calls),
   resume : Seq(Replies), answer : Replies \cup {"none"}, shown : [Products -> Nat], left : Nat]

ShopPass ==
  [cart : [Products -> Nat], resume : Seq(Replies), answer : Replies \cup {"none"}, asks : Nat,
   seen : SUBSET Products, snapshots : Nat, added : [Products -> Nat], stops : BOOLEAN,
   shown : [Products -> Nat], handed : BOOLEAN]

(* A pass that began with b keeps to the number of lines, hands off after a    *)
(* yes, shows a cart that is not empty and does not shrink, has put into the   *)
(* cart what it says it added, and has no answer that b did not have.          *)
ShopGood(b) ==
  {w \in ShopPass : /\ Shop!Lines(w.cart) <= MaxLines
                    /\ w.handed => "yes" \in Shop!Range(w.resume)
                    /\ w.stops => Shop!Lines(w.shown) > 0
                    /\ \A p \in Products : /\ w.cart[p] = b.cart[p] + w.added[p]
                                            /\ w.shown[p] <= w.cart[p]
                    /\ b.resume = <<>> /\ b.answer = "none" => w.resume = <<>> /\ w.answer = "none"}

LEMMA ShopCounts == \A S : Shop!Cardinality(S) = Cardinality(S)
BY DEF Shop!Cardinality, Cardinality

LEMMA LinesGrown ==
  ASSUME ShopDeployment, NEW c \in [Products -> Nat]
  PROVE  /\ Shop!Lines(c) \in Nat
         /\ \A p \in Products, n \in Nat : /\ Shop!Grown(c, p, n) \in [Products -> Nat]
                                           /\ Shop!Lines(Shop!Grown(c, p, n)) <= Shop!Lines(c) + 1
<1> DEFINE L(d) == {p \in Products : d[p] > 0}
<1>1. IsFiniteSet(L(c)) /\ Cardinality(L(c)) \in Nat
  <2>1. L(c) \in SUBSET Products
    OBVIOUS
  <2> QED BY <2>1, FS_Subset, FS_CardinalityType DEF ShopDeployment
<1>2. ASSUME NEW p \in Products, NEW n \in Nat
      PROVE  /\ Shop!Grown(c, p, n) \in [Products -> Nat]
             /\ Cardinality(L(Shop!Grown(c, p, n))) <= Cardinality(L(c)) + 1
  <2> DEFINE g == Shop!Grown(c, p, n)
  <2>1. g \in [Products -> Nat] /\ \A o \in Products : o # p => g[o] = c[o]
    BY DEF Shop!Grown
  <2> HIDE DEF g
  <2>2. L(g) \in SUBSET (L(c) \cup {p})
    BY <2>1
  <2>3. /\ IsFiniteSet(L(c) \cup {p})
        /\ Cardinality(L(c) \cup {p}) <= Cardinality(L(c)) + 1
        /\ Cardinality(L(c) \cup {p}) \in Nat
    <3> HIDE DEF L
    <3>1. /\ IsFiniteSet(L(c) \cup {p})
          /\ Cardinality(L(c) \cup {p}) = IF p \in L(c) THEN Cardinality(L(c)) ELSE Cardinality(L(c)) + 1
      BY <1>1, FS_AddElement
    <3> QED BY <1>1, <3>1
  <2>4. Cardinality(L(g)) <= Cardinality(L(c) \cup {p}) /\ Cardinality(L(g)) \in Nat
    <3> HIDE DEF L
    <3> QED BY <2>2, <2>3, FS_Subset, FS_CardinalityType
  <2>5. Cardinality(L(g)) <= Cardinality(L(c)) + 1
    <3> HIDE DEF L
    <3> QED BY <1>1, <2>3, <2>4
  <2> QED BY <2>1, <2>5 DEF g
<1> QED BY <1>1, <1>2, ShopCounts DEF Shop!Lines

(* interrupt() changes the answers of a pass only, and what it gives back is   *)
(* one of them.                                                                *)
LEMMA ShopAsks ==
  ASSUME NEW w \in ShopPass
  PROVE  LET a == Shop!interrupt(w) IN
         /\ a.answer \in Replies \cup {"none"} /\ a.w \in ShopPass
         /\ a.w.cart = w.cart /\ a.w.added = w.added /\ a.w.stops = w.stops
         /\ a.w.shown = w.shown /\ a.w.handed = w.handed /\ a.w.snapshots = w.snapshots
         /\ Shop!Range(w.resume) \subseteq Shop!Range(a.w.resume)
         /\ a.answer = "yes" => "yes" \in Shop!Range(a.w.resume)
         /\ w.resume = <<>> /\ w.answer = "none" => a.w.resume = <<>> /\ a.w.answer = "none"
<1> DEFINE a == Shop!interrupt(w)
           n == w.asks + 1
<1>0. n \in Nat /\ w.resume \in Seq(Replies) /\ w.answer \in Replies \cup {"none"} /\ "none" \notin Replies
  BY DEF ShopPass, Replies
<1>1. CASE w.asks < Len(w.resume)
  <2>1. n \in DOMAIN w.resume /\ w.resume[n] \in Replies /\ w.resume # <<>>
    BY <1>1 DEF ShopPass
  <2>2. a = [answer |-> w.resume[n], w |-> [w EXCEPT !.asks = n]]
    BY <1>1 DEF Shop!interrupt
  <2> DEFINE v == [w EXCEPT !.asks = n]
  <2>3. v \in ShopPass /\ v.resume = w.resume
            /\ v.cart = w.cart /\ v.added = w.added /\ v.stops = w.stops /\ v.shown = w.shown
            /\ v.handed = w.handed /\ v.snapshots = w.snapshots
    <3> HIDE DEF n
    <3> QED BY <1>0 DEF ShopPass
  <2> HIDE DEF v, a, n
  <2>4. "yes" = w.resume[n] => "yes" \in Shop!Range(w.resume)
    BY <2>1 DEF Shop!Range
  <2>5. a.answer = w.resume[n] /\ a.w = v
    BY <2>2 DEF v
  <2> QED BY <2>1, <2>3, <2>4, <2>5 DEF a
<1>2. CASE ~(w.asks < Len(w.resume)) /\ w.answer = "none"
  <2>1. a = [answer |-> w.answer, w |-> [w EXCEPT !.asks = n, !.answer = "none"]]
    BY <1>2 DEF Shop!interrupt, ShopPass
  <2> DEFINE v == [w EXCEPT !.asks = n, !.answer = "none"]
  <2>2. v \in ShopPass /\ v.resume = w.resume /\ v.answer = "none"
            /\ v.cart = w.cart /\ v.added = w.added /\ v.stops = w.stops /\ v.shown = w.shown
            /\ v.handed = w.handed /\ v.snapshots = w.snapshots
    <3> HIDE DEF n
    <3> QED BY <1>0 DEF ShopPass
  <2> HIDE DEF v, a, n
  <2>3. a.answer = "none" /\ a.w = v
    BY <1>2, <2>1 DEF v
  <2> QED BY <2>2, <2>3 DEF a
<1>3. CASE ~(w.asks < Len(w.resume)) /\ w.answer # "none"
  <2> DEFINE s == Append(w.resume, w.answer)
  <2>1. a = [answer |-> w.answer,
             w |-> [w EXCEPT !.asks = n, !.answer = "none", !.resume = s]]
    BY <1>3 DEF Shop!interrupt
  <2>2. w.answer \in Replies /\ w.resume \in Seq(Replies)
    BY <1>3 DEF ShopPass
  <2>3. s \in Seq(Replies) /\ Shop!Range(w.resume) \subseteq Shop!Range(s) /\ w.answer \in Shop!Range(s)
    <3>1. s \in Seq(Replies) /\ Len(s) = Len(w.resume) + 1
          /\ (\A i \in 1..Len(w.resume) : s[i] = w.resume[i]) /\ s[Len(w.resume) + 1] = w.answer
      BY <2>2
    <3> HIDE DEF s
    <3>2. \A i \in DOMAIN w.resume : i \in DOMAIN s /\ s[i] = w.resume[i]
      BY <2>2, <3>1
    <3>3. Len(w.resume) + 1 \in DOMAIN s
      BY <2>2, <3>1
    <3> QED BY <3>1, <3>2, <3>3 DEF Shop!Range
  <2> HIDE DEF s
  <2> DEFINE v == [w EXCEPT !.asks = n, !.answer = "none", !.resume = s]
  <2>4. v \in ShopPass /\ v.resume = s
            /\ v.cart = w.cart /\ v.added = w.added /\ v.stops = w.stops /\ v.shown = w.shown
            /\ v.handed = w.handed /\ v.snapshots = w.snapshots
    <3> HIDE DEF n
    <3> QED BY <1>0, <2>3 DEF ShopPass
  <2> HIDE DEF v, a, n
  <2>5. a.answer = w.answer /\ a.w = v
    BY <2>1 DEF v
  <2> QED BY <1>3, <2>2, <2>3, <2>4, <2>5 DEF a
<1> QED BY <1>1, <1>2, <1>3 DEF ShopPass

(* Every tool keeps a pass good. *)
LEMMA ShopTool ==
  ASSUME ShopDeployment, NEW ses \in ShopSession, NEW b, b.cart \in [Products -> Nat],
         NEW w \in ShopGood(b), NEW c \in Shop!Calls
  PROVE  Shop!Tool(ses, w, c) \in ShopGood(b)
<1>1. w \in ShopPass /\ Shop!Lines(w.cart) <= MaxLines /\ w.cart \in [Products -> Nat]
  BY DEF ShopGood, ShopPass
<1>7. ASSUME NEW v \in ShopPass, v.cart = w.cart, v.added = w.added, v.shown = w.shown,
             v.handed = w.handed, v.stops = w.stops, v.resume = w.resume, v.answer = w.answer
      PROVE  v \in ShopGood(b)
  BY <1>7 DEF ShopGood
<1>2. CASE c.tool = "search"
  <2>1. c.product \in Products
    BY <1>2 DEF Shop!Calls
  <2> DEFINE v == [w EXCEPT !.seen = @ \cup {c.product}]
  <2>2. v \in ShopPass
    BY <1>1, <2>1 DEF ShopPass
  <2>3. v \in ShopGood(b)
    <3>1. /\ v.cart = w.cart /\ v.added = w.added /\ v.shown = w.shown /\ v.handed = w.handed
          /\ v.stops = w.stops /\ v.resume = w.resume /\ v.answer = w.answer
      BY <1>1 DEF ShopPass
    <3> HIDE DEF v
    <3> QED BY <1>7, <2>2, <3>1
  <2> QED BY <1>2, <2>3 DEF Shop!Tool, Shop!search_products
<1>3. CASE c.tool = "get_cart"
  <2> DEFINE n == w.snapshots + 1
             v == [w EXCEPT !.snapshots = n]
  <2>0. n \in Nat
    BY <1>1 DEF ShopPass
  <2>1. v \in ShopPass
    <3> HIDE DEF n
    <3> QED BY <1>1, <2>0 DEF ShopPass
  <2>2. v \in ShopGood(b)
    <3>1. /\ v.cart = w.cart /\ v.added = w.added /\ v.shown = w.shown /\ v.handed = w.handed
          /\ v.stops = w.stops /\ v.resume = w.resume /\ v.answer = w.answer
      BY <1>1 DEF ShopPass
    <3> HIDE DEF v
    <3> QED BY <1>7, <2>1, <3>1
  <2> QED BY <1>3, <2>2 DEF Shop!Tool, Shop!get_cart
<1>4. CASE c.tool = "add"
  <2> DEFINE g == Shop!Grown(w.cart, c.product, c.quantity)
             v == [w EXCEPT !.cart = g, !.snapshots = @ + 1, !.added[c.product] = @ + c.quantity]
  <2>1. c.product \in Products /\ c.quantity \in Nat
    BY <1>4 DEF Shop!Calls, ShopDeployment
  <2>2. ASSUME Shop!check_cart_size(Shop!Lines(w.cart)) PROVE v \in ShopGood(b)
    <3>1. g \in [Products -> Nat] /\ Shop!Lines(g) <= MaxLines
      <4>1. /\ g \in [Products -> Nat] /\ Shop!Lines(g) <= Shop!Lines(w.cart) + 1
            /\ Shop!Lines(w.cart) \in Nat /\ Shop!Lines(g) \in Nat
        BY <1>1, <2>1, LinesGrown
      <4>2. Shop!Lines(w.cart) < MaxLines
        BY <2>2 DEF Shop!check_cart_size
      <4> HIDE DEF g
      <4> QED BY <4>1, <4>2 DEF ShopDeployment
    <3> HIDE DEF g
    <3>2. v \in ShopPass
      <4> DEFINE n == w.snapshots + 1
                 m == [w.added EXCEPT ![c.product] = @ + c.quantity]
                 u == [w EXCEPT !.cart = g, !.snapshots = n, !.added = m]
      <4>0. w.snapshots \in Nat /\ w.added \in [Products -> Nat]
        BY <1>1 DEF ShopPass
      <4>1. n \in Nat /\ m \in [Products -> Nat]
        BY <2>1, <4>0
      <4>2. v = u
        OBVIOUS
      <4> HIDE DEF n, m, v
      <4>3. u \in ShopPass
        BY <1>1, <3>1, <4>1 DEF ShopPass
      <4> QED BY <4>2, <4>3
    <3>3. /\ v.cart = g /\ v.handed = w.handed /\ v.resume = w.resume /\ v.stops = w.stops
          /\ v.shown = w.shown /\ v.answer = w.answer
          /\ v.added = [w.added EXCEPT ![c.product] = @ + c.quantity]
      BY <1>1 DEF ShopPass
    <3>4. \A p \in Products : /\ g[p] = IF p = c.product THEN w.cart[p] + c.quantity ELSE w.cart[p]
                              /\ w.cart[p] \in Nat /\ w.added[p] \in Nat /\ w.shown[p] \in Nat
                              /\ b.cart[p] \in Nat
                              /\ w.cart[p] = b.cart[p] + w.added[p] /\ w.shown[p] <= w.cart[p]
      BY <1>1, <2>1 DEF Shop!Grown, ShopGood, ShopPass, g
    <3> HIDE DEF v
    <3>5. \A p \in Products :
            v.added[p] = IF p = c.product THEN w.added[p] + c.quantity ELSE w.added[p]
      BY <1>1, <2>1, <3>3 DEF ShopPass
    <3>6. \A p \in Products : g[p] = b.cart[p] + v.added[p] /\ w.shown[p] <= g[p]
      BY <2>1, <3>4, <3>5
    <3> QED BY <3>1, <3>2, <3>3, <3>6 DEF ShopGood
  <2>3. Shop!Tool(ses, w, c) = Shop!add_to_cart(ses, w, c)
    BY <1>4 DEF Shop!Tool
  <2>4. \/ Shop!add_to_cart(ses, w, c) = v /\ Shop!check_cart_size(Shop!Lines(w.cart))
        \/ Shop!add_to_cart(ses, w, c) = w
    BY DEF Shop!add_to_cart
  <2> HIDE DEF v
  <2> QED BY <2>2, <2>3, <2>4
<1>5. CASE c.tool = "checkout"
  <2> DEFINE a == Shop!interrupt(w)
             x == [a.w EXCEPT !.stops = TRUE, !.shown = IF w.stops THEN @ ELSE w.cart]
             y == [a.w EXCEPT !.handed = @ \/ Shop!Approves(a.answer)]
  <2>1. /\ a.answer \in Replies \cup {"none"} /\ a.w \in ShopPass
        /\ a.w.cart = w.cart /\ a.w.added = w.added /\ a.w.stops = w.stops /\ a.w.shown = w.shown /\ a.w.handed = w.handed
        /\ Shop!Range(w.resume) \subseteq Shop!Range(a.w.resume)
        /\ a.answer = "yes" => "yes" \in Shop!Range(a.w.resume)
        /\ w.resume = <<>> /\ w.answer = "none" => a.w.resume = <<>> /\ a.w.answer = "none"
    BY <1>1, ShopAsks
  <2> HIDE DEF a
  <2>2. ASSUME ~Shop!EmptyCart(w.cart) PROVE x \in ShopGood(b)
    <3>1. Shop!Lines(w.cart) > 0
      <4>1. Shop!Lines(w.cart) \in Nat
        BY <1>1, LinesGrown
      <4> QED BY <2>2, <4>1 DEF Shop!EmptyCart
    <3>2. x \in ShopPass
      BY <1>1, <2>1 DEF ShopPass
    <3>3. /\ x.cart = w.cart /\ x.handed = w.handed /\ x.resume = a.w.resume
          /\ x.shown = IF w.stops THEN w.shown ELSE w.cart
          /\ x.added = w.added /\ x.answer = a.w.answer
      BY <2>1 DEF ShopPass
    <3>4. \A p \in Products : x.shown[p] <= w.cart[p] /\ w.cart[p] = b.cart[p] + w.added[p]
      <4>1. \A p \in Products : w.cart[p] \in Nat /\ w.cart[p] <= w.cart[p]
        BY <1>1
      <4>2. \A p \in Products : w.shown[p] <= w.cart[p] /\ w.cart[p] = b.cart[p] + w.added[p]
        BY DEF ShopGood
      <4> HIDE DEF x
      <4> QED BY <3>3, <4>1, <4>2
    <3> HIDE DEF x
    <3> QED BY <1>1, <2>1, <3>1, <3>2, <3>3, <3>4 DEF ShopGood
  <2>3. y \in ShopGood(b)
    <3>1. y \in ShopPass
      BY <2>1 DEF ShopPass
    <3>2. /\ y.cart = w.cart /\ y.stops = w.stops /\ y.shown = w.shown /\ y.resume = a.w.resume
          /\ y.handed => (w.handed \/ a.answer = "yes")
          /\ y.added = w.added /\ y.answer = a.w.answer
      BY <2>1 DEF ShopPass, Shop!Approves
    <3> HIDE DEF y
    <3> QED BY <1>1, <2>1, <3>1, <3>2 DEF ShopGood
  <2>4. Shop!Tool(ses, w, c) = Shop!checkout(w)
    BY <1>5 DEF Shop!Tool
  <2>5. \/ Shop!checkout(w) = w
        \/ Shop!checkout(w) = x /\ ~Shop!EmptyCart(w.cart)
        \/ Shop!checkout(w) = y
    BY DEF Shop!checkout, a
  <2> HIDE DEF x, y
  <2> QED BY <2>2, <2>3, <2>4, <2>5
<1>6. c.tool \in {"search", "get_cart", "add", "checkout"}
  BY DEF Shop!Calls
<1> QED BY <1>2, <1>3, <1>4, <1>5, <1>6

(* The pass with which the tools node begins. *)
ShopStart(s) ==
  [cart |-> cart, resume |-> session[s].resume, answer |-> session[s].answer, asks |-> 0,
   seen |-> session[s].seen, snapshots |-> 0, added |-> Shop!Nothing, stops |-> FALSE,
   shown |-> session[s].shown, handed |-> FALSE]

(* The tools node executes the calls of the message one after the other. *)
LEMMA ShopNode ==
  ASSUME ShopDeployment, NEW s, session[s] \in ShopSession, ShopStart(s) \in ShopGood(ShopStart(s))
  PROVE  LET calls == session[s].calls IN
         \E f : /\ f[0] = ShopStart(s)
                /\ \A i \in 1..Len(calls) : f[i] = Shop!Tool(session[s], f[i - 1], calls[i])
                /\ Shop!ToolNode(s) = f[Len(calls)]
<1> DEFINE ses == session[s]
           calls == ses.calls
           n == Len(calls)
           Is(f) == f = [i \in 0..n |-> IF i = 0 THEN ShopStart(s) ELSE Shop!Tool(ses, f[i - 1], calls[i])]
           W == ShopGood(ShopStart(s))
<1>1. calls \in Seq(Shop!Calls) /\ n \in Nat
  BY DEF ShopSession
<1>0. ShopStart(s).cart \in [Products -> Nat]
  BY DEF ShopGood, ShopPass
<1>2. \E f : Is(f)
  <2> DEFINE F == [x \in W \X (1..n) |-> Shop!Tool(ses, x[1], calls[x[2]])]
  <2>1. \A w \in W, i \in 1..n : F[<<w, i>>] = Shop!Tool(ses, w, calls[i]) /\ F[<<w, i>>] \in W
    <3>1. \A i \in 1..n : calls[i] \in Shop!Calls
      BY <1>1
    <3>2. \A w \in W, i \in 1..n : Shop!Tool(ses, w, calls[i]) \in W
      BY <1>0, <3>1, ShopTool
    <3> HIDE DEF W
    <3> QED BY <3>2
  <2> HIDE DEF F, W
  <2>2. PICK f \in [0..n -> W] : f[0] = ShopStart(s) /\ \A i \in 1..n : f[i] = F[<<f[i - 1], i>>]
    <3>0. ShopStart(s) \in W
      BY DEF W
    <3>1. Within(W, n, F)
      BY <2>1 DEF Within
    <3> HIDE DEF n
    <3>2. \E f \in [0..n -> W] : IsPass(f, n, ShopStart(s), F)
      BY <1>1, <3>0, <3>1, PassExists
    <3> QED BY <3>2 DEF IsPass
  <2>3. ASSUME NEW i \in 0..n
        PROVE  f[i] = IF i = 0 THEN ShopStart(s) ELSE Shop!Tool(ses, f[i - 1], calls[i])
    <3>1. i # 0 => i \in 1..n /\ i - 1 \in 0..n
      BY <1>1
    <3>2. i # 0 => f[i - 1] \in W
      BY <3>1
    <3> HIDE DEF n, ses, calls
    <3> QED BY <2>1, <2>2, <3>1, <3>2
  <2>4. f = [i \in 0..n |-> f[i]]
    OBVIOUS
  <2> HIDE DEF n, ses, calls
  <2>5. Is(f)
    BY <2>3, <2>4
  <2> QED BY <2>5
<1> DEFINE g == CHOOSE f : Is(f)
<1>3. Is(g)
  <2> HIDE DEF Is
  <2> QED BY <1>2
<1>4. Shop!ToolNode(s) = g[n]
  BY DEF Shop!ToolNode, ShopStart
<1> HIDE DEF g
<1>5. \A i \in 0..n : g[i] = IF i = 0 THEN ShopStart(s) ELSE Shop!Tool(ses, g[i - 1], calls[i])
  <2> DEFINE B(i) == IF i = 0 THEN ShopStart(s) ELSE Shop!Tool(ses, g[i - 1], calls[i])
  <2>1. g = [i \in 0..n |-> B(i)]
    BY <1>3, Zenon
  <2>2. \A i \in 0..n : g[i] = B(i)
    <3> HIDE DEF B, n
    <3> QED BY <2>1
  <2> QED BY <2>2
<1>6. g[0] = ShopStart(s)
  <2>1. 0 \in 0..n
    BY <1>1
  <2> QED BY <1>5, <2>1
<1>7. ASSUME NEW i \in 1..n PROVE g[i] = Shop!Tool(ses, g[i - 1], calls[i])
  <2>1. i \in 0..n /\ i # 0
    BY <1>1
  <2> HIDE DEF n
  <2> QED BY <1>5, <2>1
<1> QED BY <1>4, <1>6, <1>7

LEMMA ShopNodeGood ==
  ASSUME ShopDeployment, NEW s, session[s] \in ShopSession, ShopStart(s) \in ShopGood(ShopStart(s))
  PROVE  Shop!ToolNode(s) \in ShopGood(ShopStart(s))
<1> DEFINE calls == session[s].calls
           W == ShopGood(ShopStart(s))
<1>1. PICK f : /\ f[0] = ShopStart(s)
               /\ \A i \in 1..Len(calls) : f[i] = Shop!Tool(session[s], f[i - 1], calls[i])
               /\ Shop!ToolNode(s) = f[Len(calls)]
  BY ShopNode
<1>2. calls \in Seq(Shop!Calls)
  BY DEF ShopSession
<1>3. Len(calls) \in Nat /\ \A i \in 1..Len(calls) : calls[i] \in Shop!Calls
  BY <1>2
<1> HIDE DEF calls
<1>0. ShopStart(s).cart \in [Products -> Nat] /\ f[0] \in W
  BY <1>1 DEF ShopGood, ShopPass
<1>4. \A i \in 1..Len(calls) : f[i - 1] \in W => f[i] \in W
  BY <1>0, <1>1, <1>3, ShopTool
<1> HIDE DEF W
<1>5. f[Len(calls)] \in W
  BY <1>0, <1>3, <1>4, PassKeeps
<1> QED BY <1>1, <1>5 DEF W

(* A session has answers only about a cart that was shown, and what was shown  *)
(* is in the cart.                                                             *)
ShopSound(ses, c) ==
  /\ ses.at = "paused" => Shop!Lines(ses.shown) > 0
  /\ Shop!Lines(ses.shown) > 0 \/ (ses.resume = <<>> /\ ses.answer = "none")
  /\ \A p \in Products : ses.shown[p] <= c[p]

ShopInv ==
  /\ cart \in [Products -> Nat] /\ added \in [Products -> Nat]
  /\ session \in [Sessions -> ShopSession]
  /\ \A s \in Sessions : ShopSound(session[s], cart)
  /\ Shop!CartSize /\ Shop!HandoffApproved /\ Shop!CartAsAnswered

LEMMA EmptyLines == Shop!Nothing \in [Products -> Nat] /\ Shop!Lines(Shop!Nothing) = 0
<1>1. {p \in Products : Shop!Nothing[p] > 0} = {}
  BY DEF Shop!Nothing
<1>2. Shop!Lines(Shop!Nothing) = Cardinality({})
  BY <1>1, ShopCounts DEF Shop!Lines
<1> QED BY <1>2, FS_EmptySet DEF Shop!Nothing

LEMMA ShopEnded ==
  ASSUME NEW ses \in ShopSession
  PROVE  Shop!Ended(ses) = [at |-> "idle", seen |-> ses.seen, calls |-> <<>>, resume |-> <<>>,
                            answer |-> "none", shown |-> Shop!Nothing, left |-> 0]
         /\ Shop!Ended(ses) \in ShopSession
<1>1. Shop!Ended(ses) = [at |-> "idle", seen |-> ses.seen, calls |-> <<>>, resume |-> <<>>,
                         answer |-> "none", shown |-> Shop!Nothing, left |-> 0]
  BY DEF Shop!Ended, Shop!Fresh
<1>2. <<>> \in Seq(Shop!Calls) /\ <<>> \in Seq(Replies) /\ ses.seen \in SUBSET Products
  BY DEF ShopSession
<1> QED BY <1>1, <1>2, EmptyLines DEF ShopSession

LEMMA ShopMessages == {<<>>} \cup Shop!Messages \subseteq Seq(Shop!Calls)
<1>1. ASSUME NEW n \in 1..CallsInMessage, NEW b \in [1..n -> Shop!Calls] PROVE b \in Seq(Shop!Calls)
  <2>1. n \in Nat
    OBVIOUS
  <2> QED BY <2>1
<1>2. <<>> \in Seq(Shop!Calls)
  OBVIOUS
<1> QED BY <1>1, <1>2 DEF Shop!Messages

(* A step that only moves a session, to another place than paused: it keeps    *)
(* what was shown and answered, has an answer about what was shown, or forgets *)
(* both.                                                                       *)
LEMMA ShopMoves ==
  ASSUME ShopInv, NEW s \in Sessions, NEW ses \in ShopSession, ses.at # "paused",
         \/ /\ ses.shown = session[s].shown
            /\ \/ Shop!Lines(ses.shown) > 0
               \/ ses.resume = session[s].resume /\ ses.answer = session[s].answer
         \/ ses.shown = Shop!Nothing /\ ses.resume = <<>> /\ ses.answer = "none",
         session' = [session EXCEPT ![s] = ses], UNCHANGED <<cart, added, unanswered, unasked>>
  PROVE  ShopInv'
<1>1. session' \in [Sessions -> ShopSession]
  BY DEF ShopInv
<1>2. \A t \in Sessions : session'[t] = IF t = s THEN ses ELSE session[t]
  BY DEF ShopInv
<1>3. ShopSound(session[s], cart)
  BY DEF ShopInv
<1>4. ShopSound(ses, cart)
  <2>1. \A p \in Products : Shop!Nothing[p] <= cart[p]
    BY DEF ShopInv, Shop!Nothing
  <2>2. CASE ses.shown = session[s].shown
    BY <1>3, <2>2, EmptyLines DEF ShopSound
  <2>3. CASE ses.shown = Shop!Nothing /\ ses.resume = <<>> /\ ses.answer = "none"
    BY <2>1, <2>3 DEF ShopSound
  <2> QED BY <2>2, <2>3
<1>5. \A t \in Sessions : ShopSound(session'[t], cart)
  BY <1>2, <1>4 DEF ShopInv
<1> QED BY <1>1, <1>5 DEF ShopInv, Shop!CartSize, Shop!HandoffApproved, Shop!CartAsAnswered

LEMMA ShopSteps ==
  ASSUME ShopInv, NEW s \in Sessions, NEW from, NEW to \in Shop!Nodes, Shop!Steps(s, from, to)
  PROVE  ShopInv'
<1>1. session[s] \in ShopSession
  BY DEF ShopInv
<1> DEFINE n == session[s].left - 1
           ses == [session[s] EXCEPT !.at = to, !.left = n]
<1>2. /\ ses \in ShopSession /\ ses.at # "paused"
      /\ ses.shown = session[s].shown /\ ses.resume = session[s].resume /\ ses.answer = session[s].answer
  <2>1. n \in Nat
    BY <1>1 DEF ShopSession, Shop!Steps
  <2>2. to \in Shop!Nodes \cup {"idle", "paused"} /\ to # "paused"
    BY DEF Shop!Nodes
  <2> HIDE DEF n
  <2> QED BY <1>1, <2>1, <2>2 DEF ShopSession
<1>3. session' = [session EXCEPT ![s] = ses] /\ UNCHANGED <<cart, added, unanswered, unasked>>
  BY DEF Shop!Steps, ShopInv
<1> HIDE DEF ses
<1> QED BY <1>2, <1>3, ShopMoves

LEMMA ShopTools ==
  ASSUME ShopDeployment, ShopInv, NEW s \in Sessions, Shop!Tools(s)
  PROVE  ShopInv'
<1> DEFINE w == Shop!ToolNode(s)
           ses == session[s]
<1>1. ses \in ShopSession
  BY DEF ShopInv
<1>2. ShopStart(s) \in ShopGood(ShopStart(s))
  <2>1. ShopStart(s) \in ShopPass
    BY <1>1, EmptyLines DEF ShopStart, ShopPass, ShopSession, ShopInv
  <2>2. Shop!Lines(cart) <= MaxLines
    BY DEF ShopInv, Shop!CartSize
  <2>3. \A p \in Products : cart[p] = cart[p] + Shop!Nothing[p] /\ ses.shown[p] <= cart[p]
    BY DEF ShopInv, ShopSound, Shop!Nothing
  <2> QED BY <2>1, <2>2, <2>3 DEF ShopGood, ShopStart
<1>3. w \in ShopGood(ShopStart(s))
  BY <1>1, <1>2, ShopNodeGood
<1> DEFINE Left == unanswered' = unanswered \cup {p \in Products : w.added[p] > 0} /\ UNCHANGED added
<1>4. /\ ses.left > 0 /\ cart' = w.cart
      /\ \/ /\ w.stops
            /\ session' = [session EXCEPT ![s] =
                             [ses EXCEPT !.at = "paused", !.shown = w.shown, !.resume = w.resume,
                                         !.answer = "none", !.left = 0]]
            /\ Left
         \/ /\ session' = [session EXCEPT ![s] = Shop!Ended(ses)]
            /\ Left
         \/ /\ session' = [session EXCEPT ![s] =
                             [Shop!Ended(ses) EXCEPT !.at = "shop", !.seen = w.seen,
                                                     !.left = ses.left - 1]]
            /\ added' = [p \in Products |-> added[p] + w.added[p]]
            /\ unanswered' = unanswered
      /\ unasked' = (unasked \/ (w.handed /\ ~Shop!Consented(ses, w)))
  BY DEF Shop!Tools, Shop!LeavesNoAnswer, ShopInv
<1>5. /\ w \in ShopPass /\ Shop!Lines(w.cart) <= MaxLines
      /\ w.handed => "yes" \in Shop!Range(w.resume)
      /\ w.stops => Shop!Lines(w.shown) > 0
      /\ \A p \in Products : w.cart[p] = cart[p] + w.added[p] /\ w.shown[p] <= w.cart[p]
      /\ ses.resume = <<>> /\ ses.answer = "none" => w.resume = <<>>
  BY <1>3 DEF ShopGood, ShopStart
<1>0. ShopSound(ses, cart)
  BY DEF ShopInv
<1> HIDE DEF w, ses, Left
<1>12. \A p \in Products : /\ cart[p] \in Nat /\ added[p] \in Nat /\ w.added[p] \in Nat
                           /\ cart[p] <= w.cart[p] /\ w.cart[p] \in Nat
  BY <1>5 DEF ShopInv, ShopPass
<1>13. \A p \in Products : \A n \in Nat : n <= cart[p] => n <= w.cart[p]
  BY <1>12
<1>6. cart' \in [Products -> Nat] /\ Shop!CartSize' /\ Shop!HandoffApproved'
  <2>1. cart' \in [Products -> Nat]
    BY <1>4, <1>5 DEF ShopPass
  <2>2. Shop!CartSize'
    BY <1>4, <1>5 DEF Shop!CartSize
  <2>3. w.handed => Shop!Consented(ses, w)
    <3> SUFFICES ASSUME w.handed PROVE Shop!Consented(ses, w)
      OBVIOUS
    <3>1. w.resume # <<>>
      <4>1. Shop!Range(<<>>) = {}
        BY DEF Shop!Range
      <4> QED BY <1>5, <4>1
    <3>2. Shop!Lines(ses.shown) > 0
      BY <1>0, <1>5, <3>1 DEF ShopSound
    <3>3. \A p \in Products : ses.shown[p] <= w.cart[p]
      BY <1>0, <1>1, <1>13 DEF ShopSound, ShopSession
    <3> QED BY <1>5, <3>2, <3>3 DEF Shop!Consented
  <2>4. Shop!HandoffApproved'
    BY <1>4, <2>3 DEF ShopInv, Shop!HandoffApproved
  <2> QED BY <2>1, <2>2, <2>4
<1>7. added' \in [Products -> Nat]
  <2>1. added \in [Products -> Nat] /\ w.added \in [Products -> Nat]
    BY <1>5 DEF ShopInv, ShopPass
  <2>2. [p \in Products |-> added[p] + w.added[p]] \in [Products -> Nat]
    BY <2>1
  <2>3. added' = added \/ added' = [p \in Products |-> added[p] + w.added[p]]
    BY <1>4 DEF Left
  <2> QED BY <2>1, <2>2, <2>3
<1>14. Shop!CartAsAnswered'
  <2> SUFFICES ASSUME NEW p \in Products
               PROVE  added'[p] <= cart'[p] /\ (p \notin unanswered' => cart'[p] = added'[p])
    BY DEF Shop!CartAsAnswered
  <2>1. /\ cart'[p] = cart[p] + w.added[p] /\ cart[p] \in Nat /\ added[p] \in Nat /\ w.added[p] \in Nat
        /\ added[p] <= cart[p] /\ (p \notin unanswered => cart[p] = added[p])
    BY <1>4, <1>5, <1>12 DEF ShopInv, Shop!CartAsAnswered
  <2>2. CASE Left
    <3>1. added'[p] = added[p] /\ (p \notin unanswered' => p \notin unanswered /\ ~(w.added[p] > 0))
      BY <2>2 DEF Left
    <3> QED BY <2>1, <3>1
  <2>3. CASE added' = [q \in Products |-> added[q] + w.added[q]] /\ unanswered' = unanswered
    <3>1. added'[p] = added[p] + w.added[p]
      BY <2>3
    <3> QED BY <2>1, <2>3, <3>1
  <2> QED BY <1>4, <2>2, <2>3
<1>8. PICK new \in ShopSession : session' = [session EXCEPT ![s] = new] /\ ShopSound(new, cart')
  <2> DEFINE x == [ses EXCEPT !.at = "paused", !.shown = w.shown, !.resume = w.resume,
                              !.answer = "none", !.left = 0]
             z == [Shop!Ended(ses) EXCEPT !.at = "shop", !.seen = w.seen, !.left = ses.left - 1]
  <2>1. x \in ShopSession /\ x.shown = w.shown
    BY <1>1, <1>5 DEF ShopSession, ShopPass
  <2>2. /\ z \in ShopSession /\ z.at # "paused" /\ z.shown = Shop!Nothing /\ z.resume = <<>>
        /\ z.answer = "none"
    <3>1. ses.left - 1 \in Nat /\ w.seen \in SUBSET Products
      BY <1>1, <1>4, <1>5 DEF ShopSession, ShopPass
    <3>2. z \in ShopSession /\ z.at # "paused"
      BY <1>1, <3>1, ShopEnded DEF ShopSession, Shop!Nodes
    <3>3. z.shown = Shop!Nothing /\ z.resume = <<>> /\ z.answer = "none"
      BY <1>1, ShopEnded
    <3> QED BY <3>2, <3>3
  <2>3. /\ Shop!Ended(ses) \in ShopSession /\ Shop!Ended(ses).at # "paused"
        /\ Shop!Ended(ses).shown = Shop!Nothing /\ Shop!Ended(ses).resume = <<>>
        /\ Shop!Ended(ses).answer = "none"
    BY <1>1, ShopEnded
  <2> HIDE DEF x, z
  <2>4. \/ session' = [session EXCEPT ![s] = x] /\ w.stops
        \/ session' = [session EXCEPT ![s] = Shop!Ended(ses)]
        \/ session' = [session EXCEPT ![s] = z]
    BY <1>4 DEF x, z
  <2>5. \A p \in Products : Shop!Nothing[p] <= cart'[p]
    BY <1>4, <1>12 DEF Shop!Nothing
  <2>6. w.stops => ShopSound(x, cart')
    BY <1>4, <1>5, <2>1 DEF ShopSound
  <2>7. ShopSound(z, cart') /\ ShopSound(Shop!Ended(ses), cart')
    BY <2>2, <2>3, <2>5 DEF ShopSound
  <2> QED BY <2>1, <2>2, <2>3, <2>4, <2>6, <2>7
<1>9. \A t \in Sessions : session'[t] = IF t = s THEN new ELSE session[t]
  BY <1>8 DEF ShopInv
<1>10. session' \in [Sessions -> ShopSession]
  BY <1>8 DEF ShopInv
<1>11. \A t \in Sessions : ShopSound(session'[t], cart')
  <2> SUFFICES ASSUME NEW t \in Sessions, t # s PROVE ShopSound(session'[t], cart')
    BY <1>8, <1>9
  <2>1. session'[t] = session[t] /\ ShopSound(session[t], cart) /\ session[t] \in ShopSession
    BY <1>9 DEF ShopInv
  <2>2. \A p \in Products : session[t].shown[p] \in Nat
    BY <2>1 DEF ShopSession
  <2> QED BY <1>4, <1>13, <2>1, <2>2 DEF ShopSound
<1> QED BY <1>6, <1>7, <1>10, <1>11, <1>14 DEF ShopInv

LEMMA ShopStep == ShopDeployment /\ ShopInv /\ [Shop!Next]_(Shop!vars) => ShopInv'
<1> SUFFICES ASSUME ShopDeployment, ShopInv, [Shop!Next]_(Shop!vars) PROVE ShopInv'
  OBVIOUS
<1> USE DEF Shop!Nodes
<1>1. ASSUME NEW s \in Sessions, Shop!Initialize(s) PROVE ShopInv'
  BY <1>1, ShopSteps DEF Shop!Initialize
<1>2. ASSUME NEW s \in Sessions, Shop!route_after_classify(s) PROVE ShopInv'
  BY <1>2, ShopSteps DEF Shop!route_after_classify
<1>3. ASSUME NEW s \in Sessions, Shop!Other(s) PROVE ShopInv'
  BY <1>3, ShopSteps DEF Shop!Other
<1>4. ASSUME NEW s \in Sessions, Shop!Shop(s) PROVE ShopInv'
  <2>1. PICK batch \in {<<>>} \cup Shop!Messages :
          LET calls == IF Shop!OutOfSteps(session[s].left) THEN <<>> ELSE batch IN
          session' = [session EXCEPT ![s].at = Shop!route_after_shop(calls), ![s].calls = calls,
                                     ![s].left = @ - 1]
    BY <1>4 DEF Shop!Shop
  <2> DEFINE calls == IF Shop!OutOfSteps(session[s].left) THEN <<>> ELSE batch
             n == session[s].left - 1
             ses == [session[s] EXCEPT !.at = Shop!route_after_shop(calls), !.calls = calls,
                                       !.left = n]
  <2>2. calls \in Seq(Shop!Calls)
    BY ShopMessages
  <2>3. session[s] \in ShopSession /\ session[s].left > 0 /\ UNCHANGED <<cart, added, unanswered, unasked>>
    BY <1>4 DEF ShopInv, Shop!Shop
  <2>4. session' = [session EXCEPT ![s] = ses]
    BY <2>1 DEF ShopInv
  <2> HIDE DEF calls
  <2>5. /\ ses \in ShopSession /\ ses.at # "paused"
        /\ ses.shown = session[s].shown /\ ses.resume = session[s].resume /\ ses.answer = session[s].answer
    <3>1. n \in Nat
      BY <2>3 DEF ShopSession
    <3>2. /\ Shop!route_after_shop(calls) \in Shop!Nodes \cup {"idle", "paused"}
          /\ Shop!route_after_shop(calls) # "paused"
      BY DEF Shop!route_after_shop
    <3> HIDE DEF n
    <3> QED BY <2>2, <2>3, <3>1, <3>2 DEF ShopSession
  <2> HIDE DEF ses
  <2> QED BY <2>3, <2>4, <2>5, ShopMoves
<1>5. ASSUME NEW s \in Sessions, Shop!Tools(s) PROVE ShopInv'
  BY <1>5, ShopTools
<1>6. ASSUME NEW s \in Sessions, Shop!ExtractMemory(s) \/ Shop!Dies(s) PROVE ShopInv'
  <2>1. session[s] \in ShopSession
    BY DEF ShopInv
  <2>2. session' = [session EXCEPT ![s] = Shop!Ended(session[s])] /\ UNCHANGED <<cart, added, unanswered, unasked>>
    BY <1>6 DEF Shop!ExtractMemory, Shop!Dies, ShopInv
  <2>3. /\ Shop!Ended(session[s]) \in ShopSession /\ Shop!Ended(session[s]).at # "paused"
        /\ Shop!Ended(session[s]).shown = Shop!Nothing /\ Shop!Ended(session[s]).resume = <<>>
        /\ Shop!Ended(session[s]).answer = "none"
    BY <2>1, ShopEnded
  <2> QED BY <2>2, <2>3, ShopMoves
<1>7. ASSUME NEW s \in Sessions, NEW limit \in ShopLimits, Shop!Start(s, limit) PROVE ShopInv'
  <2>1. session[s] \in ShopSession /\ limit - 1 \in Nat
    BY DEF ShopInv, ShopDeployment
  <2> DEFINE ses == [Shop!Ended(session[s]) EXCEPT !.at = "initialize", !.left = limit - 1]
  <2>2. session' = [session EXCEPT ![s] = ses] /\ UNCHANGED <<cart, added, unanswered, unasked>>
    BY <1>7 DEF Shop!Start, ShopInv
  <2>3. /\ ses \in ShopSession /\ ses.at # "paused"
        /\ ses.shown = Shop!Nothing /\ ses.resume = <<>> /\ ses.answer = "none"
    <3>1. ses \in ShopSession /\ ses.at # "paused"
      BY <2>1, ShopEnded DEF ShopSession
    <3>2. ses.shown = Shop!Nothing /\ ses.resume = <<>> /\ ses.answer = "none"
      BY <2>1, ShopEnded
    <3> QED BY <3>1, <3>2
  <2> HIDE DEF ses
  <2> QED BY <2>2, <2>3, ShopMoves
<1>8. ASSUME NEW s \in Sessions, NEW limit \in ShopLimits, NEW answer \in Replies,
             Shop!Answer(s, answer, limit)
      PROVE  ShopInv'
  <2>1. session[s] \in ShopSession /\ limit + 1 \in Nat
    BY DEF ShopInv, ShopDeployment
  <2> DEFINE ses == [session[s] EXCEPT !.at = "tools", !.answer = answer, !.left = limit + 1]
  <2>2. session' = [session EXCEPT ![s] = ses] /\ UNCHANGED <<cart, added, unanswered, unasked>>
    BY <1>8 DEF Shop!Answer, ShopInv
  <2>3. ses \in ShopSession /\ ses.at # "paused" /\ ses.shown = session[s].shown
    BY <2>1 DEF ShopSession
  <2>4. Shop!Lines(session[s].shown) > 0
    BY <1>8 DEF Shop!Answer, ShopInv, ShopSound
  <2> HIDE DEF ses
  <2> QED BY <2>2, <2>3, <2>4, ShopMoves
<1>9. CASE UNCHANGED Shop!vars
  BY <1>9 DEF Shop!vars, ShopInv, Shop!CartSize, Shop!HandoffApproved, Shop!CartAsAnswered
<1> QED
  BY <1>1, <1>2, <1>3, <1>4, <1>5, <1>6, <1>7, <1>8, <1>9 DEF Shop!Next, Replies

LEMMA ShopFirst == ShopDeployment /\ Shop!Init => ShopInv
<1> SUFFICES ASSUME ShopDeployment, Shop!Init PROVE ShopInv
  OBVIOUS
<1>1. Shop!Fresh \in ShopSession /\ Shop!Fresh.at = "idle"
  <2>1. <<>> \in Seq(Shop!Calls) /\ <<>> \in Seq(Replies)
    OBVIOUS
  <2> QED BY <2>1, EmptyLines DEF Shop!Fresh, ShopSession
<1>2. \A s \in Sessions : ShopSound(session[s], cart)
  <2>1. \A p \in Products : Shop!Nothing[p] <= Shop!Nothing[p]
    BY DEF Shop!Nothing
  <2> QED BY <1>1, <2>1 DEF Shop!Init, ShopSound, Shop!Fresh
<1>3. Shop!CartAsAnswered
  BY DEF Shop!Init, Shop!CartAsAnswered, Shop!Nothing
<1> QED BY <1>1, <1>2, <1>3, EmptyLines
        DEF Shop!Init, ShopInv, Shop!CartSize, Shop!HandoffApproved, ShopDeployment

(* ShoppingAgent, for any number of sessions, products and calls in a message: *)
(* the cart keeps to its number of lines, and the customer is handed off only  *)
(* after a yes to a cart that was shown and of which nothing is missing,       *)
(* however often the tools of a message are executed again.                    *)
THEOREM CartsKeepSize ==
  ASSUME ShopDeployment
  PROVE  Shop!Spec => [](Shop!TypeOK /\ Shop!CartSize /\ Shop!HandoffApproved)
<1>1. Shop!Init => ShopInv
  BY ShopFirst
<1>2. ShopInv => Shop!TypeOK /\ Shop!CartSize /\ Shop!HandoffApproved
  BY DEF ShopInv, ShopSound, Shop!TypeOK, ShopSession
<1>3. ShopInv /\ [Shop!Next]_(Shop!vars) => ShopInv'
  BY ShopStep
<1> QED BY <1>1, <1>2, <1>3, PTL DEF Shop!Spec

(* The steps that are left at each node. *)
ShopLeft ==
  \A s \in Sessions : /\ session[s].at = "initialize" => session[s].left >= 3
                      /\ session[s].at \in {"classify", "tools"} => session[s].left >= 2
                      /\ session[s].at = "shop" => session[s].left >= 1

(* ShoppingAgent, for any limits that let a run reach shop: no run is stopped  *)
(* by its recursion limit at shop or tools, so that a tool call is followed    *)
(* up, whether or not the customer is asked in between.                        *)
THEOREM ToolCallsFollowedUp ==
  ASSUME ShopDeployment, \A limit \in ShopLimits : limit >= 4
  PROVE  Shop!Spec => []Shop!ToolsFollowedUp
<1>1. Shop!Init => ShopInv /\ ShopLeft
  <2>1. Shop!Init => ShopLeft
    BY DEF Shop!Init, ShopLeft, Shop!Fresh
  <2> QED BY <2>1, ShopFirst
<1>2. ShopInv /\ ShopLeft => Shop!ToolsFollowedUp
  BY DEF ShopInv, ShopLeft, Shop!ToolsFollowedUp, ShopSession
<1>3. ShopInv /\ [Shop!Next]_(Shop!vars) => ShopInv'
  BY ShopStep
<1>4. ShopInv /\ ShopLeft /\ [Shop!Next]_(Shop!vars) => ShopLeft'
  <2> SUFFICES ASSUME ShopInv, ShopLeft, [Shop!Next]_(Shop!vars) PROVE ShopLeft'
    OBVIOUS
  <2> DEFINE Enough(ses) == /\ ses.at = "initialize" => ses.left >= 3
                            /\ ses.at \in {"classify", "tools"} => ses.left >= 2
                            /\ ses.at = "shop" => ses.left >= 1
  <2>0. \A s \in Sessions : session[s] \in ShopSession /\ Enough(session[s])
    BY DEF ShopInv, ShopLeft
  <2>1. ASSUME NEW s \in Sessions, NEW ses, session' = [session EXCEPT ![s] = ses], Enough(ses)
        PROVE  ShopLeft'
    <3>1. \A t \in Sessions : session'[t] = IF t = s THEN ses ELSE session[t]
      BY <2>1 DEF ShopInv
    <3> QED BY <2>0, <2>1, <3>1 DEF ShopLeft
  <2>2. ASSUME NEW s \in Sessions, NEW from, NEW to, Shop!Steps(s, from, to),
               \/ from = "initialize" /\ to = "classify"
               \/ from = "classify" /\ to = "shop"
               \/ to \notin {"initialize", "classify", "tools", "shop"}
        PROVE  ShopLeft'
    <3> DEFINE ses == [session[s] EXCEPT !.at = to, !.left = @ - 1]
    <3>1. session' = [session EXCEPT ![s] = ses] /\ session[s].at = from
      BY <2>2 DEF Shop!Steps, ShopInv
    <3>2. ses.at = to /\ ses.left = session[s].left - 1
      BY <2>0 DEF ShopSession
    <3>3. Enough(ses)
      <4> HIDE DEF ses
      <4>1. session[s].left \in Nat
        BY <2>0 DEF ShopSession
      <4> QED BY <2>0, <2>2, <3>1, <3>2, <4>1
    <3> HIDE DEF ses, Enough
    <3> QED BY <2>1, <3>1, <3>3
  <2>3. ASSUME NEW s \in Sessions, Shop!Shop(s) PROVE ShopLeft'
    <3>1. PICK batch :
            LET calls == IF Shop!OutOfSteps(session[s].left) THEN <<>> ELSE batch IN
            session' = [session EXCEPT ![s].at = Shop!route_after_shop(calls), ![s].calls = calls,
                                       ![s].left = @ - 1]
      BY <2>3 DEF Shop!Shop
    <3> DEFINE calls == IF Shop!OutOfSteps(session[s].left) THEN <<>> ELSE batch
               ses == [session[s] EXCEPT !.at = Shop!route_after_shop(calls), !.calls = calls,
                                         !.left = @ - 1]
    <3>2. session' = [session EXCEPT ![s] = ses]
      BY <3>1 DEF ShopInv
    <3>3. /\ ses.at \in {"tools", "extract_memory"} /\ ses.left = session[s].left - 1
          /\ ses.at = "tools" => ~(session[s].left < 3)
      BY <2>0 DEF ShopSession, Shop!route_after_shop, Shop!OutOfSteps
    <3>4. Enough(ses)
      <4> HIDE DEF ses
      <4>1. session[s].left \in Nat
        BY <2>0 DEF ShopSession
      <4> QED BY <3>3, <4>1
    <3> HIDE DEF ses, Enough
    <3> QED BY <2>1, <3>2, <3>4
  <2>4. ASSUME NEW s \in Sessions, Shop!Tools(s) PROVE ShopLeft'
    <3> DEFINE w == Shop!ToolNode(s)
               x == [session[s] EXCEPT !.at = "paused", !.shown = w.shown, !.resume = w.resume,
                                       !.answer = "none", !.left = 0]
               z == [Shop!Ended(session[s]) EXCEPT !.at = "shop", !.seen = w.seen,
                                                   !.left = session[s].left - 1]
    <3>1. /\ session[s].at = "tools"
          /\ \/ session' = [session EXCEPT ![s] = x]
             \/ session' = [session EXCEPT ![s] = Shop!Ended(session[s])]
             \/ session' = [session EXCEPT ![s] = z]
      BY <2>4 DEF Shop!Tools, ShopInv
    <3> HIDE DEF w
    <3>2. Enough(x)
      BY <2>0 DEF ShopSession
    <3>3. Enough(Shop!Ended(session[s]))
      BY <2>0, ShopEnded
    <3>4. Enough(z)
      <4>1. session[s].left \in Nat /\ session[s].left >= 2
        BY <2>0, <3>1 DEF ShopSession
      <4>2. z.at = "shop" /\ z.left = session[s].left - 1
        BY <2>0, ShopEnded
      <4> HIDE DEF z
      <4> QED BY <4>1, <4>2
    <3> HIDE DEF x, z, Enough
    <3> QED BY <2>1, <3>1, <3>2, <3>3, <3>4
  <2>5. ASSUME NEW s \in Sessions, Shop!ExtractMemory(s) \/ Shop!Dies(s) PROVE ShopLeft'
    <3>1. session' = [session EXCEPT ![s] = Shop!Ended(session[s])]
      BY <2>5 DEF Shop!ExtractMemory, Shop!Dies, ShopInv
    <3>2. Enough(Shop!Ended(session[s]))
      BY <2>0, ShopEnded
    <3> HIDE DEF Enough
    <3> QED BY <2>1, <3>1, <3>2
  <2>6. ASSUME NEW s \in Sessions, NEW limit \in ShopLimits, NEW answer,
               Shop!Start(s, limit) \/ Shop!Answer(s, answer, limit)
        PROVE  ShopLeft'
    <3> DEFINE x == [Shop!Ended(session[s]) EXCEPT !.at = "initialize", !.left = limit - 1]
               z == [session[s] EXCEPT !.at = "tools", !.answer = answer, !.left = limit + 1]
    <3>1. session' = [session EXCEPT ![s] = x] \/ session' = [session EXCEPT ![s] = z]
      BY <2>6 DEF Shop!Start, Shop!Answer, ShopInv
    <3>2. limit \in Nat /\ limit >= 4
      BY DEF ShopDeployment
    <3>3. Enough(x)
      BY <2>0, <3>2, ShopEnded
    <3>4. Enough(z)
      BY <2>0, <3>2 DEF ShopSession
    <3> HIDE DEF x, z, Enough
    <3> QED BY <2>1, <3>1, <3>3, <3>4
  <2>7. CASE UNCHANGED Shop!vars
    BY <2>7 DEF Shop!vars, ShopLeft
  <2>8. ASSUME NEW s \in Sessions,
               Shop!Initialize(s) \/ Shop!route_after_classify(s) \/ Shop!Other(s)
        PROVE  ShopLeft'
    BY <2>2, <2>8 DEF Shop!Initialize, Shop!route_after_classify, Shop!Other
  <2> QED BY <2>3, <2>4, <2>5, <2>6, <2>7, <2>8 DEF Shop!Next
<1> QED BY <1>1, <1>2, <1>3, <1>4, PTL DEF Shop!Spec

(* ShoppingAgent, for any number of sessions, products and calls in a message: *)
(* the cart holds everything that the answers said was added, and more only of *)
(* products that a pass added and did not answer for, whichever sessions added *)
(* to it and however their runs, pauses, repeated passes and deaths interleave. *)
THEOREM CartsAsAnswered ==
  ASSUME ShopDeployment
  PROVE  Shop!Spec => []Shop!CartAsAnswered
<1>1. Shop!Init => ShopInv
  BY ShopFirst
<1>2. ShopInv => Shop!CartAsAnswered
  BY DEF ShopInv
<1>3. ShopInv /\ [Shop!Next]_(Shop!vars) => ShopInv'
  BY ShopStep
<1> QED BY <1>1, <1>2, <1>3, PTL DEF Shop!Spec

-----------------------------------------------------------------------------
(* The staff agent.                                                            *)

DeskDeployment ==
  /\ FirstPrice \in Nat \ {0} /\ NewPrices \subseteq Nat /\ Caps \subseteq Nat
  /\ MaxAnalytics \in Nat /\ StaffLimits \subseteq Nat

Move == [change : Nat, cap : Nat, alone : BOOLEAN]

DeskSession ==
  [at : {"idle", "merchant", "tools", "paused"}, seen : SUBSET Articles, staged : SUBSET Nat,
   analytics : Nat, calls : Seq(Desk!Calls), resume : Seq(Replies), answer : Replies \cup {"none"},
   asked : Nat, cap : Nat, left : Int]

DeskPass ==
  [price : [Articles -> Nat \ {0}], changes : Seq(Desk!Change), applied : Seq(Move),
   resume : Seq(Replies), answer : Replies \cup {"none"}, asks : Nat, seen : SUBSET Articles,
   staged : SUBSET Nat, queries : Nat,
   stop : [why : {"none", "asks", "fails"}, change : Nat]]

(* The catalogue pr is explained by the moves ap of the changes ch, each of    *)
(* them within the cap it was applied under.                                   *)
Moved(ch, ap, i, p) == ch[ap[i].change].target = p
Fits(change, cap) == Desk!Distance(change.old, change.new) * 100 <= cap * change.old
Explains(pr, ch, ap) ==
  /\ \A i \in DOMAIN ap : /\ ap[i].change \in DOMAIN ch /\ ch[ap[i].change].status = "applied"
                          /\ Fits(ch[ap[i].change], ap[i].cap)
  /\ \A n \in DOMAIN ch : ch[n].status = "applied" => \E i \in DOMAIN ap : ap[i].change = n
  /\ \A i, j \in DOMAIN ap : ap[i].change = ap[j].change => i = j
  /\ \A p \in Articles :
       /\ (\A i \in DOMAIN ap : ~Moved(ch, ap, i, p)) => pr[p] = FirstPrice
       /\ \A i \in DOMAIN ap : Moved(ch, ap, i, p) /\ (\A j \in DOMAIN ap : Moved(ch, ap, j, p) => j <= i)
                                 => pr[p] = ch[ap[i].change].new

(* What a pass that began with k changes keeps to. *)
DeskGood(ses, k) ==
  {w \in DeskPass : /\ Explains(w.price, w.changes, w.applied)
                    /\ k <= Len(w.changes) /\ w.staged \subseteq DOMAIN w.changes
                    /\ w.stop.why = "asks" => w.stop.change # 0
                    /\ w.queries > 0 => ses.analytics < MaxAnalytics}

(* A change that is staged explains nothing yet. *)
LEMMA StageExplains ==
  ASSUME NEW pr, NEW ch \in Seq(Desk!Change), NEW ap \in Seq(Move), Explains(pr, ch, ap),
         NEW x \in Desk!Change, x.status = "pending"
  PROVE  Explains(pr, Append(ch, x), ap)
<1> DEFINE new == Append(ch, x)
<1>1. /\ DOMAIN ch = 1..Len(ch) /\ DOMAIN new = 1..(Len(ch) + 1) /\ Len(ch) \in Nat
      /\ \A n \in DOMAIN ch : new[n] = ch[n]
      /\ new[Len(ch) + 1] = x
  OBVIOUS
<1> HIDE DEF new
<1>2. \A n \in DOMAIN ch : n \in DOMAIN new
  BY <1>1
<1>3. \A i \in DOMAIN ap : ap[i].change \in DOMAIN ch
  BY DEF Explains
<1>4. \A i \in DOMAIN ap : new[ap[i].change] = ch[ap[i].change] /\ ap[i].change \in DOMAIN new
  BY <1>1, <1>2, <1>3
<1>5. \A n \in DOMAIN new : new[n].status = "applied" => n \in DOMAIN ch /\ ch[n].status = "applied"
  <2> SUFFICES ASSUME NEW n \in DOMAIN new, new[n].status = "applied" PROVE n \in DOMAIN ch
    BY <1>1
  <2>1. n # Len(ch) + 1
    BY <1>1
  <2> QED BY <1>1, <2>1
<1>6. \A i \in DOMAIN ap, p \in Articles : Moved(new, ap, i, p) = Moved(ch, ap, i, p)
  BY <1>4 DEF Moved
<1>7. \A i \in DOMAIN ap : /\ ap[i].change \in DOMAIN new /\ new[ap[i].change].status = "applied"
                           /\ Fits(new[ap[i].change], ap[i].cap)
  BY <1>4 DEF Explains
<1>8. \A n \in DOMAIN new : new[n].status = "applied" => \E i \in DOMAIN ap : ap[i].change = n
  BY <1>5 DEF Explains
<1>9. \A p \in Articles :
        /\ (\A i \in DOMAIN ap : ~Moved(new, ap, i, p)) => pr[p] = FirstPrice
        /\ \A i \in DOMAIN ap : Moved(new, ap, i, p) /\ (\A j \in DOMAIN ap : Moved(new, ap, j, p) => j <= i)
                                  => pr[p] = new[ap[i].change].new
  BY <1>4, <1>6 DEF Explains
<1> QED BY <1>7, <1>8, <1>9 DEF Explains, new

(* Nor does one that is discarded. *)
LEMMA DiscardExplains ==
  ASSUME NEW pr, NEW ch \in Seq(Desk!Change), NEW ap \in Seq(Move), Explains(pr, ch, ap),
         NEW n \in DOMAIN ch, ch[n].status = "pending"
  PROVE  /\ [ch EXCEPT ![n].status = "discarded"] \in Seq(Desk!Change)
         /\ Len([ch EXCEPT ![n].status = "discarded"]) = Len(ch)
         /\ Explains(pr, [ch EXCEPT ![n].status = "discarded"], ap)
<1> DEFINE x == [ch[n] EXCEPT !.status = "discarded"]
           new == [ch EXCEPT ![n] = x]
<1>1. ch[n] \in Desk!Change
  OBVIOUS
<1>2. x \in Desk!Change /\ x.status = "discarded"
  BY <1>1 DEF Desk!Change
<1>3. [ch EXCEPT ![n].status = "discarded"] = new
  OBVIOUS
<1> HIDE DEF x
<1>4. /\ new \in Seq(Desk!Change) /\ Len(new) = Len(ch) /\ DOMAIN new = DOMAIN ch
      /\ \A m \in DOMAIN ch : new[m] = IF m = n THEN x ELSE ch[m]
  BY <1>2
<1> HIDE DEF new
<1>5. \A i \in DOMAIN ap : ap[i].change # n /\ ap[i].change \in DOMAIN ch
  BY DEF Explains
<1>6. \A i \in DOMAIN ap : new[ap[i].change] = ch[ap[i].change]
  BY <1>4, <1>5
<1>7. \A i \in DOMAIN ap, p \in Articles : Moved(new, ap, i, p) = Moved(ch, ap, i, p)
  BY <1>6 DEF Moved
<1>8. \A i \in DOMAIN ap : /\ ap[i].change \in DOMAIN new /\ new[ap[i].change].status = "applied"
                           /\ Fits(new[ap[i].change], ap[i].cap)
  BY <1>4, <1>6 DEF Explains
<1>9. \A m \in DOMAIN new : new[m].status = "applied" => \E i \in DOMAIN ap : ap[i].change = m
  BY <1>2, <1>4 DEF Explains
<1>10. \A p \in Articles :
        /\ (\A i \in DOMAIN ap : ~Moved(new, ap, i, p)) => pr[p] = FirstPrice
        /\ \A i \in DOMAIN ap : Moved(new, ap, i, p) /\ (\A j \in DOMAIN ap : Moved(new, ap, j, p) => j <= i)
                                  => pr[p] = new[ap[i].change].new
  <2> SUFFICES ASSUME NEW p \in Articles
               PROVE  /\ (\A i \in DOMAIN ap : ~Moved(ch, ap, i, p)) => pr[p] = FirstPrice
                      /\ \A i \in DOMAIN ap :
                           Moved(ch, ap, i, p) /\ (\A j \in DOMAIN ap : Moved(ch, ap, j, p) => j <= i)
                             => pr[p] = ch[ap[i].change].new
    BY <1>6, <1>7
  <2> QED BY DEF Explains
<1>11. Explains(pr, new, ap)
  BY <1>8, <1>9, <1>10 DEF Explains
<1> QED BY <1>3, <1>4, <1>11

(* A change that is applied becomes the last move of its target. *)
LEMMA ApplyExplains ==
  ASSUME NEW pr \in [Articles -> Nat \ {0}], NEW ch \in Seq(Desk!Change), NEW ap \in Seq(Move),
         Explains(pr, ch, ap), NEW n \in DOMAIN ch, ch[n].status = "pending",
         NEW cap \in Nat, Fits(ch[n], cap), NEW alone \in BOOLEAN
  PROVE  LET c2 == [ch EXCEPT ![n] = Desk!AsApplied(ch[n])]
             p2 == [pr EXCEPT ![ch[n].target] = ch[n].new]
             a2 == Append(ap, [change |-> n, cap |-> cap, alone |-> alone])
         IN /\ c2 \in Seq(Desk!Change) /\ Len(c2) = Len(ch)
            /\ p2 \in [Articles -> Nat \ {0}] /\ a2 \in Seq(Move)
            /\ Explains(p2, c2, a2)
<1> DEFINE x == Desk!AsApplied(ch[n])
           c2 == [ch EXCEPT ![n] = x]
           p2 == [pr EXCEPT ![ch[n].target] = ch[n].new]
           m == [change |-> n, cap |-> cap, alone |-> alone]
           a2 == Append(ap, m)
           k == Len(ap) + 1
<1>1. ch[n] \in Desk!Change
  OBVIOUS
<1>2. /\ x \in Desk!Change /\ x.status = "applied" /\ x.target = ch[n].target /\ x.new = ch[n].new
      /\ x.old = ch[n].old
  BY <1>1 DEF Desk!Change, Desk!AsApplied
<1>3. Fits(x, cap)
  BY <1>2 DEF Fits
<1>4. ch[n].target \in Articles /\ ch[n].new \in Nat \ {0}
  BY <1>1 DEF Desk!Change
<1> HIDE DEF x
<1>5. /\ c2 \in Seq(Desk!Change) /\ Len(c2) = Len(ch) /\ DOMAIN c2 = DOMAIN ch
      /\ \A i \in DOMAIN ch : c2[i] = IF i = n THEN x ELSE ch[i]
  BY <1>2
<1>6. n \in Nat
  OBVIOUS
<1>7. m \in Move /\ m.change = n /\ m.cap = cap
  BY <1>6 DEF Move
<1> HIDE DEF m
<1>8. /\ a2 \in Seq(Move) /\ DOMAIN ap = 1..Len(ap) /\ Len(ap) \in Nat /\ DOMAIN a2 = 1..k
      /\ \A i \in DOMAIN ap : a2[i] = ap[i]
      /\ a2[k] = m
  BY <1>7
<1>9. p2 \in [Articles -> Nat \ {0}] /\ \A p \in Articles : p2[p] = IF p = ch[n].target THEN ch[n].new ELSE pr[p]
  BY <1>4
<1>10. \A i \in DOMAIN a2 : i \in DOMAIN ap \/ i = k
  BY <1>8
<1>11. \A i \in DOMAIN ap : i \in DOMAIN a2 /\ i < k /\ i # k /\ ~(k <= i) /\ i <= k
  BY <1>8
<1>12. k \in DOMAIN a2 /\ k <= k
  BY <1>8
<1> HIDE DEF a2, k, c2, p2
<1>13. \A i \in DOMAIN ap : ap[i].change # n /\ ap[i].change \in DOMAIN ch
  BY DEF Explains
<1>14. \A i \in DOMAIN ap : /\ a2[i].change = ap[i].change /\ a2[i].cap = ap[i].cap
                            /\ c2[a2[i].change] = ch[ap[i].change]
  BY <1>5, <1>8, <1>13
<1>15. a2[k].change = n /\ a2[k].cap = cap /\ c2[a2[k].change] = x
  BY <1>5, <1>7, <1>8
<1>16. \A i \in DOMAIN a2 : /\ a2[i].change \in DOMAIN c2 /\ c2[a2[i].change].status = "applied"
                            /\ Fits(c2[a2[i].change], a2[i].cap)
  <2>1. ASSUME NEW i \in DOMAIN ap
        PROVE  /\ a2[i].change \in DOMAIN c2 /\ c2[a2[i].change].status = "applied"
               /\ Fits(c2[a2[i].change], a2[i].cap)
    BY <1>5, <1>14, <1>13 DEF Explains
  <2>2. /\ a2[k].change \in DOMAIN c2 /\ c2[a2[k].change].status = "applied"
        /\ Fits(c2[a2[k].change], a2[k].cap)
    BY <1>2, <1>3, <1>5, <1>15
  <2> QED BY <1>10, <2>1, <2>2
<1>17. \A j \in DOMAIN c2 : c2[j].status = "applied" => \E i \in DOMAIN a2 : a2[i].change = j
  <2> SUFFICES ASSUME NEW j \in DOMAIN c2, c2[j].status = "applied"
               PROVE  \E i \in DOMAIN a2 : a2[i].change = j
    OBVIOUS
  <2>1. CASE j = n
    BY <1>12, <1>15, <2>1
  <2>2. CASE j # n
    <3>1. PICK i \in DOMAIN ap : ap[i].change = j
      BY <1>5, <2>2 DEF Explains
    <3> QED BY <1>11, <1>14, <3>1
  <2> QED BY <2>1, <2>2
<1>18. \A i, j \in DOMAIN a2 : a2[i].change = a2[j].change => i = j
  <2>1. \A i, j \in DOMAIN ap : a2[i].change = a2[j].change => i = j
    BY <1>14 DEF Explains
  <2>2. \A i \in DOMAIN ap : a2[i].change # a2[k].change
    BY <1>13, <1>14, <1>15
  <2> QED BY <1>10, <2>1, <2>2
<1>19. \A i \in DOMAIN ap, p \in Articles : Moved(c2, a2, i, p) = Moved(ch, ap, i, p)
  BY <1>14 DEF Moved
<1>20. \A p \in Articles : Moved(c2, a2, k, p) = (p = ch[n].target)
  BY <1>2, <1>15 DEF Moved
<1>21. ASSUME NEW p \in Articles
       PROVE  /\ (\A i \in DOMAIN a2 : ~Moved(c2, a2, i, p)) => p2[p] = FirstPrice
              /\ \A i \in DOMAIN a2 : Moved(c2, a2, i, p) /\ (\A j \in DOMAIN a2 : Moved(c2, a2, j, p) => j <= i)
                                        => p2[p] = c2[a2[i].change].new
  <2>1. CASE p = ch[n].target
    <3>1. Moved(c2, a2, k, p)
      BY <1>20, <2>1
    <3>2. p2[p] = c2[a2[k].change].new
      BY <1>2, <1>9, <1>15, <2>1
    <3>3. \A i \in DOMAIN ap : ~(\A j \in DOMAIN a2 : Moved(c2, a2, j, p) => j <= i)
      BY <1>11, <1>12, <3>1
    <3> QED BY <1>10, <1>12, <3>1, <3>2, <3>3
  <2>2. CASE p # ch[n].target
    <3>1. ~Moved(c2, a2, k, p) /\ p2[p] = pr[p]
      BY <1>9, <1>20, <2>2
    <3>2. (\A i \in DOMAIN a2 : ~Moved(c2, a2, i, p)) => p2[p] = FirstPrice
      BY <1>11, <1>19, <3>1 DEF Explains
    <3>3. ASSUME NEW i \in DOMAIN a2, Moved(c2, a2, i, p),
                 \A j \in DOMAIN a2 : Moved(c2, a2, j, p) => j <= i
          PROVE  p2[p] = c2[a2[i].change].new
      <4>1. i \in DOMAIN ap
        BY <1>10, <3>1, <3>3
      <4>2. Moved(ch, ap, i, p) /\ \A j \in DOMAIN ap : Moved(ch, ap, j, p) => j <= i
        BY <1>11, <1>19, <3>3, <4>1
      <4>3. pr[p] = ch[ap[i].change].new
        BY <4>1, <4>2 DEF Explains
      <4> QED BY <1>14, <3>1, <4>1, <4>3
    <3> QED BY <3>2, <3>3
  <2> QED BY <2>1, <2>2
<1>22. Explains(p2, c2, a2)
  BY <1>16, <1>17, <1>18, <1>21 DEF Explains
<1> QED BY <1>5, <1>8, <1>9, <1>22 DEF c2, p2, a2, x, m

LEMMA DeskAsks ==
  ASSUME NEW w \in DeskPass
  PROVE  LET a == Desk!interrupt(w) IN
         /\ a.answer \in Replies \cup {"none"} /\ a.w \in DeskPass
         /\ a.w.price = w.price /\ a.w.changes = w.changes /\ a.w.applied = w.applied
         /\ a.w.seen = w.seen /\ a.w.staged = w.staged /\ a.w.queries = w.queries
         /\ a.w.stop = w.stop
         /\ w.resume = <<>> /\ w.asks = 0 => a.answer = w.answer
         /\ w.asks >= Len(w.resume) /\ w.answer = "none" => a.answer = "none"
         /\ a.answer = "none" => /\ a.w.resume = w.resume /\ a.w.asks >= Len(a.w.resume)
                                 /\ a.w.answer = "none"
<1> DEFINE a == Desk!interrupt(w)
           n == w.asks + 1
<1>0. n \in Nat /\ w.resume \in Seq(Replies) /\ w.answer \in Replies \cup {"none"} /\ "none" \notin Replies
  BY DEF DeskPass, Replies
<1>1. CASE w.asks < Len(w.resume)
  <2>1. n \in DOMAIN w.resume /\ w.resume[n] \in Replies /\ w.resume # <<>>
    BY <1>1 DEF DeskPass
  <2>2. a = [answer |-> w.resume[n], w |-> [w EXCEPT !.asks = n]]
    BY <1>1 DEF Desk!interrupt
  <2> DEFINE v == [w EXCEPT !.asks = n]
  <2>3. v \in DeskPass /\ v.resume = w.resume
            /\ v.price = w.price /\ v.changes = w.changes /\ v.applied = w.applied /\ v.seen = w.seen
            /\ v.staged = w.staged /\ v.queries = w.queries /\ v.stop = w.stop
    <3> HIDE DEF n
    <3> QED BY <1>0 DEF DeskPass
  <2> HIDE DEF v, a, n
  <2>5. a.answer = w.resume[n] /\ a.w = v
    BY <2>2 DEF v
  <2>6. ~(w.asks >= Len(w.resume)) /\ a.answer # "none"
    BY <1>0, <1>1, <2>1, <2>5 DEF DeskPass
  <2> QED BY <2>1, <2>3, <2>5, <2>6 DEF a
<1>2. CASE ~(w.asks < Len(w.resume)) /\ w.answer = "none"
  <2>1. a = [answer |-> w.answer, w |-> [w EXCEPT !.asks = n, !.answer = "none"]]
    BY <1>2 DEF Desk!interrupt, DeskPass
  <2> DEFINE v == [w EXCEPT !.asks = n, !.answer = "none"]
  <2>2. v \in DeskPass /\ v.resume = w.resume /\ v.answer = "none" /\ v.asks = n
            /\ v.price = w.price /\ v.changes = w.changes /\ v.applied = w.applied /\ v.seen = w.seen
            /\ v.staged = w.staged /\ v.queries = w.queries /\ v.stop = w.stop
    <3> HIDE DEF n
    <3> QED BY <1>0 DEF DeskPass
  <2> HIDE DEF v, a, n
  <2>3. a.answer = "none" /\ a.w = v
    BY <1>2, <2>1 DEF v
  <2>4. a.w.asks >= Len(a.w.resume)
    BY <1>0, <1>2, <2>2, <2>3 DEF n, DeskPass
  <2> QED BY <1>2, <1>0, <2>2, <2>3, <2>4 DEF a
<1>3. CASE ~(w.asks < Len(w.resume)) /\ w.answer # "none"
  <2> DEFINE s == Append(w.resume, w.answer)
  <2>1. a = [answer |-> w.answer,
             w |-> [w EXCEPT !.asks = n, !.answer = "none", !.resume = s]]
    BY <1>3 DEF Desk!interrupt
  <2>2. w.answer \in Replies /\ w.resume \in Seq(Replies)
    BY <1>3 DEF DeskPass
  <2>3. s \in Seq(Replies)
    BY <2>2
  <2> HIDE DEF s
  <2> DEFINE v == [w EXCEPT !.asks = n, !.answer = "none", !.resume = s]
  <2>4. v \in DeskPass /\ v.resume = s
            /\ v.price = w.price /\ v.changes = w.changes /\ v.applied = w.applied /\ v.seen = w.seen
            /\ v.staged = w.staged /\ v.queries = w.queries /\ v.stop = w.stop
    <3> HIDE DEF n
    <3> QED BY <1>0, <2>3 DEF DeskPass
  <2> HIDE DEF v, a, n
  <2>5. a.answer = w.answer /\ a.w = v
    BY <2>1 DEF v
  <2> QED BY <1>3, <2>2, <2>3, <2>4, <2>5 DEF a
<1> QED BY <1>1, <1>2, <1>3 DEF DeskPass

(* A call, by what it names. *)
LEMMA DeskCall ==
  ASSUME DeskDeployment, NEW c \in Desk!Calls
  PROVE  /\ c.tool \in {"get_listing", "stage", "apply", "discard", "analytics"}
         /\ c.tool = "get_listing" => c.product \in Articles
         /\ c.tool = "stage" => c.product \in Articles /\ c.price \in Nat
         /\ c.change \in Nat
<1>1. ASSUME NEW i \in 1..MaxChanges PROVE i \in Nat
  OBVIOUS
<1> QED BY <1>1 DEF Desk!Calls, DeskDeployment

(* Every tool keeps a pass good. *)
LEMMA DeskTool ==
  ASSUME DeskDeployment, NEW s \in Sessions, NEW ses \in DeskSession, NEW k \in Nat,
         NEW w \in DeskGood(ses, k), NEW c \in Desk!Calls
  PROVE  Desk!Tool(s, ses, w, c) \in DeskGood(ses, k)
<1>1. /\ w \in DeskPass /\ Explains(w.price, w.changes, w.applied)
      /\ k <= Len(w.changes) /\ w.staged \subseteq DOMAIN w.changes
      /\ w.stop.why = "asks" => w.stop.change # 0
      /\ w.queries > 0 => ses.analytics < MaxAnalytics
  BY DEF DeskGood
<1>2. /\ w.price \in [Articles -> Nat \ {0}] /\ w.changes \in Seq(Desk!Change) /\ w.applied \in Seq(Move)
      /\ w.staged \in SUBSET Nat /\ ses.cap \in Nat /\ w.seen \in SUBSET Articles /\ w.queries \in Nat
  BY <1>1 DEF DeskPass, DeskSession
<1>3. ASSUME NEW v \in DeskPass, NEW why \in {"asks", "fails"}, NEW id \in Nat \ {0},
             v.price = w.price, v.changes = w.changes, v.applied = w.applied, v.staged = w.staged,
             v.queries = w.queries, v.stop = w.stop
      PROVE  Desk!Stops(v, why, id) \in DeskGood(ses, k)
  <2> DEFINE u == [v EXCEPT !.stop = [why |-> why, change |-> id]]
  <2>1. u \in DeskPass
    BY <1>3 DEF DeskPass
  <2>2. /\ u.price = w.price /\ u.changes = w.changes /\ u.applied = w.applied /\ u.staged = w.staged
        /\ u.queries = w.queries /\ u.stop.change # 0
    BY <1>3 DEF DeskPass
  <2> HIDE DEF u
  <2>3. u \in DeskGood(ses, k)
    BY <1>1, <2>1, <2>2 DEF DeskGood
  <2>4. v \in DeskGood(ses, k)
    BY <1>1, <1>3 DEF DeskGood
  <2> QED BY <2>3, <2>4 DEF Desk!Stops, u
<1>4. CASE c.tool = "get_listing"
  <2> DEFINE v == [w EXCEPT !.seen = @ \cup {c.product}]
  <2>1. v \in DeskPass
    BY <1>1, <1>4, DeskCall DEF DeskPass
  <2>2. v \in DeskGood(ses, k)
    BY <1>1, <2>1 DEF DeskGood, DeskPass
  <2> QED BY <1>4, <2>2 DEF Desk!Tool, Desk!get_listing
<1>5. CASE c.tool = "stage"
  <2> DEFINE x == [user |-> Staff[s], target |-> c.product, old |-> w.price[c.product],
                   new |-> c.price, status |-> "pending"]
             all == Append(w.changes, x)
             v == [w EXCEPT !.changes = all, !.staged = @ \cup {Len(all)}]
  <2>1. c.product \in Articles /\ c.price \in Nat
    BY <1>5, DeskCall
  <2>2. ASSUME c.price > 0 PROVE v \in DeskGood(ses, k)
    <3>1. x \in Desk!Change /\ x.status = "pending"
      BY <1>2, <2>1, <2>2 DEF Desk!Change
    <3> HIDE DEF x
    <3>2. /\ all \in Seq(Desk!Change) /\ Len(all) = Len(w.changes) + 1 /\ Len(all) \in Nat
          /\ DOMAIN all = 1..Len(all) /\ DOMAIN w.changes = 1..Len(w.changes) /\ Len(w.changes) \in Nat
      BY <1>2, <3>1
    <3>3. Explains(w.price, all, w.applied)
      BY <1>1, <1>2, <3>1, StageExplains
    <3> HIDE DEF all
    <3>4. v \in DeskPass
      BY <1>1, <3>2 DEF DeskPass
    <3>5. /\ v.price = w.price /\ v.changes = all /\ v.applied = w.applied
          /\ v.staged = w.staged \cup {Len(all)} /\ v.queries = w.queries /\ v.stop = w.stop
      BY <1>1 DEF DeskPass
    <3> HIDE DEF v
    <3>6. v.staged \subseteq DOMAIN all /\ k <= Len(all)
      BY <1>1, <3>2, <3>5
    <3> QED BY <1>1, <3>3, <3>4, <3>5, <3>6 DEF DeskGood
  <2>3. \/ Desk!stage_price_change(s, ses, w, c) = v /\ c.price > 0
        \/ Desk!stage_price_change(s, ses, w, c) = w
    BY DEF Desk!stage_price_change, Desk!check_price_move, Desk!Staged, Desk!NewId
  <2>4. Desk!Tool(s, ses, w, c) = Desk!stage_price_change(s, ses, w, c)
    BY <1>5 DEF Desk!Tool
  <2> HIDE DEF v
  <2> QED BY <2>2, <2>3, <2>4
<1>6. CASE c.tool = "apply"
  <2> DEFINE n == c.change
             ch == w.changes[n]
             a == Desk!interrupt(w)
             v == [a.w EXCEPT !.price[ch.target] = ch.new,
                              !.changes[n] = Desk!AsApplied(ch),
                              !.applied = Append(@, [change |-> n, cap |-> ses.cap,
                                                     alone |-> Desk!Alone(ses.calls)])]
             Applies == Desk!Pending(w.changes, Staff[s], n) /\ Desk!Rechecks(ch, ses.cap)
  <2>1. /\ a.answer \in Replies \cup {"none"} /\ a.w \in DeskPass
        /\ a.w.price = w.price /\ a.w.changes = w.changes /\ a.w.applied = w.applied
        /\ a.w.staged = w.staged /\ a.w.queries = w.queries /\ a.w.stop = w.stop
    BY <1>1, DeskAsks
  <2> HIDE DEF a
  <2>2. a.w \in DeskGood(ses, k)
    BY <1>1, <2>1 DEF DeskGood
  <2>3. ASSUME Applies PROVE Desk!Stops(a.w, "asks", n) \in DeskGood(ses, k)
    <3>1. n \in Nat \ {0}
      BY <1>2, <2>3 DEF Desk!Pending
    <3> QED BY <1>3, <2>1, <3>1
  <2>4. ASSUME Applies PROVE v \in DeskGood(ses, k)
    <3> DEFINE c2 == [w.changes EXCEPT ![n] = Desk!AsApplied(ch)]
               p2 == [w.price EXCEPT ![ch.target] = ch.new]
               a2 == Append(w.applied, [change |-> n, cap |-> ses.cap, alone |-> Desk!Alone(ses.calls)])
    <3>1. n \in DOMAIN w.changes /\ ch.status = "pending" /\ Fits(ch, ses.cap)
      BY <2>4 DEF Desk!Pending, Desk!Rechecks, Desk!check_price_move, Fits
    <3>0. Desk!Alone(ses.calls) \in BOOLEAN
      BY DEF Desk!Alone
    <3>2. /\ c2 \in Seq(Desk!Change) /\ Len(c2) = Len(w.changes)
          /\ p2 \in [Articles -> Nat \ {0}] /\ a2 \in Seq(Move)
          /\ Explains(p2, c2, a2)
      BY <1>1, <1>2, <3>0, <3>1, ApplyExplains
    <3>3. v = [a.w EXCEPT !.price = p2, !.changes = c2, !.applied = a2]
      BY <2>1 DEF DeskPass
    <3>4. DOMAIN c2 = DOMAIN w.changes
      BY <1>2, <3>2
    <3> HIDE DEF c2, p2, a2, v, ch, n
    <3>5. v \in DeskPass
      BY <2>1, <3>2, <3>3 DEF DeskPass
    <3>6. /\ v.price = p2 /\ v.changes = c2 /\ v.applied = a2 /\ v.staged = w.staged
          /\ v.queries = w.queries /\ v.stop = w.stop
      BY <2>1, <3>3 DEF DeskPass
    <3> QED BY <1>1, <3>2, <3>4, <3>5, <3>6 DEF DeskGood
  <2>5. Desk!Tool(s, ses, w, c) = Desk!apply_change(s, ses, w, c)
    BY <1>6 DEF Desk!Tool
  <2>6. \/ Desk!apply_change(s, ses, w, c) = w
        \/ Desk!apply_change(s, ses, w, c) = Desk!Stops(a.w, "asks", n) /\ Applies
        \/ Desk!apply_change(s, ses, w, c) = a.w
        \/ Desk!apply_change(s, ses, w, c) = v /\ Applies
    BY DEF Desk!apply_change, a
  <2> HIDE DEF v, Applies, n
  <2> QED BY <2>2, <2>3, <2>4, <2>5, <2>6
<1>7. CASE c.tool = "discard"
  <2> DEFINE n == c.change
             v == [w EXCEPT !.changes[n].status = "discarded"]
             d == [w.changes EXCEPT ![n].status = "discarded"]
  <2>1. n \in Nat
    BY DeskCall
  <2>2. ASSUME Desk!Pending(w.changes, Staff[s], n) PROVE v \in DeskGood(ses, k)
    <3>1. n \in DOMAIN w.changes /\ w.changes[n].status = "pending"
      BY <2>2 DEF Desk!Pending
    <3>2. d \in Seq(Desk!Change) /\ Len(d) = Len(w.changes) /\ Explains(w.price, d, w.applied)
      BY <1>1, <1>2, <3>1, DiscardExplains
    <3>3. DOMAIN d = DOMAIN w.changes
      BY <1>2, <3>2
    <3>4. v = [w EXCEPT !.changes = d]
      BY <1>1 DEF DeskPass
    <3> HIDE DEF d, v
    <3>5. v \in DeskPass
      BY <1>1, <3>2, <3>4 DEF DeskPass
    <3>6. /\ v.price = w.price /\ v.changes = d /\ v.applied = w.applied /\ v.staged = w.staged
          /\ v.queries = w.queries /\ v.stop = w.stop
      BY <1>1, <3>4 DEF DeskPass
    <3> QED BY <1>1, <3>2, <3>3, <3>5, <3>6 DEF DeskGood
  <2>3. Desk!Stops(w, "fails", n) \in DeskGood(ses, k) \/ n \notin ses.staged
    <3>1. CASE n # 0
      BY <1>1, <1>3, <2>1, <3>1
    <3>2. CASE n = 0
      <4> DEFINE u == [w EXCEPT !.stop = [why |-> "fails", change |-> n]]
      <4>1. u \in DeskPass
        BY <1>1, <2>1 DEF DeskPass
      <4>2. /\ u.price = w.price /\ u.changes = w.changes /\ u.applied = w.applied /\ u.staged = w.staged
            /\ u.queries = w.queries /\ u.stop.why = "fails"
        BY <1>1 DEF DeskPass
      <4> HIDE DEF u
      <4>3. u \in DeskGood(ses, k)
        BY <1>1, <4>1, <4>2 DEF DeskGood
      <4> QED BY <4>3 DEF Desk!Stops, u
    <3> QED BY <3>1, <3>2
  <2>4. Desk!Tool(s, ses, w, c) = Desk!discard_change(s, ses, w, c)
    BY <1>7 DEF Desk!Tool
  <2>5. \/ Desk!discard_change(s, ses, w, c) = w
        \/ Desk!discard_change(s, ses, w, c) = Desk!Stops(w, "fails", n) /\ n \in ses.staged
        \/ Desk!discard_change(s, ses, w, c) = v /\ Desk!Pending(w.changes, Staff[s], n)
    BY DEF Desk!discard_change
  <2> HIDE DEF v, n
  <2> QED BY <2>2, <2>3, <2>4, <2>5
<1>8. CASE c.tool = "analytics"
  <2> DEFINE n == w.queries + 1
             v == [w EXCEPT !.queries = n]
  <2>0. n \in Nat
    BY <1>2
  <2>1. v \in DeskPass
    <3> HIDE DEF n
    <3> QED BY <1>1, <2>0 DEF DeskPass
  <2>2. ~(ses.analytics >= MaxAnalytics) => v \in DeskGood(ses, k)
    <3> SUFFICES ASSUME ~(ses.analytics >= MaxAnalytics) PROVE v \in DeskGood(ses, k)
      OBVIOUS
    <3>1. ses.analytics < MaxAnalytics
      BY DEF DeskSession, DeskDeployment
    <3>2. /\ v.price = w.price /\ v.changes = w.changes /\ v.applied = w.applied /\ v.staged = w.staged
          /\ v.stop = w.stop
      BY <1>1 DEF DeskPass
    <3> HIDE DEF v
    <3> QED BY <1>1, <2>1, <3>1, <3>2 DEF DeskGood
  <2> HIDE DEF v
  <2> QED BY <1>8, <2>2 DEF Desk!Tool, Desk!analytics_query, v
<1> QED BY <1>4, <1>5, <1>6, <1>7, <1>8, DeskCall

(* The pass with which the tools node begins. *)
DeskStart(s) ==
  [price |-> price, changes |-> changes, applied |-> applied, resume |-> session[s].resume,
   answer |-> session[s].answer, asks |-> 0, seen |-> session[s].seen,
   staged |-> session[s].staged, queries |-> 0, stop |-> Desk!Proceed]

LEMMA DeskNode ==
  ASSUME DeskDeployment, NEW s \in Sessions, session[s] \in DeskSession, NEW k \in Nat,
         DeskStart(s) \in DeskGood(session[s], k)
  PROVE  LET calls == session[s].calls IN
         \E f : /\ f[0] = DeskStart(s)
                /\ \A i \in 1..Len(calls) : f[i] = Desk!Tool(s, session[s], f[i - 1], calls[i])
                /\ Desk!ToolNode(s) = f[Len(calls)]
<1> DEFINE ses == session[s]
           calls == ses.calls
           n == Len(calls)
           W == DeskGood(ses, k)
           Is(f) == f = [i \in 0..n |-> IF i = 0 THEN DeskStart(s) ELSE Desk!Tool(s, ses, f[i - 1], calls[i])]
<1>1. calls \in Seq(Desk!Calls) /\ n \in Nat
  BY DEF DeskSession
<1>2. \E f : Is(f)
  <2> DEFINE F == [x \in W \X (1..n) |-> Desk!Tool(s, ses, x[1], calls[x[2]])]
  <2>1. \A w \in W, i \in 1..n : F[<<w, i>>] = Desk!Tool(s, ses, w, calls[i]) /\ F[<<w, i>>] \in W
    <3>1. \A i \in 1..n : calls[i] \in Desk!Calls
      BY <1>1
    <3>2. \A w \in W, i \in 1..n : Desk!Tool(s, ses, w, calls[i]) \in W
      BY <3>1, DeskTool
    <3> HIDE DEF W
    <3> QED BY <3>2
  <2> HIDE DEF F, W
  <2>2. PICK f \in [0..n -> W] : f[0] = DeskStart(s) /\ \A i \in 1..n : f[i] = F[<<f[i - 1], i>>]
    <3>1. DeskStart(s) \in W
      BY DEF W
    <3>2. Within(W, n, F)
      BY <2>1 DEF Within
    <3> HIDE DEF n
    <3>3. \E f \in [0..n -> W] : IsPass(f, n, DeskStart(s), F)
      BY <1>1, <3>1, <3>2, PassExists
    <3> QED BY <3>3 DEF IsPass
  <2>3. ASSUME NEW i \in 0..n
        PROVE  f[i] = IF i = 0 THEN DeskStart(s) ELSE Desk!Tool(s, ses, f[i - 1], calls[i])
    <3>1. i # 0 => i \in 1..n /\ i - 1 \in 0..n
      BY <1>1
    <3>2. i # 0 => f[i - 1] \in W
      BY <3>1
    <3> HIDE DEF n, ses, calls
    <3> QED BY <2>1, <2>2, <3>1, <3>2
  <2>4. f = [i \in 0..n |-> f[i]]
    OBVIOUS
  <2> HIDE DEF n, ses, calls
  <2>5. Is(f)
    BY <2>3, <2>4
  <2> QED BY <2>5
<1> DEFINE g == CHOOSE f : Is(f)
<1>3. Is(g)
  <2> HIDE DEF Is
  <2> QED BY <1>2
<1>4. Desk!ToolNode(s) = g[n]
  BY DEF Desk!ToolNode, DeskStart
<1> HIDE DEF g
<1>5. \A i \in 0..n : g[i] = IF i = 0 THEN DeskStart(s) ELSE Desk!Tool(s, ses, g[i - 1], calls[i])
  <2> DEFINE B(i) == IF i = 0 THEN DeskStart(s) ELSE Desk!Tool(s, ses, g[i - 1], calls[i])
  <2>1. g = [i \in 0..n |-> B(i)]
    BY <1>3, Zenon
  <2>2. \A i \in 0..n : g[i] = B(i)
    <3> HIDE DEF B, n
    <3> QED BY <2>1
  <2> QED BY <2>2
<1>6. g[0] = DeskStart(s)
  <2>1. 0 \in 0..n
    BY <1>1
  <2> QED BY <1>5, <2>1
<1>7. ASSUME NEW i \in 1..n PROVE g[i] = Desk!Tool(s, ses, g[i - 1], calls[i])
  <2>1. i \in 0..n /\ i # 0
    BY <1>1
  <2> HIDE DEF n
  <2> QED BY <1>5, <2>1
<1> QED BY <1>4, <1>6, <1>7

LEMMA DeskNodeGood ==
  ASSUME DeskDeployment, NEW s \in Sessions, session[s] \in DeskSession, NEW k \in Nat,
         DeskStart(s) \in DeskGood(session[s], k)
  PROVE  Desk!ToolNode(s) \in DeskGood(session[s], k)
<1> DEFINE calls == session[s].calls
           W == DeskGood(session[s], k)
<1>1. PICK f : /\ f[0] = DeskStart(s)
               /\ \A i \in 1..Len(calls) : f[i] = Desk!Tool(s, session[s], f[i - 1], calls[i])
               /\ Desk!ToolNode(s) = f[Len(calls)]
  BY DeskNode
<1>2. calls \in Seq(Desk!Calls)
  BY DEF DeskSession
<1>3. Len(calls) \in Nat /\ \A i \in 1..Len(calls) : calls[i] \in Desk!Calls
  BY <1>2
<1> HIDE DEF calls
<1>4. \A i \in 1..Len(calls) : f[i - 1] \in W => f[i] \in W
  BY <1>1, <1>3, DeskTool
<1>5. f[0] \in W
  BY <1>1
<1> HIDE DEF W
<1>6. f[Len(calls)] \in W
  BY <1>3, <1>4, <1>5, PassKeeps
<1> QED BY <1>1, <1>6 DEF W

(* A session holds ids of staged changes, and is asked about one when paused. *)
DeskSound(ses, n) ==
  /\ ses.staged \subseteq 1..n /\ ses.analytics <= MaxAnalytics
  /\ (ses.at = "paused") = (ses.asked # 0)

DeskInv ==
  /\ price \in [Articles -> Nat \ {0}] /\ changes \in Seq(Desk!Change) /\ applied \in Seq(Move)
  /\ Explains(price, changes, applied)
  /\ session \in [Sessions -> DeskSession]
  /\ \A s \in Sessions : DeskSound(session[s], Len(changes))

LEMMA DeskMessages == {<<>>} \cup Desk!Messages \subseteq Seq(Desk!Calls)
<1>1. ASSUME NEW n \in 1..CallsInMessage, NEW b \in [1..n -> Desk!Calls] PROVE b \in Seq(Desk!Calls)
  <2>1. n \in Nat
    OBVIOUS
  <2> QED BY <2>1
<1>2. <<>> \in Seq(Desk!Calls)
  OBVIOUS
<1>3. Desk!Messages \subseteq UNION {[1..n -> Desk!Calls] : n \in 1..CallsInMessage}
  BY DEF Desk!Messages
<1> QED BY <1>1, <1>2, <1>3

LEMMA DeskEnded ==
  ASSUME NEW ses \in DeskSession
  PROVE  /\ Desk!Ended(ses) \in DeskSession
         /\ Desk!Ended(ses).at = "idle" /\ Desk!Ended(ses).staged = ses.staged
         /\ Desk!Ended(ses).analytics = ses.analytics /\ Desk!Ended(ses).asked = ses.asked
         /\ Desk!Ended(ses).calls = <<>> /\ Desk!Ended(ses).resume = <<>>
         /\ Desk!Ended(ses).answer = "none" /\ Desk!Ended(ses).left = 0
<1>1. <<>> \in Seq(Desk!Calls) /\ <<>> \in Seq(Replies)
  OBVIOUS
<1>2. /\ Desk!Ended(ses).at = "idle" /\ Desk!Ended(ses).staged = ses.staged
      /\ Desk!Ended(ses).analytics = ses.analytics /\ Desk!Ended(ses).asked = ses.asked
      /\ Desk!Ended(ses).calls = <<>> /\ Desk!Ended(ses).resume = <<>>
      /\ Desk!Ended(ses).answer = "none" /\ Desk!Ended(ses).left = 0
  BY DEF Desk!Ended, DeskSession
<1>3. Desk!Ended(ses) \in DeskSession
  <2>1. 0 \in Nat /\ 0 \in Int
    OBVIOUS
  <2> QED BY <1>1, <2>1 DEF Desk!Ended, DeskSession
<1> QED BY <1>2, <1>3

(* The model answers: its run ends, or it goes on to the tools. *)
LEMMA DeskReplies ==
  ASSUME NEW s \in Sessions, Desk!Merchant(s), session \in [Sessions -> DeskSession]
  PROVE  \E calls \in Seq(Desk!Calls) :
           \/ session' = [session EXCEPT ![s] = Desk!Ended(session[s])]
           \/ /\ session' = [session EXCEPT ![s] = [session[s] EXCEPT !.at = "tools", !.calls = calls,
                                                                     !.left = session[s].left - 1]]
              /\ calls # <<>> /\ ~Desk!OutOfSteps(session[s].left)
              /\ calls \in Desk!Messages
<1>1. PICK batch \in {<<>>} \cup Desk!Messages :
        LET calls == IF Desk!OutOfSteps(session[s].left) THEN <<>> ELSE batch IN
        session' = [session EXCEPT ![s] =
                      IF Desk!route_after_merchant(calls) = "idle" THEN Desk!Ended(@)
                      ELSE [@ EXCEPT !.at = "tools", !.calls = calls, !.left = session[s].left - 1]]
  BY DEF Desk!Merchant
<1> DEFINE calls == IF Desk!OutOfSteps(session[s].left) THEN <<>> ELSE batch
           x == [session[s] EXCEPT !.at = "tools", !.calls = calls, !.left = session[s].left - 1]
<1>2. session' = [session EXCEPT ![s] = IF Desk!route_after_merchant(calls) = "idle"
                                        THEN Desk!Ended(session[s]) ELSE x]
  BY <1>1, Zenon
<1>3. calls \in Seq(Desk!Calls)
  <2>1. <<>> \in Seq(Desk!Calls)
    OBVIOUS
  <2> QED BY <2>1, DeskMessages
<1>4. calls # <<>> => ~Desk!OutOfSteps(session[s].left) /\ calls \in Desk!Messages
  OBVIOUS
<1> HIDE DEF calls
<1>5. Desk!route_after_merchant(calls) # "idle" => calls # <<>>
  BY DEF Desk!route_after_merchant
<1> HIDE DEF x
<1>6. \/ session' = [session EXCEPT ![s] = Desk!Ended(session[s])]
      \/ session' = [session EXCEPT ![s] = x] /\ Desk!route_after_merchant(calls) # "idle"
  <2>1. CASE Desk!route_after_merchant(calls) = "idle"
    BY <1>2, <2>1
  <2>2. CASE Desk!route_after_merchant(calls) # "idle"
    BY <1>2, <2>2
  <2> QED BY <2>1, <2>2
<1> QED BY <1>3, <1>4, <1>5, <1>6 DEF x

(* A step that only moves a session. *)
LEMMA DeskMoves ==
  ASSUME DeskInv, NEW s \in Sessions, NEW ses \in DeskSession, DeskSound(ses, Len(changes)),
         session' = [session EXCEPT ![s] = ses], UNCHANGED <<price, changes, applied>>
  PROVE  DeskInv'
<1>1. session' \in [Sessions -> DeskSession]
  BY DEF DeskInv
<1>2. \A t \in Sessions : session'[t] = IF t = s THEN ses ELSE session[t]
  BY DEF DeskInv
<1>3. \A t \in Sessions : DeskSound(session'[t], Len(changes))
  BY <1>2 DEF DeskInv
<1> QED BY <1>1, <1>3 DEF DeskInv

(* What the tools node does with its pass w. *)
DeskAsking(ses, w) ==
  [ses EXCEPT !.at = "paused", !.asked = w.stop.change, !.resume = w.resume, !.answer = "none",
              !.cap = 0, !.left = 0]
DeskGoesOn(ses, w) ==
  [ses EXCEPT !.at = "merchant", !.seen = w.seen, !.staged = w.staged,
              !.analytics = ses.analytics + w.queries, !.left = ses.left - 1,
              !.calls = <<>>, !.resume = <<>>, !.answer = "none"]

LEMMA DeskAfter ==
  ASSUME NEW s \in Sessions, Desk!Tools(s), session \in [Sessions -> DeskSession]
  PROVE  LET w == Desk!ToolNode(s)
             ses == session[s]
         IN /\ ses.at = "tools"
            /\ price' = w.price /\ changes' = w.changes /\ applied' = w.applied /\ approved' = approved
            /\ \/ /\ w.stop.why = "asks" /\ session' = [session EXCEPT ![s] = DeskAsking(ses, w)]
                  /\ lost' = lost \cup (w.staged \ ses.staged)
               \/ /\ session' = [session EXCEPT ![s] = Desk!Ended(ses)]
                  /\ lost' = lost \cup (w.staged \ ses.staged)
               \/ /\ w.stop.why = "none" /\ w.queries <= 1
                  /\ session' = [session EXCEPT ![s] = DeskGoesOn(ses, w)] /\ lost' = lost
<1> DEFINE w == Desk!ToolNode(s)
           ses == session[s]
<1>1. [session EXCEPT ![s].at = "paused", ![s].asked = w.stop.change, ![s].resume = w.resume,
                      ![s].answer = "none", ![s].cap = 0, ![s].left = 0]
        = [session EXCEPT ![s] = DeskAsking(ses, w)]
  <2> HIDE DEF w
  <2> QED BY DEF DeskAsking
<1> QED BY <1>1 DEF Desk!Tools, DeskGoesOn

LEMMA DeskBegins ==
  ASSUME DeskInv, NEW s \in Sessions
  PROVE  session[s] \in DeskSession /\ DeskStart(s) \in DeskGood(session[s], Len(changes))
<1> DEFINE w == DeskStart(s)
<1>1. session[s] \in DeskSession /\ DeskSound(session[s], Len(changes))
  BY DEF DeskInv
<1>2. w \in DeskPass
  BY <1>1 DEF DeskStart, DeskPass, DeskSession, DeskInv, Desk!Proceed
<1>3. /\ w.price = price /\ w.changes = changes /\ w.applied = applied /\ w.staged = session[s].staged
      /\ w.stop.why = "none" /\ w.queries = 0
  BY DEF DeskStart, Desk!Proceed
<1>4. DOMAIN changes = 1..Len(changes) /\ Len(changes) \in Nat
  BY DEF DeskInv
<1> HIDE DEF w
<1>5. w \in DeskGood(session[s], Len(changes))
  BY <1>1, <1>2, <1>3, <1>4 DEF DeskGood, DeskInv, DeskSound
<1> QED BY <1>1, <1>5 DEF w

LEMMA DeskTools ==
  ASSUME DeskDeployment, DeskInv, NEW s \in Sessions, Desk!Tools(s)
  PROVE  DeskInv'
<1> DEFINE w == Desk!ToolNode(s)
           ses == session[s]
           k == Len(changes)
<1>1. ses \in DeskSession /\ w \in DeskGood(ses, k) /\ k \in Nat /\ DeskSound(ses, k)
  BY DeskBegins, DeskNodeGood DEF DeskInv
<1>2. /\ ses.at = "tools"
      /\ price' = w.price /\ changes' = w.changes /\ applied' = w.applied
      /\ \/ w.stop.why = "asks" /\ session' = [session EXCEPT ![s] = DeskAsking(ses, w)]
         \/ session' = [session EXCEPT ![s] = Desk!Ended(ses)]
         \/ /\ w.queries <= 1
            /\ session' = [session EXCEPT ![s] = DeskGoesOn(ses, w)]
  BY DeskAfter DEF DeskInv
<1> HIDE DEF w, ses, k
<1>3. /\ w \in DeskPass /\ Explains(w.price, w.changes, w.applied)
      /\ k <= Len(w.changes) /\ w.staged \subseteq DOMAIN w.changes
      /\ w.stop.why = "asks" => w.stop.change # 0
      /\ w.queries > 0 => ses.analytics < MaxAnalytics
  BY <1>1 DEF DeskGood
<1>4. /\ w.price \in [Articles -> Nat \ {0}] /\ w.changes \in Seq(Desk!Change) /\ w.applied \in Seq(Move)
      /\ DOMAIN w.changes = 1..Len(w.changes) /\ Len(w.changes) \in Nat
      /\ w.queries \in Nat
  <2>1. w.changes \in Seq(Desk!Change)
    BY <1>3 DEF DeskPass
  <2> QED BY <1>3, <2>1 DEF DeskPass
<1> DEFINE m == Len(w.changes)
<1>5. \A x \in SUBSET (1..k) : x \subseteq 1..m
  BY <1>1, <1>3, <1>4
<1>6. ses.asked = 0 /\ ses.staged \subseteq 1..m /\ ses.analytics \in Nat /\ ses.analytics <= MaxAnalytics
  BY <1>1, <1>2, <1>5 DEF DeskSound, DeskSession
<1> HIDE DEF m
<1>7. PICK new \in DeskSession : session' = [session EXCEPT ![s] = new] /\ DeskSound(new, m)
  <2>1. CASE w.stop.why = "asks" /\ session' = [session EXCEPT ![s] = DeskAsking(ses, w)]
    <3> DEFINE x == DeskAsking(ses, w)
    <3>1. x \in DeskSession
      <4>1. w.stop.change \in Nat /\ w.resume \in Seq(Replies) /\ 0 \in Int
        BY <1>3 DEF DeskPass
      <4> QED BY <1>1, <4>1 DEF DeskAsking, DeskSession
    <3>2. x.staged = ses.staged /\ x.analytics = ses.analytics /\ x.at = "paused" /\ x.asked # 0
      BY <1>1, <1>3, <2>1 DEF DeskAsking, DeskSession
    <3> HIDE DEF x
    <3>3. DeskSound(x, m)
      BY <1>6, <3>2 DEF DeskSound
    <3> QED BY <2>1, <3>1, <3>3 DEF x
  <2>2. CASE session' = [session EXCEPT ![s] = Desk!Ended(ses)]
    <3>1. Desk!Ended(ses) \in DeskSession /\ DeskSound(Desk!Ended(ses), m)
      BY <1>1, <1>6, DeskEnded DEF DeskSound
    <3> QED BY <2>2, <3>1
  <2>3. CASE w.queries <= 1 /\ session' = [session EXCEPT ![s] = DeskGoesOn(ses, w)]
    <3> DEFINE x == DeskGoesOn(ses, w)
    <3>1. x \in DeskSession
      <4>1. <<>> \in Seq(Desk!Calls) /\ <<>> \in Seq(Replies)
        OBVIOUS
      <4>2. ses.left - 1 \in Int /\ ses.analytics + w.queries \in Nat
        BY <1>1, <1>4, <1>6 DEF DeskSession
      <4> QED BY <1>1, <1>3, <4>1, <4>2 DEF DeskGoesOn, DeskSession, DeskPass
    <3>2. /\ x.staged = w.staged /\ x.analytics = ses.analytics + w.queries /\ x.at = "merchant"
          /\ x.asked = ses.asked
      BY <1>1 DEF DeskGoesOn, DeskSession
    <3> HIDE DEF x
    <3>3. x.analytics <= MaxAnalytics
      BY <1>3, <1>4, <1>6, <2>3, <3>2 DEF DeskDeployment
    <3>4. DeskSound(x, m)
      BY <1>3, <1>4, <1>6, <3>2, <3>3 DEF DeskSound, m
    <3> QED BY <2>3, <3>1, <3>4 DEF x
  <2> QED BY <1>2, <2>1, <2>2, <2>3
<1>8. \A t \in Sessions : session'[t] = IF t = s THEN new ELSE session[t]
  BY <1>7 DEF DeskInv
<1>9. session' \in [Sessions -> DeskSession]
  BY <1>7 DEF DeskInv
<1>10. \A t \in Sessions : DeskSound(session'[t], m)
  <2> SUFFICES ASSUME NEW t \in Sessions PROVE DeskSound(session'[t], m)
    OBVIOUS
  <2>1. CASE t = s
    BY <1>7, <1>8, <2>1
  <2>2. CASE t # s
    <3>1. session'[t] = session[t] /\ DeskSound(session[t], k)
      BY <1>8, <2>2 DEF DeskInv, k
    <3> QED BY <1>5, <3>1 DEF DeskSound, m
  <2> QED BY <2>1, <2>2
<1> QED BY <1>2, <1>3, <1>4, <1>9, <1>10 DEF DeskInv, m

LEMMA DeskStep == DeskDeployment /\ DeskInv /\ [Desk!Next]_(Desk!vars) => DeskInv'
<1> SUFFICES ASSUME DeskDeployment, DeskInv, [Desk!Next]_(Desk!vars) PROVE DeskInv'
  OBVIOUS
<1>0. \A s \in Sessions : session[s] \in DeskSession /\ DeskSound(session[s], Len(changes))
  BY DEF DeskInv
<1>1. ASSUME NEW s \in Sessions, NEW cap \in Caps, NEW limit \in StaffLimits, Desk!Start(s, cap, limit)
      PROVE  DeskInv'
  <2> DEFINE ses == [session[s] EXCEPT !.at = "merchant", !.cap = cap, !.left = limit - 1,
                                       !.calls = <<>>, !.resume = <<>>, !.answer = "none", !.asked = 0]
  <2>1. <<>> \in Seq(Desk!Calls) /\ <<>> \in Seq(Replies) /\ cap \in Nat /\ limit - 1 \in Int
    BY DEF DeskDeployment
  <2>2. session' = [session EXCEPT ![s] = ses] /\ UNCHANGED <<price, changes, applied>>
    BY <1>1 DEF Desk!Start, DeskInv
  <2>3. ses \in DeskSession
    BY <1>0, <2>1 DEF DeskSession
  <2>4. DeskSound(ses, Len(changes))
    BY <1>0 DEF DeskSession, DeskSound
  <2> HIDE DEF ses
  <2> QED BY <2>2, <2>3, <2>4, DeskMoves
<1>2. ASSUME NEW s \in Sessions, NEW cap \in Caps, NEW limit \in StaffLimits, NEW answer \in Replies,
             Desk!Answer(s, answer, cap, limit)
      PROVE  DeskInv'
  <2> DEFINE ses == [session[s] EXCEPT !.at = "tools", !.cap = cap, !.left = limit + 1,
                                       !.answer = answer, !.asked = 0]
  <2>1. cap \in Nat /\ limit + 1 \in Int
    BY DEF DeskDeployment
  <2>2. session' = [session EXCEPT ![s] = ses] /\ UNCHANGED <<price, changes, applied>>
    BY <1>2 DEF Desk!Answer, DeskInv
  <2>3. ses \in DeskSession
    BY <1>0, <2>1 DEF DeskSession
  <2>4. DeskSound(ses, Len(changes))
    BY <1>0 DEF DeskSession, DeskSound
  <2> HIDE DEF ses
  <2> QED BY <2>2, <2>3, <2>4, DeskMoves
<1>3. ASSUME NEW s \in Sessions, Desk!Merchant(s) PROVE DeskInv'
  <2>1. session \in [Sessions -> DeskSession]
    BY DEF DeskInv
  <2>2. PICK calls \in Seq(Desk!Calls) :
          \/ session' = [session EXCEPT ![s] = Desk!Ended(session[s])]
          \/ session' = [session EXCEPT ![s] = [session[s] EXCEPT !.at = "tools", !.calls = calls,
                                                                 !.left = session[s].left - 1]]
    BY <1>3, <2>1, DeskReplies
  <2>3. session[s].at = "merchant" /\ UNCHANGED <<price, changes, applied>>
    BY <1>3 DEF Desk!Merchant
  <2> DEFINE n == session[s].left - 1
             x == [session[s] EXCEPT !.at = "tools", !.calls = calls, !.left = n]
  <2>4. session' = [session EXCEPT ![s] = Desk!Ended(session[s])] \/ session' = [session EXCEPT ![s] = x]
    BY <2>2
  <2>5. x \in DeskSession
    <3>1. n \in Int
      BY <1>0 DEF DeskSession
    <3> HIDE DEF n
    <3> QED BY <1>0, <3>1 DEF DeskSession
  <2>6. DeskSound(x, Len(changes))
    BY <1>0, <2>3 DEF DeskSession, DeskSound
  <2> HIDE DEF x
  <2>7. Desk!Ended(session[s]) \in DeskSession /\ DeskSound(Desk!Ended(session[s]), Len(changes))
    BY <1>0, <2>3, DeskEnded DEF DeskSound
  <2> QED BY <2>3, <2>4, <2>5, <2>6, <2>7, DeskMoves
<1>4. ASSUME NEW s \in Sessions, Desk!Tools(s) PROVE DeskInv'
  BY <1>4, DeskTools
<1>5. CASE UNCHANGED Desk!vars
  BY <1>5 DEF Desk!vars, DeskInv
<1> QED BY <1>1, <1>2, <1>3, <1>4, <1>5 DEF Desk!Next, Replies

LEMMA DeskFirst == DeskDeployment /\ Desk!Init => DeskInv
<1> SUFFICES ASSUME DeskDeployment, Desk!Init PROVE DeskInv
  OBVIOUS
<1>1. Desk!Fresh \in DeskSession /\ DeskSound(Desk!Fresh, 0)
  <2>1. <<>> \in Seq(Desk!Calls) /\ <<>> \in Seq(Replies)
    OBVIOUS
  <2> QED BY <2>1 DEF Desk!Fresh, DeskSession, DeskSound, DeskDeployment
<1>2. <<>> \in Seq(Desk!Change) /\ <<>> \in Seq(Move) /\ DOMAIN <<>> = {} /\ Len(<<>>) = 0
  OBVIOUS
<1>3. price \in [Articles -> Nat \ {0}] /\ \A p \in Articles : price[p] = FirstPrice
  BY DEF Desk!Init, DeskDeployment
<1>4. changes = <<>> /\ applied = <<>> /\ session = [s \in Sessions |-> Desk!Fresh]
  BY DEF Desk!Init
<1>5. Explains(price, changes, applied)
  BY <1>2, <1>3, <1>4 DEF Explains
<1>6. session \in [Sessions -> DeskSession] /\ \A s \in Sessions : DeskSound(session[s], Len(changes))
  BY <1>1, <1>2, <1>4
<1> QED BY <1>2, <1>3, <1>4, <1>5, <1>6 DEF DeskInv

(* MerchantAgent, for any number of sessions, products, changes and calls in a *)
(* message: each applied change took effect once and within the cap in force,  *)
(* the catalogue shows the last of them, and nothing else moved a price,       *)
(* however often answers make the tools of a message run again.                *)
THEOREM CataloguesExplained ==
  ASSUME DeskDeployment
  PROVE  Desk!Spec => [](Desk!TypeOK /\ Desk!CatalogueExplained /\ Desk!AppliedWithinCap)
<1>1. Desk!Init => DeskInv
  BY DeskFirst
<1>2. DeskInv => Desk!TypeOK /\ Desk!CatalogueExplained /\ Desk!AppliedWithinCap
  <2> SUFFICES ASSUME DeskInv PROVE Desk!TypeOK /\ Desk!CatalogueExplained /\ Desk!AppliedWithinCap
    OBVIOUS
  <2>1. Desk!TypeOK
    <3>1. \A i \in DOMAIN changes : changes[i] \in Desk!Change
      BY DEF DeskInv
    <3>2. DOMAIN changes = 1..Len(changes)
      BY DEF DeskInv
    <3>3. \A s \in Sessions : session[s] \in DeskSession /\ DeskSound(session[s], Len(changes))
      BY DEF DeskInv
    <3>4. \A s \in Sessions :
            /\ session[s].at \in {"idle", "merchant", "tools", "paused"}
            /\ session[s].seen \subseteq Articles
            /\ session[s].staged \subseteq DOMAIN changes
            /\ session[s].analytics \in 0..MaxAnalytics
            /\ (session[s].at = "paused") = (session[s].asked # 0)
      BY <3>2, <3>3 DEF DeskSound, DeskSession, DeskDeployment
    <3> QED BY <3>1, <3>4 DEF Desk!TypeOK, DeskInv
  <2>2. Explains(price, changes, applied)
    BY DEF DeskInv
  <2>3. Desk!AppliedWithinCap
    BY <2>2 DEF Desk!AppliedWithinCap, Explains, Fits
  <2>4. {applied[i].change : i \in DOMAIN applied} = {n \in DOMAIN changes : changes[n].status = "applied"}
    BY <2>2 DEF Explains
  <2>5. \A p \in Articles :
          /\ Desk!Moves(p) = {} => price[p] = FirstPrice
          /\ \A i \in Desk!Moves(p) : (\A j \in Desk!Moves(p) : j <= i)
                                        => price[p] = changes[applied[i].change].new
    BY <2>2 DEF Explains, Moved, Desk!Moves
  <2>6. \A i, j \in DOMAIN applied : applied[i].change = applied[j].change => i = j
    BY <2>2 DEF Explains
  <2>7. Desk!CatalogueExplained
    BY <2>4, <2>5, <2>6 DEF Desk!CatalogueExplained
  <2> QED BY <2>1, <2>3, <2>7
<1>3. DeskInv /\ [Desk!Next]_(Desk!vars) => DeskInv'
  BY DeskStep
<1> QED BY <1>1, <1>2, <1>3, PTL DEF Desk!Spec

(* The steps that are left at the two nodes. *)
DeskLeft ==
  \A s \in Sessions : /\ session[s].at = "tools" => session[s].left >= 2
                      /\ session[s].at = "merchant" => session[s].left >= 1

(* MerchantAgent, for any limits of at least two steps: neither node is        *)
(* reached without a step left, so that a run ends by itself, after an answer  *)
(* too.                                                                        *)
THEOREM StaffRunsEnd ==
  ASSUME DeskDeployment, \A limit \in StaffLimits : limit >= 2
  PROVE  Desk!Spec => []Desk!NeverOutOfSteps
<1>1. Desk!Init => DeskInv /\ DeskLeft
  <2>1. Desk!Init => DeskLeft
    BY DEF Desk!Init, DeskLeft, Desk!Fresh
  <2> QED BY <2>1, DeskFirst
<1>2. DeskInv /\ DeskLeft => Desk!NeverOutOfSteps
  BY DEF DeskInv, DeskLeft, Desk!NeverOutOfSteps, DeskSession
<1>3. DeskInv /\ [Desk!Next]_(Desk!vars) => DeskInv'
  BY DeskStep
<1>4. DeskInv /\ DeskLeft /\ [Desk!Next]_(Desk!vars) => DeskLeft'
  <2> SUFFICES ASSUME DeskInv, DeskLeft, [Desk!Next]_(Desk!vars) PROVE DeskLeft'
    OBVIOUS
  <2> DEFINE Enough(ses) == /\ ses.at = "tools" => ses.left >= 2
                            /\ ses.at = "merchant" => ses.left >= 1
  <2>0. \A s \in Sessions : session[s] \in DeskSession /\ Enough(session[s])
    BY DEF DeskInv, DeskLeft
  <2>1. ASSUME NEW s \in Sessions, NEW ses, session' = [session EXCEPT ![s] = ses], Enough(ses)
        PROVE  DeskLeft'
    <3>1. \A t \in Sessions : session'[t] = IF t = s THEN ses ELSE session[t]
      BY <2>1 DEF DeskInv
    <3> QED BY <2>0, <2>1, <3>1 DEF DeskLeft
  <2>2. ASSUME NEW s \in Sessions, NEW cap, NEW answer, NEW limit \in StaffLimits,
               Desk!Start(s, cap, limit) \/ Desk!Answer(s, answer, cap, limit)
        PROVE  DeskLeft'
    <3> DEFINE x == [session[s] EXCEPT !.at = "merchant", !.cap = cap, !.left = limit - 1,
                                       !.calls = <<>>, !.resume = <<>>, !.answer = "none", !.asked = 0]
               y == [session[s] EXCEPT !.at = "tools", !.cap = cap, !.left = limit + 1,
                                       !.answer = answer, !.asked = 0]
    <3>1. session' = [session EXCEPT ![s] = x] \/ session' = [session EXCEPT ![s] = y]
      BY <2>2 DEF Desk!Start, Desk!Answer, DeskInv
    <3>2. limit \in Nat /\ limit >= 2
      BY DEF DeskDeployment
    <3>3. Enough(x) /\ Enough(y)
      BY <2>0, <3>2 DEF DeskSession
    <3> HIDE DEF x, y, Enough
    <3> QED BY <2>1, <3>1, <3>3
  <2>3. ASSUME NEW s \in Sessions, Desk!Merchant(s) PROVE DeskLeft'
    <3>1. session \in [Sessions -> DeskSession]
      BY DEF DeskInv
    <3>2. PICK calls \in Seq(Desk!Calls) :
            \/ session' = [session EXCEPT ![s] = Desk!Ended(session[s])]
            \/ /\ session' = [session EXCEPT ![s] = [session[s] EXCEPT !.at = "tools", !.calls = calls,
                                                                      !.left = session[s].left - 1]]
               /\ ~Desk!OutOfSteps(session[s].left)
      BY <2>3, <3>1, DeskReplies
    <3> DEFINE x == [session[s] EXCEPT !.at = "tools", !.calls = calls, !.left = session[s].left - 1]
    <3>3. \/ session' = [session EXCEPT ![s] = Desk!Ended(session[s])]
          \/ session' = [session EXCEPT ![s] = x] /\ ~(session[s].left < 3)
      BY <3>2 DEF Desk!OutOfSteps
    <3>4. x.left = session[s].left - 1 /\ session[s].left \in Int
      BY <2>0 DEF DeskSession
    <3>5. x.at = "tools"
      BY <2>0 DEF DeskSession
    <3> HIDE DEF x
    <3>6. ~(session[s].left < 3) => Enough(x)
      BY <3>4, <3>5
    <3>7. Enough(Desk!Ended(session[s]))
      BY <2>0, DeskEnded
    <3> HIDE DEF Enough
    <3> QED BY <2>1, <3>3, <3>6, <3>7
  <2>4. ASSUME NEW s \in Sessions, Desk!Tools(s) PROVE DeskLeft'
    <3> DEFINE w == Desk!ToolNode(s)
               ses == session[s]
    <3>1. /\ ses.at = "tools"
          /\ \/ session' = [session EXCEPT ![s] = DeskAsking(ses, w)]
             \/ session' = [session EXCEPT ![s] = Desk!Ended(ses)]
             \/ session' = [session EXCEPT ![s] = DeskGoesOn(ses, w)]
      BY <2>4, DeskAfter DEF DeskInv
    <3>2. ses \in DeskSession /\ ses.left >= 2 /\ ses.left \in Int
      BY <2>0, <3>1 DEF DeskSession
    <3> HIDE DEF w, ses
    <3>3. Enough(DeskAsking(ses, w))
      BY <3>2 DEF DeskAsking, DeskSession
    <3>4. Enough(Desk!Ended(ses))
      BY <3>2, DeskEnded
    <3>5. Enough(DeskGoesOn(ses, w))
      <4>1. DeskGoesOn(ses, w).at = "merchant" /\ DeskGoesOn(ses, w).left = ses.left - 1
        BY <3>2 DEF DeskGoesOn, DeskSession
      <4> QED BY <3>2, <4>1
    <3> HIDE DEF Enough
    <3> QED BY <2>1, <3>1, <3>3, <3>4, <3>5
  <2>5. CASE UNCHANGED Desk!vars
    BY <2>5 DEF Desk!vars, DeskLeft
  <2> QED BY <2>2, <2>3, <2>4, <2>5 DEF Desk!Next
<1> QED BY <1>1, <1>2, <1>3, <1>4, PTL DEF Desk!Spec

-----------------------------------------------------------------------------
(* The staff agent: what is applied was approved, and what is pending is held. *)

(* What a call may do to the changes of a pass w, which becomes v: nothing,    *)
(* stage one, discard one or apply one.                                        *)
DeskSame(v, w) == v.changes = w.changes /\ v.applied = w.applied /\ v.staged = w.staged
DeskStages(v, w, user) ==
  /\ \E x : x.user = user /\ x.status = "pending" /\ v.changes = Append(w.changes, x)
  /\ v.applied = w.applied /\ v.staged = w.staged \cup {Len(w.changes) + 1}
DeskDiscards(v, w, ses) ==
  /\ \E n \in ses.staged : n \in DOMAIN w.changes /\
       \E x : x.status = "discarded" /\ v.changes = [w.changes EXCEPT ![n] = x]
  /\ v.applied = w.applied /\ v.staged = w.staged
DeskPending(w, ses, n) ==
  n \in ses.staged /\ n \in DOMAIN w.changes /\ w.changes[n].status = "pending"
DeskSettles(v, w, ses, n) ==
  /\ DeskPending(w, ses, n) /\ v.staged = w.staged /\ v.stop = w.stop
  /\ \E x : x.status = "applied" /\ v.changes = [w.changes EXCEPT ![n] = x]
  /\ \E m \in Move : /\ m.change = n /\ m.alone = Desk!Alone(ses.calls)
                     /\ v.applied = Append(w.applied, m)

(* It takes no answer; or it is an apply call that asks, is declined or        *)
(* applies its change.                                                         *)
DeskSilent(v, w) ==
  /\ v.resume = w.resume /\ v.asks = w.asks /\ v.answer = w.answer
  /\ v.stop = w.stop \/ v.stop.why = "fails"
DeskDry(w) == w.asks >= Len(w.resume) /\ w.answer = "none"
DeskAsksFor(v, w, ses, n) ==
  /\ DeskSame(v, w) /\ DeskPending(w, ses, n) /\ DeskDry(v) /\ v.resume = w.resume
  /\ v.stop = w.stop \/ v.stop = [why |-> "asks", change |-> n]

LEMMA DeskEffect ==
  ASSUME DeskDeployment, NEW s \in Sessions, NEW ses \in DeskSession, NEW w \in DeskPass,
         NEW c \in Desk!Calls
  PROVE  LET v == Desk!Tool(s, ses, w, c)
             a == Desk!interrupt(w)
         IN \/ /\ DeskSilent(v, w)
               /\ DeskSame(v, w) \/ DeskStages(v, w, Staff[s]) \/ DeskDiscards(v, w, ses)
            \/ /\ c.tool = "apply"
               /\ \/ DeskAsksFor(v, w, ses, c.change)
                  \/ a.answer # "none" /\ DeskSame(v, w) /\ v.stop = w.stop
                  \/ a.answer = "yes" /\ DeskSettles(v, w, ses, c.change)
<1> DEFINE v == Desk!Tool(s, ses, w, c)
           a == Desk!interrupt(w)
           n == c.change
<1>0. DeskSilent(w, w) /\ DeskSame(w, w)
  BY DEF DeskSilent, DeskSame
<1>1. CASE c.tool \in {"get_listing", "analytics"}
  <2>1. v = w \/ v = [w EXCEPT !.seen = @ \cup {c.product}] \/ v = [w EXCEPT !.queries = @ + 1]
    BY <1>1 DEF Desk!Tool, Desk!get_listing, Desk!analytics_query
  <2>2. DeskSilent(v, w) /\ DeskSame(v, w)
    BY <2>1 DEF DeskSilent, DeskSame, DeskPass
  <2> QED BY <2>2
<1>2. CASE c.tool = "stage"
  <2> DEFINE x == [user |-> Staff[s], target |-> c.product, old |-> w.price[c.product],
                   new |-> c.price, status |-> "pending"]
             all == Append(w.changes, x)
             u == [w EXCEPT !.changes = all, !.staged = @ \cup {Len(all)}]
  <2>1. v = w \/ v = u
    BY <1>2 DEF Desk!Tool, Desk!stage_price_change, Desk!Staged, Desk!NewId
  <2>2. x.user = Staff[s] /\ x.status = "pending"
    OBVIOUS
  <2> HIDE DEF x
  <2>3. Len(all) = Len(w.changes) + 1
    BY DEF DeskPass
  <2>4. /\ u.changes = all /\ u.applied = w.applied /\ u.staged = w.staged \cup {Len(all)}
        /\ u.stop = w.stop /\ u.resume = w.resume /\ u.asks = w.asks /\ u.answer = w.answer
    BY DEF DeskPass
  <2> HIDE DEF u
  <2>5. DeskSilent(u, w)
    BY <2>4 DEF DeskSilent
  <2>6. DeskStages(u, w, Staff[s])
    BY <2>2, <2>3, <2>4 DEF DeskStages
  <2> HIDE DEF v
  <2> QED BY <1>0, <2>1, <2>5, <2>6 DEF v
<1>3. CASE c.tool = "discard"
  <2> DEFINE x == [w.changes[n] EXCEPT !.status = "discarded"]
             u == [w EXCEPT !.changes[n].status = "discarded"]
             b == [w EXCEPT !.stop = [why |-> "fails", change |-> n]]
  <2>1. \/ v = w
        \/ v = b
        \/ v = u /\ n \in ses.staged /\ Desk!Pending(w.changes, Staff[s], n)
    BY <1>3 DEF Desk!Tool, Desk!discard_change, Desk!Stops
  <2>2. DeskSilent(b, w) /\ DeskSame(b, w)
    BY DEF DeskSilent, DeskSame, DeskPass
  <2>3. ASSUME n \in ses.staged, Desk!Pending(w.changes, Staff[s], n)
        PROVE  DeskSilent(u, w) /\ DeskDiscards(u, w, ses)
    <3>1. n \in DOMAIN w.changes /\ w.changes[n] \in Desk!Change
      BY <2>3 DEF Desk!Pending, DeskPass
    <3>2. x.status = "discarded"
      BY <3>1 DEF Desk!Change
    <3>3. /\ u.changes = [w.changes EXCEPT ![n] = x] /\ u.applied = w.applied /\ u.staged = w.staged
          /\ u.stop = w.stop /\ u.resume = w.resume /\ u.asks = w.asks /\ u.answer = w.answer
      <4> DEFINE d == [w.changes EXCEPT ![n].status = "discarded"]
      <4>1. u = [w EXCEPT !.changes = d]
        BY DEF DeskPass
      <4>2. d = [w.changes EXCEPT ![n] = x]
        OBVIOUS
      <4> HIDE DEF d, u, x
      <4>3. u.changes = d
        BY <4>1 DEF DeskPass
      <4>4. /\ u.applied = w.applied /\ u.staged = w.staged
            /\ u.stop = w.stop /\ u.resume = w.resume /\ u.asks = w.asks /\ u.answer = w.answer
        BY <4>1 DEF DeskPass
      <4> QED BY <4>2, <4>3, <4>4
    <3> HIDE DEF u, x
    <3>4. DeskDiscards(u, w, ses)
      BY <2>3, <3>1, <3>2, <3>3 DEF DeskDiscards
    <3> QED BY <3>3, <3>4 DEF DeskSilent
  <2> HIDE DEF u, v, b
  <2> QED BY <1>0, <2>1, <2>2, <2>3 DEF v
<1>4. CASE c.tool = "apply"
  <2> DEFINE ch == w.changes[n]
             m == [change |-> n, cap |-> ses.cap, alone |-> Desk!Alone(ses.calls)]
             u == [a.w EXCEPT !.price[ch.target] = ch.new,
                              !.changes[n] = Desk!AsApplied(ch),
                              !.applied = Append(@, m)]
             b == Desk!Stops(a.w, "asks", n)
             Applies == n \in ses.staged /\ Desk!Pending(w.changes, Staff[s], n)
  <2>1. /\ a.answer \in Replies \cup {"none"} /\ a.w \in DeskPass
        /\ a.w.changes = w.changes /\ a.w.applied = w.applied
        /\ a.w.staged = w.staged /\ a.w.stop = w.stop
        /\ a.answer = "none" => /\ a.w.resume = w.resume /\ a.w.asks >= Len(a.w.resume)
                                /\ a.w.answer = "none"
    BY DeskAsks
  <2>2. \/ v = w
        \/ v = b /\ Applies /\ a.answer = "none"
        \/ v = a.w /\ a.answer # "none"
        \/ v = u /\ Applies /\ a.answer = "yes"
    BY <1>4 DEF Desk!Tool, Desk!apply_change, Desk!Approves
  <2> HIDE DEF a
  <2>3. Applies => DeskPending(w, ses, n)
    BY DEF DeskPending, Desk!Pending
  <2>4. ASSUME Applies, a.answer = "none" PROVE DeskAsksFor(b, w, ses, n)
    <3>1. b = a.w \/ b = [a.w EXCEPT !.stop = [why |-> "asks", change |-> n]]
      BY DEF Desk!Stops
    <3>2. /\ b.changes = w.changes /\ b.applied = w.applied /\ b.staged = w.staged
          /\ b.resume = w.resume /\ b.asks >= Len(b.resume) /\ b.answer = "none"
          /\ b.stop = w.stop \/ b.stop = [why |-> "asks", change |-> n]
      <4>1. CASE b = a.w
        BY <2>1, <2>4, <4>1
      <4>2. CASE b = [a.w EXCEPT !.stop = [why |-> "asks", change |-> n]]
        BY <2>1, <2>4, <4>2 DEF DeskPass
      <4> QED BY <3>1, <4>1, <4>2
    <3> HIDE DEF b
    <3> QED BY <2>3, <2>4, <3>2 DEF DeskAsksFor, DeskSame, DeskDry
  <2>5. DeskSame(a.w, w) /\ a.w.stop = w.stop
    BY <2>1 DEF DeskSame
  <2>6. ASSUME Applies PROVE DeskSettles(u, w, ses, n)
    <3> DEFINE x == Desk!AsApplied(ch)
    <3>1. n \in DOMAIN w.changes /\ ch \in Desk!Change
      BY <2>3, <2>6 DEF DeskPending, DeskPass
    <3>2. x.status = "applied"
      BY <3>1 DEF Desk!Change, Desk!AsApplied
    <3>3. m \in Move /\ m.change = n /\ m.alone = Desk!Alone(ses.calls)
      BY DeskCall DEF Move, DeskSession, Desk!Alone
    <3> HIDE DEF m
    <3>4. /\ u.changes = [w.changes EXCEPT ![n] = x] /\ u.applied = Append(w.applied, m)
          /\ u.staged = w.staged /\ u.stop = w.stop
      BY <2>1 DEF DeskPass
    <3> HIDE DEF u, x
    <3> QED BY <2>3, <2>6, <3>2, <3>3, <3>4 DEF DeskSettles
  <2> HIDE DEF u, v, b, Applies
  <2> QED BY <1>0, <1>4, <2>2, <2>4, <2>5, <2>6 DEF v, a
<1> QED BY <1>1, <1>2, <1>3, <1>4, DeskCall

(* What a pass of the session s over its calls keeps to: it changes only what  *)
(* the session holds, it holds what it stages, it asks about a change that is  *)
(* not applied and that no answer is left for, and it says of what it applies  *)
(* whether it is the only apply call.                                          *)
DeskKept(s) ==
  {w \in DeskGood(session[s], Len(changes)) :
     /\ \A i \in DOMAIN changes : i \notin session[s].staged => w.changes[i] = changes[i]
     /\ session[s].staged \subseteq w.staged
     /\ \A i \in w.staged : i \in session[s].staged \/ i > Len(changes)
     /\ \A i \in DOMAIN w.changes : w.changes[i].status = "pending" =>
          \/ i \in DOMAIN changes /\ changes[i].status = "pending" /\ w.changes[i].user = changes[i].user
          \/ w.changes[i].user = Staff[s] /\ i \in w.staged
     /\ w.stop.why = "asks" => /\ w.stop.change \in session[s].staged /\ DeskDry(w)
                               /\ w.changes[w.stop.change].status # "applied"
     /\ \A i \in DOMAIN w.applied :
          \/ i \in DOMAIN applied /\ w.applied[i] = applied[i]
          \/ w.applied[i].alone = Desk!Alone(session[s].calls)}

LEMMA DeskKeeps ==
  ASSUME DeskDeployment, DeskInv, NEW s \in Sessions, NEW w \in DeskKept(s), NEW c \in Desk!Calls
  PROVE  Desk!Tool(s, session[s], w, c) \in DeskKept(s)
<1> DEFINE ses == session[s]
           v == Desk!Tool(s, ses, w, c)
           a == Desk!interrupt(w)
           k == Len(changes)
<1>1. /\ ses \in DeskSession /\ k \in Nat /\ DOMAIN changes = 1..k /\ ses.staged \subseteq 1..k
      /\ w \in DeskGood(ses, k)
  BY DEF DeskInv, DeskSound, DeskKept
<1>2. /\ w \in DeskPass /\ k <= Len(w.changes) /\ w.staged \subseteq DOMAIN w.changes
      /\ w.changes \in Seq(Desk!Change) /\ w.applied \in Seq(Move) /\ DOMAIN w.changes = 1..Len(w.changes)
      /\ Len(w.changes) \in Nat
  <2>1. w \in DeskPass /\ k <= Len(w.changes) /\ w.staged \subseteq DOMAIN w.changes
    BY <1>1 DEF DeskGood
  <2>2. w.changes \in Seq(Desk!Change) /\ w.applied \in Seq(Move)
    BY <2>1 DEF DeskPass
  <2> QED BY <2>1, <2>2
<1>3. v \in DeskGood(ses, k)
  BY <1>1, DeskTool
<1>4. \/ /\ DeskSilent(v, w)
         /\ DeskSame(v, w) \/ DeskStages(v, w, Staff[s]) \/ DeskDiscards(v, w, ses)
      \/ DeskAsksFor(v, w, ses, c.change)
      \/ a.answer # "none" /\ DeskSame(v, w) /\ v.stop = w.stop
      \/ a.answer = "yes" /\ DeskSettles(v, w, ses, c.change)
  BY <1>1, <1>2, DeskEffect
<1>5. w.stop.why = "asks" => a.answer = "none"
  <2>1. w.stop.why = "asks" => w.asks >= Len(w.resume) /\ w.answer = "none"
    BY DEF DeskKept, DeskDry
  <2> QED BY <1>2, <2>1, DeskAsks
<1> HIDE DEF v, a
<1>6. /\ \A i \in DOMAIN changes : i \notin ses.staged => w.changes[i] = changes[i]
      /\ ses.staged \subseteq w.staged
      /\ \A i \in w.staged : i \in ses.staged \/ i > k
      /\ \A i \in DOMAIN w.changes : w.changes[i].status = "pending" =>
           \/ i \in DOMAIN changes /\ changes[i].status = "pending" /\ w.changes[i].user = changes[i].user
           \/ w.changes[i].user = Staff[s] /\ i \in w.staged
      /\ w.stop.why = "asks" => /\ w.stop.change \in ses.staged /\ DeskDry(w)
                                /\ w.changes[w.stop.change].status # "applied"
      /\ \A i \in DOMAIN w.applied :
           \/ i \in DOMAIN applied /\ w.applied[i] = applied[i]
           \/ w.applied[i].alone = Desk!Alone(ses.calls)
  BY DEF DeskKept
<1> DEFINE Own == /\ \A i \in DOMAIN changes : i \notin ses.staged => v.changes[i] = changes[i]
                  /\ ses.staged \subseteq v.staged
                  /\ \A i \in v.staged : i \in ses.staged \/ i > k
                  /\ \A i \in DOMAIN v.changes : v.changes[i].status = "pending" =>
                       \/ /\ i \in DOMAIN changes /\ changes[i].status = "pending"
                          /\ v.changes[i].user = changes[i].user
                       \/ v.changes[i].user = Staff[s] /\ i \in v.staged
           Asks == v.stop.why = "asks" => /\ v.stop.change \in ses.staged /\ DeskDry(v)
                                          /\ v.changes[v.stop.change].status # "applied"
           Says == \A i \in DOMAIN v.applied :
                     \/ i \in DOMAIN applied /\ v.applied[i] = applied[i]
                     \/ v.applied[i].alone = Desk!Alone(ses.calls)
<1>15. ASSUME Own, Asks, Says PROVE v \in DeskKept(s)
  BY <1>3, <1>15, ZenonT(60) DEF DeskKept
<1>7. ASSUME DeskSame(v, w) PROVE Own /\ Says
  BY <1>6, <1>7 DEF DeskSame
<1>8. \A i \in DOMAIN changes : i \in DOMAIN w.changes /\ i # Len(w.changes) + 1
  BY <1>1, <1>2
<1>9. CASE DeskSilent(v, w) /\ DeskSame(v, w)
  <2>1. Asks
    BY <1>6, <1>9 DEF DeskSilent, DeskSame, DeskDry
  <2> HIDE DEF Own, Asks, Says
  <2> QED BY <1>7, <1>9, <2>1, <1>15 DEF v
<1>10. CASE DeskSilent(v, w) /\ DeskStages(v, w, Staff[s])
  <2> DEFINE l == Len(w.changes) + 1
  <2>1. PICK x : x.user = Staff[s] /\ x.status = "pending" /\ v.changes = Append(w.changes, x)
    BY <1>10 DEF DeskStages
  <2>2. /\ DOMAIN v.changes = 1..l /\ (\A i \in DOMAIN w.changes : v.changes[i] = w.changes[i])
        /\ v.changes[l] = x
    <3>1. w.changes \in Seq(Desk!Change \cup {x})
      BY <1>2
    <3> QED BY <2>1, <3>1
  <2>3. l > k /\ \A i \in DOMAIN v.changes : i \in DOMAIN w.changes \/ i = l
    BY <1>1, <1>2, <2>2
  <2>4. v.staged = w.staged \cup {l} /\ v.applied = w.applied
    BY <1>10 DEF DeskStages
  <2> HIDE DEF l
  <2>5. Own
    <3>1. \A i \in DOMAIN changes : i \notin ses.staged => v.changes[i] = changes[i]
      BY <1>6, <1>8, <2>2
    <3>2. ses.staged \subseteq v.staged /\ \A i \in v.staged : i \in ses.staged \/ i > k
      BY <1>6, <2>3, <2>4
    <3>3. \A i \in DOMAIN v.changes : v.changes[i].status = "pending" =>
            \/ i \in DOMAIN changes /\ changes[i].status = "pending" /\ v.changes[i].user = changes[i].user
            \/ v.changes[i].user = Staff[s] /\ i \in v.staged
      BY <1>6, <2>1, <2>2, <2>3, <2>4
    <3> QED BY <3>1, <3>2, <3>3
  <2>6. Asks
    <3>1. \A i \in ses.staged : i \in DOMAIN w.changes
      BY <1>1, <1>8
    <3> QED BY <1>6, <1>10, <2>2, <3>1 DEF DeskSilent, DeskDry
  <2>7. Says
    BY <1>6, <2>4
  <2> HIDE DEF Own, Asks, Says
  <2> QED BY <2>5, <2>6, <2>7, <1>15 DEF v
<1>11. CASE DeskSilent(v, w) /\ DeskDiscards(v, w, ses)
  <2>0. PICK n \in ses.staged : n \in DOMAIN w.changes /\
          \E x : x.status = "discarded" /\ v.changes = [w.changes EXCEPT ![n] = x]
    BY <1>11 DEF DeskDiscards
  <2>1. PICK x : x.status = "discarded" /\ v.changes = [w.changes EXCEPT ![n] = x]
    BY <2>0
  <2>2. /\ DOMAIN v.changes = DOMAIN w.changes
        /\ \A i \in DOMAIN w.changes : v.changes[i] = IF i = n THEN x ELSE w.changes[i]
    BY <1>2, <2>0, <2>1
  <2>3. v.staged = w.staged /\ v.applied = w.applied
    BY <1>11 DEF DeskDiscards
  <2>4. Own
    <3>1. \A i \in DOMAIN changes : i \notin ses.staged => v.changes[i] = changes[i]
      BY <1>6, <1>8, <2>0, <2>2
    <3>2. ses.staged \subseteq v.staged /\ \A i \in v.staged : i \in ses.staged \/ i > k
      BY <1>6, <2>3
    <3>3. \A i \in DOMAIN v.changes : v.changes[i].status = "pending" =>
            \/ i \in DOMAIN changes /\ changes[i].status = "pending" /\ v.changes[i].user = changes[i].user
            \/ v.changes[i].user = Staff[s] /\ i \in v.staged
      BY <1>6, <2>1, <2>2, <2>3
    <3> QED BY <3>1, <3>2, <3>3
  <2>5. Asks
    <3>1. \A i \in ses.staged : i \in DOMAIN w.changes
      BY <1>1, <1>8
    <3> QED BY <1>6, <1>11, <2>1, <2>2, <3>1 DEF DeskSilent, DeskDry
  <2>6. Says
    BY <1>6, <2>3
  <2> HIDE DEF Own, Asks, Says
  <2> QED BY <2>4, <2>5, <2>6, <1>15 DEF v
<1>12. CASE DeskAsksFor(v, w, ses, c.change)
  <2>1. /\ DeskSame(v, w) /\ DeskDry(v) /\ DeskPending(w, ses, c.change)
        /\ v.stop = w.stop \/ v.stop = [why |-> "asks", change |-> c.change]
    BY <1>12 DEF DeskAsksFor
  <2>2. Asks
    BY <1>6, <2>1 DEF DeskSame, DeskPending
  <2> HIDE DEF Own, Asks, Says
  <2> QED BY <1>7, <2>1, <2>2, <1>15 DEF v
<1>13. CASE a.answer # "none" /\ DeskSame(v, w) /\ v.stop = w.stop
  <2>1. Asks
    BY <1>5, <1>13
  <2> HIDE DEF Own, Asks, Says
  <2> QED BY <1>7, <1>13, <2>1, <1>15 DEF v
<1>14. CASE a.answer = "yes" /\ DeskSettles(v, w, ses, c.change)
  <2> DEFINE n == c.change
  <2>1. PICK x : x.status = "applied" /\ v.changes = [w.changes EXCEPT ![n] = x]
    BY <1>14 DEF DeskSettles
  <2>2. PICK m \in Move : m.alone = Desk!Alone(ses.calls) /\ v.applied = Append(w.applied, m)
    BY <1>14 DEF DeskSettles
  <2>3. n \in ses.staged /\ n \in DOMAIN w.changes /\ v.staged = w.staged /\ v.stop = w.stop
    BY <1>14 DEF DeskSettles, DeskPending
  <2>4. /\ DOMAIN v.changes = DOMAIN w.changes
        /\ \A i \in DOMAIN w.changes : v.changes[i] = IF i = n THEN x ELSE w.changes[i]
    BY <1>2, <2>1, <2>3
  <2> HIDE DEF n
  <2>5. Own
    <3>1. \A i \in DOMAIN changes : i \notin ses.staged => v.changes[i] = changes[i]
      BY <1>6, <1>8, <2>3, <2>4
    <3>2. ses.staged \subseteq v.staged /\ \A i \in v.staged : i \in ses.staged \/ i > k
      BY <1>6, <2>3
    <3>3. \A i \in DOMAIN v.changes : v.changes[i].status = "pending" =>
            \/ i \in DOMAIN changes /\ changes[i].status = "pending" /\ v.changes[i].user = changes[i].user
            \/ v.changes[i].user = Staff[s] /\ i \in v.staged
      BY <1>6, <2>1, <2>3, <2>4
    <3> QED BY <3>1, <3>2, <3>3
  <2>6. Asks
    BY <1>5, <1>14, <2>3
  <2>7. Says
    <3>1. /\ DOMAIN w.applied = 1..Len(w.applied) /\ Len(w.applied) \in Nat
          /\ DOMAIN v.applied = 1..(Len(w.applied) + 1)
          /\ (\A i \in DOMAIN w.applied : v.applied[i] = w.applied[i])
          /\ v.applied[Len(w.applied) + 1] = m
      BY <1>2, <2>2
    <3>2. \A i \in DOMAIN v.applied : i \in DOMAIN w.applied \/ i = Len(w.applied) + 1
      BY <3>1
    <3> QED BY <1>6, <2>2, <3>1, <3>2
  <2> HIDE DEF Own, Asks, Says
  <2> QED BY <2>5, <2>6, <2>7, <1>15 DEF v
<1> QED BY <1>4, <1>9, <1>10, <1>11, <1>12, <1>13, <1>14 DEF v

LEMMA DeskNodeKept ==
  ASSUME DeskDeployment, DeskInv, NEW s \in Sessions
  PROVE  Desk!ToolNode(s) \in DeskKept(s)
<1> DEFINE calls == session[s].calls
           W == DeskKept(s)
<1>1. session[s] \in DeskSession /\ DeskStart(s) \in DeskGood(session[s], Len(changes)) /\ Len(changes) \in Nat
  BY DeskBegins DEF DeskInv
<1>2. PICK f : /\ f[0] = DeskStart(s)
               /\ \A i \in 1..Len(calls) : f[i] = Desk!Tool(s, session[s], f[i - 1], calls[i])
               /\ Desk!ToolNode(s) = f[Len(calls)]
  BY <1>1, DeskNode
<1>3. calls \in Seq(Desk!Calls)
  BY <1>1 DEF DeskSession
<1>4. Len(calls) \in Nat /\ \A i \in 1..Len(calls) : calls[i] \in Desk!Calls
  BY <1>3
<1> HIDE DEF calls
<1>5. \A i \in 1..Len(calls) : f[i - 1] \in W => f[i] \in W
  BY <1>2, <1>4, DeskKeeps
<1>6. f[0] \in W
  <2> DEFINE v == DeskStart(s)
  <2>1. /\ v.changes = changes /\ v.applied = applied /\ v.staged = session[s].staged
        /\ v.stop.why = "none"
    BY DEF DeskStart, Desk!Proceed
  <2> HIDE DEF v
  <2>2. v \in W
    BY <1>1, <2>1 DEF DeskKept, v
  <2> QED BY <1>2, <2>2 DEF v
<1> HIDE DEF W
<1>7. f[Len(calls)] \in W
  BY <1>4, <1>5, <1>6, PassKeeps
<1> QED BY <1>2, <1>7 DEF W

(* A pass that has reached no apply call, and one that has reached the only    *)
(* one of its message, for the change n.                                       *)
DeskUntouched(w, ses) ==
  w.applied = applied /\ w.resume = <<>> /\ w.asks = 0 /\ w.answer = ses.answer /\ w.stop.why # "asks"
DeskSettled(w, ses, n) ==
  /\ \/ w.applied = applied
     \/ ses.answer = "yes" /\ \E m \in Move : m.change = n /\ w.applied = Append(applied, m)
  /\ w.stop.why = "asks" => w.stop.change = n /\ w.resume = <<>>

LEMMA DeskSole ==
  ASSUME DeskDeployment, DeskInv, NEW s \in Sessions, Desk!Alone(session[s].calls),
         session[s].resume = <<>>
  PROVE  LET w == Desk!ToolNode(s)
             ses == session[s]
         IN /\ (\A j \in DOMAIN ses.calls : ses.calls[j].tool # "apply") => DeskUntouched(w, ses)
            /\ \A j \in DOMAIN ses.calls :
                 ses.calls[j].tool = "apply" => DeskSettled(w, ses, ses.calls[j].change)
<1> DEFINE ses == session[s]
           calls == ses.calls
           n == Len(calls)
<1>1. ses \in DeskSession /\ DeskStart(s) \in DeskGood(ses, Len(changes)) /\ Len(changes) \in Nat
  BY DeskBegins DEF DeskInv
<1>2. PICK f : /\ f[0] = DeskStart(s)
               /\ \A i \in 1..n : f[i] = Desk!Tool(s, ses, f[i - 1], calls[i])
               /\ Desk!ToolNode(s) = f[n]
  BY <1>1, DeskNode
<1>3. n \in Nat /\ DOMAIN calls = 1..n /\ \A i \in 1..n : calls[i] \in Desk!Calls
  <2>1. calls \in Seq(Desk!Calls)
    BY <1>1 DEF DeskSession
  <2> QED BY <2>1
<1>4. \A i, j \in 1..n : calls[i].tool = "apply" /\ calls[j].tool = "apply" => i = j
  BY <1>3 DEF Desk!Alone
<1> DEFINE W == DeskGood(ses, Len(changes))
           P(m) == /\ f[m] \in W
                   /\ (\A j \in 1..m : calls[j].tool # "apply") => DeskUntouched(f[m], ses)
                   /\ \A j \in 1..m : calls[j].tool = "apply" => DeskSettled(f[m], ses, calls[j].change)
           T == {m \in Nat : m <= n => P(m)}
<1> HIDE DEF n, calls
<1>5. 0 \in T
  <2> DEFINE v == DeskStart(s)
  <2>1. /\ v.applied = applied /\ v.resume = <<>> /\ v.asks = 0 /\ v.answer = ses.answer
        /\ v.stop.why = "none"
    BY DEF DeskStart, Desk!Proceed
  <2> HIDE DEF v
  <2>2. f[0] \in W /\ DeskUntouched(f[0], ses)
    BY <1>1, <1>2, <2>1 DEF DeskUntouched, v
  <2>3. \A j \in 1..0 : FALSE
    OBVIOUS
  <2>4. P(0)
    BY <2>2, <2>3
  <2> HIDE DEF P
  <2> QED BY <2>4
<1>6. ASSUME NEW m \in Nat, m \in T PROVE m + 1 \in T
  <2> SUFFICES ASSUME m + 1 <= n PROVE P(m + 1)
    <3> HIDE DEF P
    <3> QED OBVIOUS
  <2> DEFINE k == m + 1
             w == f[m]
             v == f[k]
             c == calls[k]
  <2>1. k \in 1..n /\ k - 1 = m /\ m <= n /\ (\A j \in 1..m : j \in 1..n /\ j # k)
        /\ (\A j \in 1..k : j \in 1..m \/ j = k) /\ (\A j \in 1..m : j \in 1..k) /\ k \in 1..k
    BY <1>3
  <2>2. P(m)
    <3> HIDE DEF P
    <3> QED BY <1>6, <2>1
  <2>3. v = Desk!Tool(s, ses, w, c) /\ c \in Desk!Calls /\ w \in W /\ w \in DeskPass
    BY <1>2, <1>3, <2>1, <2>2 DEF DeskGood
  <2>4. v \in W
    BY <1>1, <2>3, DeskTool
  <2> DEFINE a == Desk!interrupt(w)
  <2>5. \/ /\ DeskSilent(v, w)
           /\ DeskSame(v, w) \/ DeskStages(v, w, Staff[s]) \/ DeskDiscards(v, w, ses)
        \/ /\ c.tool = "apply"
           /\ \/ DeskAsksFor(v, w, ses, c.change)
              \/ a.answer # "none" /\ DeskSame(v, w) /\ v.stop = w.stop
              \/ a.answer = "yes" /\ DeskSettles(v, w, ses, c.change)
    BY <1>1, <2>3, DeskEffect
  <2>6. DeskUntouched(w, ses) => a.answer = ses.answer
    BY <2>3, DeskAsks DEF DeskUntouched
  <2> HIDE DEF a, v, w, W
  <2>7. CASE DeskSilent(v, w) /\ (DeskSame(v, w) \/ DeskStages(v, w, Staff[s]) \/ DeskDiscards(v, w, ses))
    <3>1. v.applied = w.applied
      BY <2>7 DEF DeskSame, DeskStages, DeskDiscards
    <3>2. DeskUntouched(w, ses) => DeskUntouched(v, ses)
      BY <2>7, <3>1 DEF DeskUntouched, DeskSilent
    <3>3. \A j : DeskSettled(w, ses, j) => DeskSettled(v, ses, j)
      BY <2>7, <3>1 DEF DeskSettled, DeskSilent
    <3>4. DeskUntouched(v, ses) => \A j : DeskSettled(v, ses, j)
      BY DEF DeskUntouched, DeskSettled
    <3>5. c.tool = "apply" => \A j \in 1..m : calls[j].tool # "apply"
      BY <1>4, <2>1
    <3> QED BY <2>1, <2>2, <2>4, <3>2, <3>3, <3>4, <3>5 DEF v, w
  <2>8. CASE /\ c.tool = "apply"
             /\ \/ DeskAsksFor(v, w, ses, c.change)
                \/ a.answer # "none" /\ DeskSame(v, w) /\ v.stop = w.stop
                \/ a.answer = "yes" /\ DeskSettles(v, w, ses, c.change)
    <3>1. \A j \in 1..m : calls[j].tool # "apply"
      BY <1>4, <2>1, <2>8
    <3>2. DeskUntouched(w, ses) /\ a.answer = ses.answer
      BY <2>2, <2>6, <3>1 DEF w
    <3>3. ASSUME DeskAsksFor(v, w, ses, c.change) PROVE DeskSettled(v, ses, c.change)
      <4>1. v.applied = applied /\ v.resume = <<>>
            /\ (v.stop = w.stop \/ v.stop = [why |-> "asks", change |-> c.change])
        BY <3>2, <3>3 DEF DeskAsksFor, DeskSame, DeskUntouched
      <4> QED BY <3>2, <4>1 DEF DeskSettled, DeskUntouched
    <3>4. ASSUME DeskSame(v, w) /\ v.stop = w.stop PROVE DeskSettled(v, ses, c.change)
      BY <3>2, <3>4 DEF DeskSettled, DeskUntouched, DeskSame
    <3>5. ASSUME a.answer = "yes" /\ DeskSettles(v, w, ses, c.change) PROVE DeskSettled(v, ses, c.change)
      <4>1. v.stop = w.stop /\ \E x \in Move : x.change = c.change /\ v.applied = Append(w.applied, x)
        BY <3>5 DEF DeskSettles
      <4> QED BY <3>2, <3>5, <4>1 DEF DeskSettled, DeskUntouched
    <3>6. DeskSettled(v, ses, c.change)
      BY <2>8, <3>3, <3>4, <3>5
    <3> QED BY <2>1, <2>4, <2>8, <3>1, <3>6 DEF v
  <2> QED BY <2>5, <2>7, <2>8
<1>7. Nat \subseteq T
  <2> HIDE DEF T
  <2> QED BY <1>5, <1>6, EveryNumber
<1>8. P(n)
  <2> HIDE DEF P
  <2>1. n <= n /\ n \in Nat
    BY <1>3
  <2> QED BY <1>7, <2>1
<1> QED BY <1>2, <1>3, <1>8 DEF n, calls

(* What a session knows of its answers: it is paused over a change of its own  *)
(* that is not applied; and when its message has one apply call, that is what  *)
(* it shows, no answer of the node came before, and a yes that it carries to   *)
(* the tools is the last answer about that change.                             *)
DeskTold(ses, ch, ok) ==
  /\ ses.at = "paused" => ses.asked \in ses.staged /\ ch[ses.asked].status # "applied"
  /\ ses.at # "tools" => ses.answer = "none"
  /\ ses.at = "merchant" => ses.resume = <<>>
  /\ Desk!Alone(ses.calls) =>
       /\ ses.resume = <<>>
       /\ \A j \in DOMAIN ses.calls : ses.calls[j].tool = "apply" =>
            /\ ses.at = "paused" => ses.calls[j].change = ses.asked
            /\ ses.answer = "yes" => ses.calls[j].change \in ses.staged /\ ses.calls[j].change \in ok

DeskOwn ==
  /\ Desk!EveryApplyApproved /\ Desk!PendingReachable
  /\ \A s, t \in Sessions : s # t => session[s].staged \cap session[t].staged = {}
  /\ \A s \in Sessions : DeskTold(session[s], changes, approved)

(* A step of one session, by what it does to the others and to the changes. *)
LEMMA DeskTurns ==
  ASSUME DeskInv, DeskOwn, NEW s \in Sessions, NEW new, session' = [session EXCEPT ![s] = new],
         DeskTold(new, changes', approved'),
         \A t \in Sessions : t # s => DeskTold(session[t], changes', approved'),
         session[s].staged \subseteq new.staged,
         \A t \in Sessions : t # s => new.staged \cap session[t].staged = {},
         Desk!EveryApplyApproved',
         \A i \in DOMAIN changes' \ lost' : changes'[i].status = "pending" =>
           \/ /\ i \in DOMAIN changes \ lost /\ changes[i].status = "pending"
              /\ changes'[i].user = changes[i].user
           \/ changes'[i].user = Staff[s] /\ i \in new.staged
  PROVE  DeskOwn'
<1>1. \A t \in Sessions : session'[t] = IF t = s THEN new ELSE session[t]
  BY DEF DeskInv
<1>2. \A t \in Sessions : DeskTold(session'[t], changes', approved')
  BY <1>1
<1>3. \A t, u \in Sessions : t # u => session'[t].staged \cap session'[u].staged = {}
  <2> SUFFICES ASSUME NEW t \in Sessions, NEW u \in Sessions, t # u
               PROVE  session'[t].staged \cap session'[u].staged = {}
    OBVIOUS
  <2>1. CASE t = s
    BY <1>1, <2>1
  <2>2. CASE u = s
    BY <1>1, <2>2
  <2>3. CASE t # s /\ u # s
    BY <1>1, <2>3 DEF DeskOwn
  <2> QED BY <2>1, <2>2, <2>3
<1>4. \A t \in Sessions : session[t].staged \subseteq session'[t].staged
  BY <1>1
<1>5. Desk!PendingReachable'
  <2> SUFFICES ASSUME NEW i \in DOMAIN changes' \ lost', changes'[i].status = "pending"
               PROVE  \E t \in Sessions : Staff[t] = changes'[i].user /\ i \in session'[t].staged
    BY DEF Desk!PendingReachable
  <2>1. CASE /\ i \in DOMAIN changes \ lost /\ changes[i].status = "pending"
             /\ changes'[i].user = changes[i].user
    <3>1. PICK t \in Sessions : Staff[t] = changes[i].user /\ i \in session[t].staged
      BY <2>1 DEF DeskOwn, Desk!PendingReachable
    <3> QED BY <1>4, <2>1, <3>1
  <2>2. CASE changes'[i].user = Staff[s] /\ i \in new.staged
    BY <1>1, <2>2
  <2> QED BY <2>1, <2>2
<1> QED BY <1>2, <1>3, <1>5 DEF DeskOwn

(* What a session knows after changes that are not its own. *)
LEMMA DeskOthers ==
  ASSUME DeskOwn, NEW s \in Sessions, NEW ch, NEW ok,
         \A n \in session[s].staged : ch[n] = changes[n] /\ (n \in approved => n \in ok)
  PROVE  DeskTold(session[s], ch, ok)
<1>1. DeskTold(session[s], changes, approved)
  BY DEF DeskOwn
<1> QED BY <1>1 DEF DeskTold

(* A session without calls and answers knows nothing. *)
LEMMA DeskBlank ==
  ASSUME NEW ses, NEW ch, NEW ok, ses.at # "paused", ses.calls = <<>>, ses.resume = <<>>,
         ses.answer = "none"
  PROVE  DeskTold(ses, ch, ok)
<1>1. \A j \in DOMAIN ses.calls : FALSE
  OBVIOUS
<1> QED BY <1>1 DEF DeskTold

LEMMA DeskOwnTools ==
  ASSUME DeskDeployment, DeskInv, DeskOwn, NEW s \in Sessions, Desk!Tools(s)
  PROVE  DeskOwn'
<1> DEFINE ses == session[s]
           w == Desk!ToolNode(s)
           e == Desk!Ended(ses)
           g == DeskGoesOn(ses, w)
           k == DeskAsking(ses, w)
           One == Desk!Alone(ses.calls)
<1>1. /\ ses \in DeskSession /\ DeskTold(ses, changes, approved)
      /\ changes \in Seq(Desk!Change) /\ applied \in Seq(Move)
  BY DEF DeskInv, DeskOwn
<1>2. /\ changes' = w.changes /\ applied' = w.applied /\ approved' = approved
      /\ \/ /\ w.stop.why = "asks" /\ session' = [session EXCEPT ![s] = k]
            /\ lost' = lost \cup (w.staged \ ses.staged)
         \/ /\ session' = [session EXCEPT ![s] = e] /\ lost' = lost \cup (w.staged \ ses.staged)
         \/ session' = [session EXCEPT ![s] = g] /\ lost' = lost
  BY DeskAfter DEF DeskInv
<1>3. w \in DeskKept(s)
  BY DeskNodeKept
<1>4. /\ \A i \in DOMAIN changes : i \notin ses.staged => w.changes[i] = changes[i]
      /\ ses.staged \subseteq w.staged
      /\ \A i \in w.staged : i \in ses.staged \/ i > Len(changes)
      /\ \A i \in DOMAIN w.changes : w.changes[i].status = "pending" =>
           \/ i \in DOMAIN changes /\ changes[i].status = "pending" /\ w.changes[i].user = changes[i].user
           \/ w.changes[i].user = Staff[s] /\ i \in w.staged
      /\ w.stop.why = "asks" => /\ w.stop.change \in ses.staged
                                /\ w.changes[w.stop.change].status # "applied"
      /\ \A i \in DOMAIN w.applied :
           \/ i \in DOMAIN applied /\ w.applied[i] = applied[i]
           \/ w.applied[i].alone = One
  BY <1>3 DEF DeskKept
<1>5. One => /\ (\A j \in DOMAIN ses.calls : ses.calls[j].tool # "apply") => DeskUntouched(w, ses)
             /\ \A j \in DOMAIN ses.calls :
                  ses.calls[j].tool = "apply" => DeskSettled(w, ses, ses.calls[j].change)
  BY <1>1, DeskSole DEF DeskTold
<1>6. \A t \in Sessions : /\ session[t].staged \subseteq 1..Len(changes)
                          /\ t # s => ses.staged \cap session[t].staged = {}
  BY DEF DeskInv, DeskSound, DeskOwn
<1>7. \A i \in DOMAIN applied : applied[i].alone => applied[i].change \in approved
  BY DEF DeskOwn, Desk!EveryApplyApproved
<1> HIDE DEF w, ses, One
<1>8. /\ e.staged = ses.staged /\ e.calls = <<>> /\ e.resume = <<>> /\ e.answer = "none" /\ e.at = "idle"
      /\ g.staged = w.staged /\ g.calls = <<>> /\ g.resume = <<>> /\ g.answer = "none" /\ g.at = "merchant"
      /\ k.staged = ses.staged /\ k.calls = ses.calls /\ k.resume = w.resume /\ k.answer = "none"
      /\ k.at = "paused" /\ k.asked = w.stop.change
  BY <1>1, DeskEnded DEF DeskGoesOn, DeskAsking, DeskSession
<1> HIDE DEF e, g, k
<1>9. Desk!EveryApplyApproved'
  <2> SUFFICES ASSUME NEW i \in DOMAIN w.applied, w.applied[i].alone
               PROVE  w.applied[i].change \in approved
    BY <1>2 DEF Desk!EveryApplyApproved
  <2>1. CASE i \in DOMAIN applied /\ w.applied[i] = applied[i]
    BY <1>7, <2>1
  <2>2. CASE One /\ ~(i \in DOMAIN applied /\ w.applied[i] = applied[i])
    <3>1. w.applied # applied
      BY <2>2
    <3>2. PICK j \in DOMAIN ses.calls : ses.calls[j].tool = "apply"
      BY <1>5, <2>2, <3>1 DEF DeskUntouched
    <3>3. PICK m \in Move : /\ m.change = ses.calls[j].change /\ w.applied = Append(applied, m)
                            /\ ses.answer = "yes"
      BY <1>5, <2>2, <3>1, <3>2 DEF DeskSettled
    <3>4. m.change \in approved
      BY <1>1, <2>2, <3>2, <3>3 DEF DeskTold, One
    <3>5. /\ DOMAIN applied = 1..Len(applied) /\ Len(applied) \in Nat
          /\ DOMAIN w.applied = 1..(Len(applied) + 1)
          /\ (\A x \in DOMAIN applied : w.applied[x] = applied[x])
          /\ w.applied[Len(applied) + 1] = m
      BY <1>1, <3>3
    <3>6. i = Len(applied) + 1
      BY <2>2, <3>5
    <3> QED BY <3>4, <3>5, <3>6
  <2> QED BY <1>4, <2>1, <2>2
<1>10. \A t \in Sessions : t # s => DeskTold(session[t], changes', approved')
  <2> SUFFICES ASSUME NEW t \in Sessions, t # s PROVE DeskTold(session[t], changes', approved')
    OBVIOUS
  <2>1. DOMAIN changes = 1..Len(changes)
    BY <1>1
  <2>2. \A n \in session[t].staged : changes'[n] = changes[n] /\ (n \in approved => n \in approved')
    BY <1>2, <1>4, <1>6, <2>1
  <2> QED BY <2>2, DeskOthers
<1>11. DeskTold(e, changes', approved') /\ DeskTold(g, changes', approved')
  BY <1>8, DeskBlank
<1>12. ASSUME w.stop.why = "asks" PROVE DeskTold(k, changes', approved')
  <2>1. One => w.resume = <<>> /\ \A j \in DOMAIN ses.calls :
                                    ses.calls[j].tool = "apply" => ses.calls[j].change = w.stop.change
    BY <1>5, <1>12 DEF DeskUntouched, DeskSettled
  <2> QED BY <1>2, <1>4, <1>8, <1>12, <2>1 DEF DeskTold, One
<1>13. \A t \in Sessions : t # s => /\ ses.staged \cap session[t].staged = {}
                                    /\ w.staged \cap session[t].staged = {}
  <2> SUFFICES ASSUME NEW t \in Sessions, t # s, NEW i \in w.staged, i \in session[t].staged PROVE FALSE
    BY <1>6
  <2>1. i \in 1..Len(changes) /\ i \notin ses.staged
    BY <1>6
  <2>2. ~(i > Len(changes))
    BY <1>1, <2>1
  <2> QED BY <1>4, <2>1, <2>2
<1>14. \A i \in DOMAIN changes' : changes'[i].status = "pending" =>
         \/ i \in DOMAIN changes /\ changes[i].status = "pending" /\ changes'[i].user = changes[i].user
         \/ changes'[i].user = Staff[s] /\ i \in w.staged
  BY <1>2, <1>4
<1>15. PICK new : /\ session' = [session EXCEPT ![s] = new] /\ DeskTold(new, changes', approved')
                  /\ \/ new.staged = w.staged /\ lost' = lost
                     \/ new.staged = ses.staged /\ lost' = lost \cup (w.staged \ ses.staged)
  BY <1>2, <1>8, <1>11, <1>12
<1>16. /\ session[s].staged \subseteq new.staged
       /\ \A t \in Sessions : t # s => new.staged \cap session[t].staged = {}
  BY <1>4, <1>13, <1>15 DEF ses
<1>17. \A i \in DOMAIN changes' \ lost' : changes'[i].status = "pending" =>
         \/ /\ i \in DOMAIN changes \ lost /\ changes[i].status = "pending"
            /\ changes'[i].user = changes[i].user
         \/ changes'[i].user = Staff[s] /\ i \in new.staged
  BY <1>14, <1>15
<1> QED BY <1>9, <1>10, <1>15, <1>16, <1>17, DeskTurns

(* MerchantAgent, for any sessions, users, products, caps, limits and number   *)
(* of calls in a message: a change that the only apply call of its message     *)
(* applied had been shown to a staff user whose last answer about it was yes,  *)
(* however often the other calls of the message were executed again; and a     *)
(* session of its user still holds the id of every pending change that was     *)
(* not staged by a pass which stopped.                                         *)
THEOREM AppliesApproved ==
  ASSUME DeskDeployment
  PROVE  Desk!Spec => [](Desk!EveryApplyApproved /\ Desk!PendingReachable)
<1>1. Desk!Init => DeskInv /\ DeskOwn
  <2> SUFFICES ASSUME Desk!Init PROVE DeskOwn
    BY DeskFirst
  <2>1. \A s \in Sessions : session[s] = Desk!Fresh
    BY DEF Desk!Init
  <2>2. DOMAIN changes = {} /\ DOMAIN applied = {}
    BY DEF Desk!Init
  <2>3. /\ Desk!Fresh.staged = {} /\ Desk!Fresh.calls = <<>> /\ Desk!Fresh.resume = <<>>
        /\ Desk!Fresh.answer = "none" /\ Desk!Fresh.at = "idle"
    BY DEF Desk!Fresh
  <2>4. \A s \in Sessions : DeskTold(session[s], changes, approved)
    BY <2>1, <2>3, DeskBlank
  <2>5. \A s, t \in Sessions : s # t => session[s].staged \cap session[t].staged = {}
    BY <2>1, <2>3
  <2> QED BY <2>2, <2>4, <2>5 DEF DeskOwn, Desk!EveryApplyApproved, Desk!PendingReachable
<1>2. DeskInv /\ [Desk!Next]_(Desk!vars) => DeskInv'
  BY DeskStep
<1>3. DeskInv /\ DeskOwn /\ [Desk!Next]_(Desk!vars) => DeskOwn'
  <2> SUFFICES ASSUME DeskInv, DeskOwn, [Desk!Next]_(Desk!vars) PROVE DeskOwn'
    OBVIOUS
  <2>0. \A s \in Sessions : session[s] \in DeskSession /\ DeskTold(session[s], changes, approved)
    BY DEF DeskInv, DeskOwn
  <2>1. ASSUME NEW s \in Sessions, NEW new, session' = [session EXCEPT ![s] = new],
               UNCHANGED <<changes, applied, approved, lost>>, new.staged = session[s].staged,
               DeskTold(new, changes, approved)
        PROVE  DeskOwn'
    <3>1. \A t \in Sessions : t # s => DeskTold(session[t], changes', approved')
      BY <2>0, <2>1
    <3>2. /\ session[s].staged \subseteq new.staged
          /\ \A t \in Sessions : t # s => new.staged \cap session[t].staged = {}
      BY <2>1 DEF DeskOwn
    <3>3. Desk!EveryApplyApproved' /\ DeskTold(new, changes', approved')
      BY <2>1 DEF DeskOwn, Desk!EveryApplyApproved
    <3>4. \A i \in DOMAIN changes' \ lost' : changes'[i].status = "pending" =>
            \/ /\ i \in DOMAIN changes \ lost /\ changes[i].status = "pending"
               /\ changes'[i].user = changes[i].user
            \/ changes'[i].user = Staff[s] /\ i \in new.staged
      BY <2>1
    <3> QED BY <2>1, <3>1, <3>2, <3>3, <3>4, DeskTurns
  <2>2. ASSUME NEW s \in Sessions, NEW cap, NEW limit, Desk!Start(s, cap, limit) PROVE DeskOwn'
    <3> DEFINE x == [session[s] EXCEPT !.at = "merchant", !.cap = cap, !.left = limit - 1,
                                       !.calls = <<>>, !.resume = <<>>, !.answer = "none", !.asked = 0]
    <3>1. session' = [session EXCEPT ![s] = x] /\ UNCHANGED <<changes, applied, approved, lost>>
      BY <2>2 DEF Desk!Start, DeskInv
    <3>2. /\ x.staged = session[s].staged /\ x.calls = <<>> /\ x.resume = <<>> /\ x.answer = "none"
          /\ x.at = "merchant"
      BY <2>0 DEF DeskSession
    <3> HIDE DEF x
    <3>3. DeskTold(x, changes, approved)
      BY <3>2, DeskBlank
    <3> QED BY <2>1, <3>1, <3>2, <3>3
  <2>3. ASSUME NEW s \in Sessions, NEW cap, NEW limit, NEW answer \in Replies,
               Desk!Answer(s, answer, cap, limit)
        PROVE  DeskOwn'
    <3> DEFINE n == session[s].asked
               x == [session[s] EXCEPT !.at = "tools", !.cap = cap, !.left = limit + 1,
                                       !.answer = answer, !.asked = 0]
    <3>1. /\ session[s].at = "paused" /\ session' = [session EXCEPT ![s] = x]
          /\ UNCHANGED <<changes, applied, lost>>
          /\ approved' = IF answer = "yes" THEN approved \cup {n} ELSE approved \ {n}
      BY <2>3 DEF Desk!Answer, DeskInv
    <3>2. /\ x.staged = session[s].staged /\ x.calls = session[s].calls /\ x.resume = session[s].resume
          /\ x.answer = answer /\ x.at = "tools"
      BY <2>0 DEF DeskSession
    <3>3. /\ changes[n].status # "applied" /\ n \in session[s].staged
          /\ Desk!Alone(session[s].calls) =>
               /\ session[s].resume = <<>>
               /\ \A j \in DOMAIN session[s].calls :
                    session[s].calls[j].tool = "apply" => session[s].calls[j].change = n
      BY <2>0, <3>1 DEF DeskTold
    <3> HIDE DEF x, n
    <3>4. answer = "yes" => n \in approved'
      BY <3>1
    <3>5. DeskTold(x, changes', approved')
      BY <3>2, <3>3, <3>4 DEF DeskTold
    <3>6. \A m : m # n /\ m \in approved => m \in approved'
      BY <3>1
    <3>7. \A t \in Sessions : t # s => DeskTold(session[t], changes', approved')
      <4> SUFFICES ASSUME NEW t \in Sessions, t # s PROVE DeskTold(session[t], changes', approved')
        OBVIOUS
      <4>1. n \notin session[t].staged
        BY <3>3 DEF DeskOwn
      <4>2. \A m \in session[t].staged : changes'[m] = changes[m] /\ (m \in approved => m \in approved')
        BY <3>1, <3>6, <4>1
      <4> QED BY <4>2, DeskOthers
    <3>8. Desk!EveryApplyApproved'
      <4>1. \A i \in DOMAIN applied : /\ applied[i].alone => applied[i].change \in approved
                                      /\ applied[i].change # n
        BY <3>3 DEF DeskOwn, Desk!EveryApplyApproved, DeskInv, Explains
      <4> QED BY <3>1, <3>6, <4>1 DEF Desk!EveryApplyApproved
    <3>9. /\ session[s].staged \subseteq x.staged
          /\ \A t \in Sessions : t # s => x.staged \cap session[t].staged = {}
      BY <3>2 DEF DeskOwn
    <3>10. \A i \in DOMAIN changes' \ lost' : changes'[i].status = "pending" =>
             \/ /\ i \in DOMAIN changes \ lost /\ changes[i].status = "pending"
                /\ changes'[i].user = changes[i].user
             \/ changes'[i].user = Staff[s] /\ i \in x.staged
      BY <3>1
    <3> QED BY <3>1, <3>5, <3>7, <3>8, <3>9, <3>10, DeskTurns
  <2>4. ASSUME NEW s \in Sessions, Desk!Merchant(s) PROVE DeskOwn'
    <3>1. session \in [Sessions -> DeskSession]
      BY DEF DeskInv
    <3>2. session[s].at = "merchant" /\ UNCHANGED <<changes, applied, approved, lost>>
      BY <2>4 DEF Desk!Merchant
    <3>3. PICK calls \in Seq(Desk!Calls) :
            \/ session' = [session EXCEPT ![s] = Desk!Ended(session[s])]
            \/ session' = [session EXCEPT ![s] = [session[s] EXCEPT !.at = "tools", !.calls = calls,
                                                                   !.left = session[s].left - 1]]
      BY <2>4, <3>1, DeskReplies
    <3> DEFINE x == [session[s] EXCEPT !.at = "tools", !.calls = calls, !.left = session[s].left - 1]
               e == Desk!Ended(session[s])
    <3>4. /\ x.staged = session[s].staged /\ x.calls = calls /\ x.resume = session[s].resume
          /\ x.answer = session[s].answer /\ x.at = "tools"
      BY <2>0 DEF DeskSession
    <3>5. /\ e.staged = session[s].staged /\ e.calls = <<>> /\ e.resume = <<>> /\ e.answer = "none"
          /\ e.at = "idle"
      BY <2>0, DeskEnded
    <3>6. session' = [session EXCEPT ![s] = e] \/ session' = [session EXCEPT ![s] = x]
      BY <3>3
    <3> HIDE DEF x, e
    <3>7. DeskTold(e, changes, approved)
      BY <3>5, DeskBlank
    <3>8. DeskTold(x, changes, approved)
      <4>1. session[s].resume = <<>> /\ session[s].answer = "none"
        BY <2>0, <3>2 DEF DeskTold
      <4> QED BY <3>4, <4>1 DEF DeskTold
    <3> QED BY <2>1, <3>2, <3>4, <3>5, <3>6, <3>7, <3>8
  <2>5. ASSUME NEW s \in Sessions, Desk!Tools(s) PROVE DeskOwn'
    BY <2>5, DeskOwnTools
  <2>6. CASE UNCHANGED Desk!vars
    BY <2>6 DEF Desk!vars, DeskOwn, Desk!EveryApplyApproved, Desk!PendingReachable
  <2> QED BY <2>2, <2>3, <2>4, <2>5, <2>6 DEF Desk!Next, Replies
<1>4. DeskOwn => Desk!EveryApplyApproved /\ Desk!PendingReachable
  BY DEF DeskOwn
<1> QED BY <1>1, <1>2, <1>3, <1>4, PTL DEF Desk!Spec

-----------------------------------------------------------------------------
(* The tools of a run.                                                         *)

IsSeq(q) == Len(q) \in Nat /\ q = [i \in 1 .. Len(q) |-> q[i]]

ToolDeployment ==
  /\ Servers \in Seq(DOMAIN Catalog)
  /\ \A s \in DOMAIN Catalog :
       /\ IsSeq(Catalog[s])
       /\ \A i \in DOMAIN Catalog[s] : IsSeq(Catalog[s][i].safe)
  /\ Ttl \in Nat /\ ToolTime \in Nat /\ ToolEdits \in Nat

Safes == UNION {{Catalog[s][i].safe : i \in DOMAIN Catalog[s]} : s \in DOMAIN Catalog}
Raws == UNION {{Catalog[s][i].raw : i \in DOMAIN Catalog[s]} : s \in DOMAIN Catalog}

\* The names that sanitize_tool_name gives, and the lists of distinct ones.
Names == Safes \cup {Append(w, n) : w \in Safes, n \in Nat}
Distinct == {q \in Seq(Names) : \A i, j \in 1 .. Len(q) : q[i] = q[j] => i = j}

\* The tools a server may be asked for by run r.
ToolsOf(r) ==
  {t \in [raw : Raws, safe : Safes, server : DOMAIN run[r].conns,
          url : {run[r].conns[s].url : s \in DOMAIN run[r].conns},
          auth : {run[r].conns[s].auth : s \in DOMAIN run[r].conns}, user : {run[r].user}] :
     /\ t.url = run[r].conns[t.server].url
     /\ t.auth = run[r].conns[t.server].auth
     /\ Mcp!Allowed(t, run[r].conns[t.server].allow)}

(* A name with a number is not the same name with another. *)
LEMMA SuffixesDiffer ==
  ASSUME NEW w, IsSeq(w), NEW m \in Nat, NEW n \in Nat, Append(w, m) = Append(w, n)
  PROVE  m = n
<1> DEFINE V == {w[i] : i \in 1 .. Len(w)} \cup Nat
<1>1. w \in Seq(V)
  <2>1. \A i \in 1 .. Len(w) : w[i] \in V
    OBVIOUS
  <2>2. [i \in 1 .. Len(w) |-> w[i]] \in [1 .. Len(w) -> V]
    BY <2>1
  <2>3. [1 .. Len(w) -> V] \subseteq Seq(V)
    BY DEF IsSeq
  <2> QED BY <2>2, <2>3 DEF IsSeq
<1>2. m \in V /\ n \in V
  OBVIOUS
<1> HIDE DEF V
<1> QED BY <1>1, <1>2

(* sanitize_tool_name returns a name that is not in use. *)
LEMMA SanitizedNew ==
  ASSUME ToolDeployment, NEW w \in Safes, NEW q \in Distinct
  PROVE  Mcp!Sanitized(w, q) \in Names /\ Mcp!Sanitized(w, q) \notin Mcp!ToSet(q)
<1> DEFINE Free == {n \in 2 .. Len(q) + 2 : Append(w, n) \notin Mcp!ToSet(q)}
<1>1. q \in Seq(Names) /\ Len(q) \in Nat /\ DOMAIN q = 1 .. Len(q)
  BY DEF Distinct
<1>2. IsSeq(w)
  BY DEF Safes, ToolDeployment
<1>3. Free # {}
  <2> SUFFICES ASSUME Free = {} PROVE FALSE
    OBVIOUS
  <2>1. \A n \in 2 .. Len(q) + 2 : \E i \in 1 .. Len(q) : q[i] = Append(w, n)
    BY <1>1 DEF Mcp!ToSet
  <2> DEFINE f == [n \in 2 .. Len(q) + 2 |-> CHOOSE i \in 1 .. Len(q) : q[i] = Append(w, n)]
  <2>2. f \in [2 .. Len(q) + 2 -> 1 .. Len(q)] /\ \A n \in 2 .. Len(q) + 2 : q[f[n]] = Append(w, n)
    BY <2>1
  <2> HIDE DEF f
  <2>3. IsFiniteSet(1 .. Len(q)) /\ Cardinality(1 .. Len(q)) = Len(q)
    BY <1>1, FS_Interval, SMTT(30)
  <2>4. IsFiniteSet(2 .. Len(q) + 2) /\ Cardinality(2 .. Len(q) + 2) = Len(q) + 1
    <3> DEFINE b == Len(q) + 2
    <3>1. b \in Int /\ ~(2 > b) /\ b - 2 + 1 = Len(q) + 1
      BY <1>1
    <3> HIDE DEF b
    <3>2. IsFiniteSet(2 .. b) /\ Cardinality(2 .. b) = IF 2 > b THEN 0 ELSE b - 2 + 1
      BY <3>1, FS_Interval
    <3>3. IsFiniteSet(2 .. b) /\ Cardinality(2 .. b) = Len(q) + 1
      <4>1. Cardinality(2 .. b) = b - 2 + 1
        BY <3>1, <3>2
      <4> QED BY <3>1, <3>2, <4>1
    <3> QED BY <3>3 DEF b
  <2>5. PICK x, y \in 2 .. Len(q) + 2 : x # y /\ f[x] = f[y]
    <3> DEFINE S == 2 .. Len(q) + 2
               T == 1 .. Len(q)
    <3>1. Cardinality(T) < Cardinality(S) /\ IsFiniteSet(S) /\ IsFiniteSet(T) /\ f \in [S -> T]
      <4>1. Len(q) < Len(q) + 1
        BY <1>1
      <4>2. Cardinality(T) < Cardinality(S)
        BY <2>3, <2>4, <4>1, Zenon
      <4> QED BY <2>2, <2>3, <2>4, <4>2, Zenon
    <3> HIDE DEF S, T
    <3>2. \E x, y \in S : x # y /\ f[x] = f[y]
      BY <3>1, FS_PigeonHole
    <3> QED BY <3>2 DEF S
  <2>6. Append(w, x) = Append(w, y)
    BY <2>2, <2>5
  <2>7. x \in Nat /\ y \in Nat
    BY <1>1
  <2> QED BY <1>2, <2>5, <2>6, <2>7, SuffixesDiffer
<1>4. PICK n \in Free : \A m \in Free : n <= m
  <2>1. Free \in SUBSET Nat
    BY <1>1
  <2> QED BY <1>3, <2>1, LeastNumber
<1> DEFINE P(k) == /\ Append(w, k) \notin Mcp!ToSet(q)
                   /\ \A j \in 2 .. k - 1 : Append(w, j) \in Mcp!ToSet(q)
           least == CHOOSE k \in 2 .. Len(q) + 2 : P(k)
<1>5. P(n) /\ n \in 2 .. Len(q) + 2
  <2>1. ASSUME NEW j \in 2 .. n - 1 PROVE Append(w, j) \in Mcp!ToSet(q)
    <3>1. j \in 2 .. Len(q) + 2 /\ ~(n <= j)
      BY <1>1
    <3> QED BY <1>4, <3>1
  <2> QED BY <2>1
<1>6. least \in 2 .. Len(q) + 2 /\ Append(w, least) \notin Mcp!ToSet(q)
  <2>1. least \in 2 .. Len(q) + 2 /\ P(least)
    <3> HIDE DEF P
    <3> QED BY <1>5
  <2> HIDE DEF least
  <2> QED BY <2>1
<1>7. Mcp!Sanitized(w, q) = IF w \in Mcp!ToSet(q) THEN Append(w, least) ELSE w
  BY Zenon DEF Mcp!Sanitized
<1>8. Append(w, least) \in Names /\ w \in Names
  <2> HIDE DEF least
  <2>1. least \in Nat
    BY <1>1, <1>6
  <2> QED BY <2>1 DEF Names
<1> HIDE DEF least
<1> QED BY <1>6, <1>7, <1>8

(* The tools that an allowlist leaves are found one by one. *)
LEMMA NarrowedPass ==
  ASSUME NEW U, NEW tools \in Seq(U), NEW allow,
         \A x \in Seq({t \in U : Mcp!Allowed(t, allow)}), i \in 1..Len(tools) : (IF Mcp!Allowed(tools[i], allow) THEN Append(x, tools[i]) ELSE x) \in Seq({t \in U : Mcp!Allowed(t, allow)})
  PROVE  \E f : /\ f[0] = <<>>
                /\ \A i \in 1..Len(tools) : f[i] = (IF Mcp!Allowed(tools[i], allow) THEN Append(f[i - 1], tools[i]) ELSE f[i - 1])
                /\ Mcp!Narrowed(tools, allow) = f[Len(tools)]
<1> DEFINE n == Len(tools)
           W == Seq({t \in U : Mcp!Allowed(t, allow)})
           St(x, i) == (IF Mcp!Allowed(tools[i], allow) THEN Append(x, tools[i]) ELSE x)
           Is(f) == f = [i \in 0..n |-> IF i = 0 THEN <<>> ELSE St(f[i - 1], i)]
<1>1. n \in Nat /\ <<>> \in W
  OBVIOUS
<1>2. \E f : Is(f)
  <2> DEFINE F == [x \in W \X (1..n) |-> St(x[1], x[2])]
  <2>1. \A w \in W, i \in 1..n : F[<<w, i>>] = St(w, i) /\ F[<<w, i>>] \in W
    <3>1. \A w \in W, i \in 1..n : St(w, i) \in W
      OBVIOUS
    <3> HIDE DEF W, n, St
    <3> QED BY <3>1
  <2> HIDE DEF F, W, n, St
  <2>2. PICK f \in [0..n -> W] : f[0] = <<>> /\ \A i \in 1..n : f[i] = F[<<f[i - 1], i>>]
    <3>1. Within(W, n, F)
      BY <2>1 DEF Within
    <3>2. \E f \in [0..n -> W] : IsPass(f, n, <<>>, F)
      BY <1>1, <3>1, PassExists
    <3> QED BY <3>2 DEF IsPass
  <2>3. ASSUME NEW i \in 0..n PROVE f[i] = IF i = 0 THEN <<>> ELSE St(f[i - 1], i)
    <3>1. i # 0 => i \in 1..n /\ i - 1 \in 0..n
      BY <1>1
    <3>2. i # 0 => f[i - 1] \in W
      BY <3>1
    <3> QED BY <2>1, <2>2, <3>1, <3>2
  <2>4. f = [i \in 0..n |-> f[i]]
    OBVIOUS
  <2>5. Is(f)
    BY <2>3, <2>4
  <2> QED BY <2>5
<1> DEFINE g == CHOOSE f : Is(f)
<1>3. Is(g)
  <2> HIDE DEF Is
  <2> QED BY <1>2
<1>4. Mcp!Narrowed(tools, allow) = g[n]
  BY DEF Mcp!Narrowed
<1> HIDE DEF g
<1>5. \A i \in 0..n : g[i] = IF i = 0 THEN <<>> ELSE St(g[i - 1], i)
  <2> DEFINE B(i) == IF i = 0 THEN <<>> ELSE St(g[i - 1], i)
  <2>1. g = [i \in 0..n |-> B(i)]
    BY <1>3, Zenon
  <2>2. \A i \in 0..n : g[i] = B(i)
    <3> HIDE DEF B, n
    <3> QED BY <2>1
  <2> QED BY <2>2
<1>6. g[0] = <<>>
  <2>1. 0 \in 0..n
    BY <1>1
  <2> QED BY <1>5, <2>1
<1>7. ASSUME NEW i \in 1..n PROVE g[i] = St(g[i - 1], i)
  <2>1. i \in 0..n /\ i # 0
    BY <1>1
  <2> HIDE DEF n, St
  <2> QED BY <1>5, <2>1
<1> QED BY <1>4, <1>6, <1>7

LEMMA NarrowedKeeps ==
  ASSUME NEW U, NEW tools \in Seq(U), NEW allow
  PROVE  Mcp!Narrowed(tools, allow) \in Seq({t \in U : Mcp!Allowed(t, allow)})
<1> DEFINE A == {t \in U : Mcp!Allowed(t, allow)}
           W == Seq(A)
           St(x, i) == IF Mcp!Allowed(tools[i], allow) THEN Append(x, tools[i]) ELSE x
<1>1. Len(tools) \in Nat /\ \A i \in 1..Len(tools) : tools[i] \in U
  OBVIOUS
<1>2. ASSUME NEW x \in W, NEW i \in 1..Len(tools) PROVE St(x, i) \in W
  <2>1. CASE Mcp!Allowed(tools[i], allow)
    <3>1. tools[i] \in A
      BY <1>1, <2>1
    <3> HIDE DEF A
    <3>2. Append(x, tools[i]) \in W
      BY <3>1
    <3> QED BY <2>1, <3>2
  <2>2. CASE ~Mcp!Allowed(tools[i], allow)
    BY <2>2
  <2> QED BY <2>1, <2>2
<1>3. PICK f : /\ f[0] = <<>>
               /\ \A i \in 1..Len(tools) : f[i] = St(f[i - 1], i)
               /\ Mcp!Narrowed(tools, allow) = f[Len(tools)]
  BY <1>2, NarrowedPass
<1>4. <<>> \in W
  OBVIOUS
<1> HIDE DEF W, St
<1>5. \A i \in 1..Len(tools) : f[i - 1] \in W => f[i] \in W
  BY <1>2, <1>3
<1>6. f[Len(tools)] \in W
  BY <1>1, <1>3, <1>4, <1>5, PassKeeps
<1> QED BY <1>3, <1>6 DEF W

(* The tools of a server that answered are of the run's connection to it. *)
LEMMA ServedKeeps ==
  ASSUME ToolDeployment, NEW r, NEW s \in DOMAIN Catalog, NEW up
  PROVE  Mcp!Served(r, s, up) \in Seq(ToolsOf(r))
<1>1. CASE s \notin DOMAIN run[r].conns \/ s \notin up
  <2>1. Mcp!Served(r, s, up) = <<>>
    BY <1>1 DEF Mcp!Served
  <2> QED BY <2>1
<1>2. CASE s \in DOMAIN run[r].conns /\ s \in up
  <2> DEFINE c == run[r].conns[s]
             U == [raw : Raws, safe : Safes, server : {s}, url : {c.url}, auth : {c.auth},
                   user : {run[r].user}]
             tools == [i \in DOMAIN Catalog[s] |->
                         [raw |-> Catalog[s][i].raw, safe |-> Catalog[s][i].safe,
                          server |-> s, url |-> c.url, auth |-> c.auth, user |-> run[r].user]]
             A == {t \in U : Mcp!Allowed(t, c.allow)}
  <2>1. Mcp!Served(r, s, up) = Mcp!Narrowed(tools, c.allow)
    BY <1>2 DEF Mcp!Served
  <2>2. tools \in Seq(U)
    <3>1. DOMAIN Catalog[s] = 1 .. Len(Catalog[s]) /\ Len(Catalog[s]) \in Nat
      BY DEF ToolDeployment, IsSeq
    <3>2. \A i \in DOMAIN Catalog[s] : Catalog[s][i].raw \in Raws /\ Catalog[s][i].safe \in Safes
      BY DEF Raws, Safes
    <3>3. tools \in [1 .. Len(Catalog[s]) -> U]
      BY <3>1, <3>2
    <3> HIDE DEF U, tools
    <3> QED BY <3>1, <3>3
  <2>3. Mcp!Narrowed(tools, c.allow) \in Seq(A)
    <3> HIDE DEF U, tools, c
    <3> QED BY <2>2, NarrowedKeeps
  <2>4. A \subseteq ToolsOf(r)
    BY <1>2 DEF ToolsOf
  <2>5. Seq(A) \subseteq Seq(ToolsOf(r))
    <3> HIDE DEF A
    <3> QED BY <2>4
  <2> QED BY <2>1, <2>3, <2>5
<1> QED BY <1>1, <1>2

(* The servers are asked one by one. *)
LEMMA OfferedPass ==
  ASSUME NEW r, NEW up, Servers \in Seq(DOMAIN Catalog),
         \A x \in Seq(ToolsOf(r)), i \in 1..Len(Servers) : (x \o Mcp!Served(r, Servers[i], up)) \in Seq(ToolsOf(r))
  PROVE  \E f : /\ f[0] = <<>>
                /\ \A i \in 1..Len(Servers) : f[i] = (f[i - 1] \o Mcp!Served(r, Servers[i], up))
                /\ Mcp!Offered(r, up) = f[Len(Servers)]
<1> DEFINE n == Len(Servers)
           W == Seq(ToolsOf(r))
           St(x, i) == (x \o Mcp!Served(r, Servers[i], up))
           Is(f) == f = [i \in 0..n |-> IF i = 0 THEN <<>> ELSE St(f[i - 1], i)]
<1>1. n \in Nat /\ <<>> \in W
  OBVIOUS
<1>2. \E f : Is(f)
  <2> DEFINE F == [x \in W \X (1..n) |-> St(x[1], x[2])]
  <2>1. \A w \in W, i \in 1..n : F[<<w, i>>] = St(w, i) /\ F[<<w, i>>] \in W
    <3>1. \A w \in W, i \in 1..n : St(w, i) \in W
      OBVIOUS
    <3> HIDE DEF W, n, St
    <3> QED BY <3>1
  <2> HIDE DEF F, W, n, St
  <2>2. PICK f \in [0..n -> W] : f[0] = <<>> /\ \A i \in 1..n : f[i] = F[<<f[i - 1], i>>]
    <3>1. Within(W, n, F)
      BY <2>1 DEF Within
    <3>2. \E f \in [0..n -> W] : IsPass(f, n, <<>>, F)
      BY <1>1, <3>1, PassExists
    <3> QED BY <3>2 DEF IsPass
  <2>3. ASSUME NEW i \in 0..n PROVE f[i] = IF i = 0 THEN <<>> ELSE St(f[i - 1], i)
    <3>1. i # 0 => i \in 1..n /\ i - 1 \in 0..n
      BY <1>1
    <3>2. i # 0 => f[i - 1] \in W
      BY <3>1
    <3> QED BY <2>1, <2>2, <3>1, <3>2
  <2>4. f = [i \in 0..n |-> f[i]]
    OBVIOUS
  <2>5. Is(f)
    BY <2>3, <2>4
  <2> QED BY <2>5
<1> DEFINE g == CHOOSE f : Is(f)
<1>3. Is(g)
  <2> HIDE DEF Is
  <2> QED BY <1>2
<1>4. Mcp!Offered(r, up) = g[n]
  BY DEF Mcp!Offered
<1> HIDE DEF g
<1>5. \A i \in 0..n : g[i] = IF i = 0 THEN <<>> ELSE St(g[i - 1], i)
  <2> DEFINE B(i) == IF i = 0 THEN <<>> ELSE St(g[i - 1], i)
  <2>1. g = [i \in 0..n |-> B(i)]
    BY <1>3, Zenon
  <2>2. \A i \in 0..n : g[i] = B(i)
    <3> HIDE DEF B, n
    <3> QED BY <2>1
  <2> QED BY <2>2
<1>6. g[0] = <<>>
  <2>1. 0 \in 0..n
    BY <1>1
  <2> QED BY <1>5, <2>1
<1>7. ASSUME NEW i \in 1..n PROVE g[i] = St(g[i - 1], i)
  <2>1. i \in 0..n /\ i # 0
    BY <1>1
  <2> HIDE DEF n, St
  <2> QED BY <1>5, <2>1
<1> QED BY <1>4, <1>6, <1>7

LEMMA OfferedKeeps ==
  ASSUME ToolDeployment, NEW r, NEW up
  PROVE  Mcp!Offered(r, up) \in Seq(ToolsOf(r))
<1> DEFINE W == Seq(ToolsOf(r))
           n == Len(Servers)
<1>1. n \in Nat /\ (\A i \in 1..n : Servers[i] \in DOMAIN Catalog) /\ <<>> \in W
  BY DEF ToolDeployment
<1>2. ASSUME NEW x \in W, NEW i \in 1..n PROVE x \o Mcp!Served(r, Servers[i], up) \in W
  <2>1. Mcp!Served(r, Servers[i], up) \in W
    BY <1>1, ServedKeeps
  <2> QED BY <2>1
<1>3. PICK f : /\ f[0] = <<>>
               /\ \A i \in 1..n : f[i] = f[i - 1] \o Mcp!Served(r, Servers[i], up)
               /\ Mcp!Offered(r, up) = f[n]
  BY <1>2, OfferedPass DEF ToolDeployment
<1> HIDE DEF W, n
<1>4. \A i \in 1..n : f[i - 1] \in W => f[i] \in W
  BY <1>2, <1>3
<1>5. f[n] \in W
  BY <1>1, <1>3, <1>4, PassKeeps
<1> QED BY <1>3, <1>5 DEF W

\* The tools of an offer under the given names.
ExposedAs(offered, names) ==
  [i \in DOMAIN offered |->
     [name |-> names[i], raw |-> offered[i].raw, server |-> offered[i].server,
      url |-> offered[i].url, auth |-> offered[i].auth, user |-> offered[i].user]]

(* The names are given one by one. *)
LEMMA ExposedPass ==
  ASSUME NEW U, NEW offered \in Seq(U),
         \A x \in Distinct, i \in 1..Len(offered) : Append(x, Mcp!Sanitized(offered[i].safe, x)) \in Distinct
  PROVE  \E f : /\ f[0] = <<>>
                /\ \A i \in 1..Len(offered) : f[i] = Append(f[i - 1], Mcp!Sanitized(offered[i].safe, f[i - 1]))
                /\ Mcp!Exposed(offered) = ExposedAs(offered, f[Len(offered)])
<1> DEFINE n == Len(offered)
           W == Distinct
           St(x, i) == Append(x, Mcp!Sanitized(offered[i].safe, x))
           Is(f) == f = [i \in 0..n |-> IF i = 0 THEN <<>> ELSE St(f[i - 1], i)]
<1>1. n \in Nat /\ <<>> \in W
  BY DEF Distinct
<1>2. \E f : Is(f)
  <2> DEFINE F == [x \in W \X (1..n) |-> St(x[1], x[2])]
  <2>1. \A w \in W, i \in 1..n : F[<<w, i>>] = St(w, i) /\ F[<<w, i>>] \in W
    <3>1. \A w \in W, i \in 1..n : St(w, i) \in W
      OBVIOUS
    <3> HIDE DEF W, n, St
    <3> QED BY <3>1
  <2> HIDE DEF F, W, n, St
  <2>2. PICK f \in [0..n -> W] : f[0] = <<>> /\ \A i \in 1..n : f[i] = F[<<f[i - 1], i>>]
    <3>1. Within(W, n, F)
      BY <2>1 DEF Within
    <3>2. \E f \in [0..n -> W] : IsPass(f, n, <<>>, F)
      BY <1>1, <3>1, PassExists
    <3> QED BY <3>2 DEF IsPass
  <2>3. ASSUME NEW i \in 0..n PROVE f[i] = IF i = 0 THEN <<>> ELSE St(f[i - 1], i)
    <3>1. i # 0 => i \in 1..n /\ i - 1 \in 0..n
      BY <1>1
    <3>2. i # 0 => f[i - 1] \in W
      BY <3>1
    <3> QED BY <2>1, <2>2, <3>1, <3>2
  <2>4. f = [i \in 0..n |-> f[i]]
    OBVIOUS
  <2>5. Is(f)
    BY <2>3, <2>4
  <2> QED BY <2>5
<1> DEFINE g == CHOOSE f : Is(f)
<1>3. Is(g)
  <2> HIDE DEF Is
  <2> QED BY <1>2
<1>4. Mcp!Exposed(offered) = ExposedAs(offered, g[n])
  BY DEF Mcp!Exposed, ExposedAs
<1> HIDE DEF g
<1>5. \A i \in 0..n : g[i] = IF i = 0 THEN <<>> ELSE St(g[i - 1], i)
  <2> DEFINE B(i) == IF i = 0 THEN <<>> ELSE St(g[i - 1], i)
  <2>1. g = [i \in 0..n |-> B(i)]
    BY <1>3, Zenon
  <2>2. \A i \in 0..n : g[i] = B(i)
    <3> HIDE DEF B, n
    <3> QED BY <2>1
  <2> QED BY <2>2
<1>6. g[0] = <<>>
  <2>1. 0 \in 0..n
    BY <1>1
  <2> QED BY <1>5, <2>1
<1>7. ASSUME NEW i \in 1..n PROVE g[i] = St(g[i - 1], i)
  <2>1. i \in 0..n /\ i # 0
    BY <1>1
  <2> HIDE DEF n, St
  <2> QED BY <1>5, <2>1
<1> QED BY <1>4, <1>6, <1>7

(* Appending an unused name keeps the names distinct. *)
LEMMA DistinctGrows ==
  ASSUME NEW q \in Distinct, NEW x \in Names, x \notin Mcp!ToSet(q)
  PROVE  Append(q, x) \in Distinct /\ Len(Append(q, x)) = Len(q) + 1
<1> DEFINE p == Append(q, x)
<1>1. q \in Seq(Names) /\ Len(q) \in Nat /\ DOMAIN q = 1 .. Len(q)
  BY DEF Distinct
<1>2. p \in Seq(Names) /\ Len(p) = Len(q) + 1 /\ p[Len(q) + 1] = x
       /\ \A i \in 1 .. Len(q) : p[i] = q[i]
  BY <1>1
<1>3. \A i \in 1 .. Len(q) : q[i] # x
  BY <1>1 DEF Mcp!ToSet
<1> HIDE DEF p
<1>4. ASSUME NEW i \in 1 .. Len(p), NEW j \in 1 .. Len(p), p[i] = p[j] PROVE i = j
  <2>1. i \in 1 .. Len(q) \/ i = Len(q) + 1
    BY <1>1, <1>2
  <2>2. j \in 1 .. Len(q) \/ j = Len(q) + 1
    BY <1>1, <1>2
  <2>3. CASE i \in 1 .. Len(q) /\ j \in 1 .. Len(q)
    BY <1>2, <1>4, <2>3 DEF Distinct
  <2> QED BY <1>2, <1>3, <1>4, <2>1, <2>2, <2>3
<1>5. p \in Distinct
  BY <1>2, <1>4 DEF Distinct
<1> QED BY <1>2, <1>5 DEF p

(* The tools are exposed as they were offered, under distinct names. *)
LEMMA ExposedKeeps ==
  ASSUME ToolDeployment, NEW r, NEW offered \in Seq(ToolsOf(r))
  PROVE  \E q \in Distinct : Len(q) = Len(offered) /\ Mcp!Exposed(offered) = ExposedAs(offered, q)
<1> DEFINE n == Len(offered)
           St(x, i) == Append(x, Mcp!Sanitized(offered[i].safe, x))
<1>1. n \in Nat /\ \A i \in 1..n : offered[i].safe \in Safes
  <2>1. \A i \in 1..n : offered[i] \in ToolsOf(r)
    OBVIOUS
  <2>2. \A t \in ToolsOf(r) : t.safe \in Safes
    BY DEF ToolsOf
  <2> QED BY <2>1, <2>2
<1>2. ASSUME NEW x \in Distinct, NEW i \in 1..n
      PROVE  St(x, i) \in Distinct /\ Len(St(x, i)) = Len(x) + 1
  <2>1. Mcp!Sanitized(offered[i].safe, x) \in Names /\ Mcp!Sanitized(offered[i].safe, x) \notin Mcp!ToSet(x)
    BY <1>1, SanitizedNew
  <2> QED BY <2>1, DistinctGrows
<1>3. PICK f : /\ f[0] = <<>>
               /\ \A i \in 1..n : f[i] = St(f[i - 1], i)
               /\ Mcp!Exposed(offered) = ExposedAs(offered, f[n])
  BY <1>2, ExposedPass
<1> DEFINE T == {k \in Nat : k <= n => f[k] \in Distinct /\ Len(f[k]) = k}
<1>4. 0 \in T
  <2>1. <<>> \in Distinct /\ Len(<<>>) = 0
    BY DEF Distinct
  <2> QED BY <1>3, <2>1
<1>5. ASSUME NEW k \in Nat, k \in T PROVE k + 1 \in T
  <2> SUFFICES ASSUME k + 1 <= n PROVE f[k + 1] \in Distinct /\ Len(f[k + 1]) = k + 1
    OBVIOUS
  <2>1. k + 1 \in 1..n /\ (k + 1) - 1 = k /\ k <= n
    BY <1>1
  <2>2. f[k] \in Distinct /\ Len(f[k]) = k
    BY <1>5, <2>1
  <2>3. f[k + 1] = St(f[k], k + 1)
    <3> HIDE DEF n, St
    <3> QED BY <1>3, <2>1
  <2>4. f[k + 1] \in Distinct /\ Len(f[k + 1]) = Len(f[k]) + 1
    <3> HIDE DEF n, St
    <3> QED BY <1>2, <2>1, <2>2, <2>3
  <2> QED BY <2>2, <2>4
<1>6. Nat \subseteq T
  <2> HIDE DEF T
  <2> QED BY <1>4, <1>5, EveryNumber
<1>7. f[n] \in Distinct /\ Len(f[n]) = n
  BY <1>1, <1>6
<1> QED BY <1>3, <1>7

-----------------------------------------------------------------------------

\* Tools that connections conns admit, with their sessions, loaded for `who`,
\* under distinct names.
GoodTools(tools, conns, who) ==
  /\ \A i \in DOMAIN tools :
       /\ tools[i].server \in DOMAIN conns
       /\ tools[i].url = conns[tools[i].server].url
       /\ tools[i].auth = conns[tools[i].server].auth
       /\ Mcp!Allowed(tools[i], conns[tools[i].server].allow)
       /\ tools[i].user = who
  /\ \A i, j \in DOMAIN tools : tools[i].name = tools[j].name => i = j

\* Tools that a run which has ended loaded, or was given, under key k.
LoadedUnder(tools, k) ==
  \E q \in ToolRuns : /\ run[q].at = "done" /\ Mcp!Key(q) = k
                      /\ GoodTools(tools, run[q].conns, run[q].user)

RunFields == {"user", "at", "conns", "asked", "tools", "since"}

HubRowsInv == DOMAIN row = ToolUsers /\ \A u \in ToolUsers : row[u] \in Mcp!HubRows(u)

CacheInv ==
  \A k \in DOMAIN cache :
    /\ cache[k].since \in 0 .. now /\ cache[k].expires = cache[k].since + Ttl
    /\ LoadedUnder(cache[k].tools, k)

ToolRunInv ==
  /\ DOMAIN run = ToolRuns
  /\ \A r \in ToolRuns :
       /\ DOMAIN run[r] = RunFields
       /\ run[r].at \in {"idle", "resolved", "loading", "done"}
       /\ run[r].asked \in 0 .. now
       /\ run[r].at # "done" => run[r].tools = <<>>
       /\ run[r].at = "done" /\ run[r].since < run[r].asked => run[r].asked < run[r].since + Ttl
       /\ \A s \in DOMAIN run[r].conns : run[r].conns[s].auth \in {"none", run[r].user}

ToolGivenInv ==
  \A r \in ToolRuns : run[r].tools # <<>> => LoadedUnder(run[r].tools, Mcp!Key(r))

ToolInv ==
  /\ HubRowsInv
  /\ now \in 0 .. ToolTime /\ edits \in 0 .. ToolEdits /\ authz \in BOOLEAN
  /\ CacheInv /\ ToolRunInv /\ ToolGivenInv

(* What a load gives is good for the run that loads. *)
LEMMA LoadedGood ==
  ASSUME ToolDeployment, NEW r, NEW up
  PROVE  GoodTools(Mcp!Exposed(Mcp!Offered(r, up)), run[r].conns, run[r].user)
<1> DEFINE o == Mcp!Offered(r, up)
<1>1. o \in Seq(ToolsOf(r))
  BY OfferedKeeps
<1> HIDE DEF o
<1>2. PICK q \in Distinct : Len(q) = Len(o) /\ Mcp!Exposed(o) = ExposedAs(o, q)
  BY <1>1, ExposedKeeps
<1> DEFINE e == ExposedAs(o, q)
<1>3. DOMAIN e = DOMAIN o /\ DOMAIN o = 1 .. Len(o)
  BY <1>1 DEF ExposedAs
<1>4. \A i \in DOMAIN o : e[i] = [name |-> q[i], raw |-> o[i].raw, server |-> o[i].server,
                                  url |-> o[i].url, auth |-> o[i].auth, user |-> o[i].user]
  BY DEF ExposedAs
<1> HIDE DEF e
<1>5. ASSUME NEW i \in DOMAIN e
      PROVE  /\ e[i].server \in DOMAIN run[r].conns
             /\ e[i].url = run[r].conns[e[i].server].url
             /\ e[i].auth = run[r].conns[e[i].server].auth
             /\ Mcp!Allowed(e[i], run[r].conns[e[i].server].allow)
             /\ e[i].user = run[r].user
  <2>1. o[i] \in ToolsOf(r)
    BY <1>1, <1>3
  <2>2. /\ e[i].server = o[i].server /\ e[i].url = o[i].url /\ e[i].auth = o[i].auth
        /\ e[i].raw = o[i].raw /\ e[i].user = o[i].user
    BY <1>3, <1>4
  <2>3. /\ o[i].server \in DOMAIN run[r].conns /\ o[i].url = run[r].conns[o[i].server].url
        /\ o[i].auth = run[r].conns[o[i].server].auth
        /\ Mcp!Allowed(o[i], run[r].conns[o[i].server].allow) /\ o[i].user = run[r].user
    BY <2>1 DEF ToolsOf
  <2>4. \A allow : Mcp!Allowed(o[i], allow) => Mcp!Allowed(e[i], allow)
    BY <2>2, Zenon DEF Mcp!Allowed
  <2> QED BY <2>2, <2>3, <2>4
<1>6. ASSUME NEW i \in DOMAIN e, NEW j \in DOMAIN e, e[i].name = e[j].name PROVE i = j
  <2>1. q[i] = q[j] /\ i \in 1 .. Len(q) /\ j \in 1 .. Len(q)
    BY <1>2, <1>3, <1>4, <1>6
  <2> QED BY <2>1 DEF Distinct
<1> QED BY <1>2, <1>5, <1>6 DEF GoodTools, e, o

(* A run that has ended stays as it is, and so does what it loaded. *)
LEMMA LoadedStays ==
  ASSUME \A q \in ToolRuns : run[q].at = "done" => run'[q] = run[q], authz' = authz,
         NEW tools, NEW k, LoadedUnder(tools, k)
  PROVE  LoadedUnder(tools, k)'
<1>1. PICK q \in ToolRuns : /\ run[q].at = "done" /\ Mcp!Key(q) = k
                            /\ GoodTools(tools, run[q].conns, run[q].user)
  BY DEF LoadedUnder
<1>2. run'[q] = run[q]
  BY <1>1
<1>3. Mcp!Key(q)' = Mcp!Key(q)
  BY <1>2 DEF Mcp!Key, Mcp!Scope, Mcp!Fingerprint
<1>4. GoodTools(tools, run'[q].conns, run'[q].user)
  BY <1>1, <1>2
<1>5. run'[q].at = "done" /\ Mcp!Key(q)' = k
  BY <1>1, <1>2, <1>3
<1> QED BY <1>4, <1>5 DEF LoadedUnder, GoodTools

LEMMA ToolFirst == ToolDeployment /\ Mcp!Init => ToolInv
<1> SUFFICES ASSUME ToolDeployment, Mcp!Init PROVE ToolInv
  OBVIOUS
<1>1. HubRowsInv /\ authz \in BOOLEAN
  BY DEF Mcp!Init, HubRowsInv, Mcp!HubRows
<1>2. now \in 0 .. ToolTime /\ edits \in 0 .. ToolEdits
  BY DEF Mcp!Init, ToolDeployment
<1>3. CacheInv
  BY DEF Mcp!Init, CacheInv, Mcp!Empty
<1>4. ToolRunInv /\ ToolGivenInv
  <2>1. DOMAIN run = ToolRuns /\ now = 0 /\ \A r \in ToolRuns :
          /\ DOMAIN run[r] = RunFields /\ run[r].at = "idle" /\ run[r].asked = 0
          /\ run[r].tools = <<>> /\ run[r].conns = Mcp!Empty
    BY DEF Mcp!Init, RunFields
  <2>2. DOMAIN Mcp!Empty = {}
    BY DEF Mcp!Empty
  <2> QED BY <2>1, <2>2 DEF ToolRunInv, ToolGivenInv
<1> QED BY <1>1, <1>2, <1>3, <1>4 DEF ToolInv

(* The sessions of what a run resolves are its user's. *)
LEMMA ResolvedOwn ==
  ASSUME NEW u, NEW mine \in Mcp!HubRows(u), NEW s \in DOMAIN Mcp!Connections(mine)
  PROVE  Mcp!Connections(mine)[s].auth \in {"none", u}
<1>1. Mcp!Connections(mine)[s] \in Mcp!Resolved(s, mine)
  <2>1. Mcp!Resolved(s, mine) # {}
    BY DEF Mcp!Connections
  <2>2. Mcp!Connections(mine)[s] = CHOOSE spec \in Mcp!Resolved(s, mine) : TRUE
    BY DEF Mcp!Connections
  <2> QED BY <2>1, <2>2
<1>2. mine.auth \in {"none", u}
  <2>1. Mcp!NoRow.auth = "none" /\ Mcp!Disabled.auth = "none"
    BY DEF Mcp!NoRow, Mcp!Disabled
  <2>2. \A x \in [enabled : {TRUE}, url : Urls, allow : Allowlists, auth : {"none", u}] : x.auth \in {"none", u}
    OBVIOUS
  <2> QED BY <2>1, <2>2, Zenon DEF Mcp!HubRows
<1>3. \A c \in Mcp!RegistryEntry(s) : c.auth = "none"
  BY DEF Mcp!RegistryEntry, Mcp!Spec_
<1>4. Mcp!Resolved(s, mine) \subseteq
        Mcp!RegistryEntry(s) \cup {Mcp!Spec_(mine.url, mine.allow, mine.auth)}
  BY DEF Mcp!Resolved
<1>5. Mcp!Spec_(mine.url, mine.allow, mine.auth).auth = mine.auth
  BY DEF Mcp!Spec_
<1> QED BY <1>1, <1>2, <1>3, <1>4, <1>5

LEMMA ToolStep == ToolDeployment /\ ToolInv /\ [Mcp!Next]_(Mcp!vars) => ToolInv'
<1> SUFFICES ASSUME ToolDeployment, ToolInv, [Mcp!Next]_(Mcp!vars) PROVE ToolInv'
  OBVIOUS
<1> USE DEF ToolInv
<1>1. CASE Mcp!Tick
  <2>1. now' = now + 1 /\ now' \in 0 .. ToolTime /\ UNCHANGED <<row, edits, authz, cache, run>>
    BY <1>1 DEF Mcp!Tick, ToolDeployment
  <2>2. \A tools, k : LoadedUnder(tools, k) => LoadedUnder(tools, k)'
    BY <2>1, LoadedStays
  <2>3. CacheInv'
    BY <2>1, <2>2 DEF CacheInv
  <2>4. ToolRunInv' /\ HubRowsInv'
    BY <2>1 DEF ToolRunInv, HubRowsInv
  <2>5. ToolGivenInv'
    BY <2>1, <2>2 DEF ToolGivenInv, Mcp!Key, Mcp!Scope, Mcp!Fingerprint
  <2> QED BY <2>1, <2>3, <2>4, <2>5
<1>2. ASSUME NEW u \in ToolUsers, Mcp!EditRow(u) PROVE ToolInv'
  <2>1. edits' = edits + 1 /\ edits' \in 0 .. ToolEdits /\ UNCHANGED <<now, authz, cache, run>>
    BY <1>2 DEF Mcp!EditRow, ToolDeployment
  <2>2. HubRowsInv'
    BY <1>2 DEF Mcp!EditRow, HubRowsInv
  <2>3. \A tools, k : LoadedUnder(tools, k) => LoadedUnder(tools, k)'
    BY <2>1, LoadedStays
  <2>4. CacheInv'
    BY <2>1, <2>3 DEF CacheInv
  <2>5. ToolRunInv'
    BY <2>1 DEF ToolRunInv
  <2>6. ToolGivenInv'
    BY <2>1, <2>3 DEF ToolGivenInv, Mcp!Key, Mcp!Scope, Mcp!Fingerprint
  <2> QED BY <2>1, <2>2, <2>4, <2>5, <2>6
<1>3. ASSUME NEW r \in ToolRuns, Mcp!Lookup(r) PROVE ToolInv'
  <2>1. UNCHANGED <<row, edits, authz, cache, now>> /\ run[r].at = "resolved"
    BY <1>3 DEF Mcp!Lookup
  <2>2. HubRowsInv'
    BY <2>1 DEF HubRowsInv
  <2>3. DOMAIN run' = ToolRuns /\ \A x \in ToolRuns \ {r} : run'[x] = run[x]
    BY <1>3 DEF Mcp!Lookup, Mcp!Obtains, ToolRunInv
  <2>4. DOMAIN run'[r] = RunFields /\ run'[r].conns = run[r].conns /\ run'[r].user = run[r].user
        /\ run'[r].asked = now
    BY <1>3 DEF Mcp!Lookup, Mcp!Obtains, ToolRunInv, RunFields
  <2>5. \/ run'[r].at = "loading" /\ run'[r].tools = run[r].tools
        \/ run'[r].at = "done" /\ run'[r].tools = <<>> /\ run'[r].since = now
        \/ /\ run'[r].at = "done" /\ Mcp!Key(r) \in DOMAIN cache /\ cache[Mcp!Key(r)].expires > now
           /\ run'[r].tools = cache[Mcp!Key(r)].tools /\ run'[r].since = cache[Mcp!Key(r)].since
    BY <1>3 DEF Mcp!Lookup, Mcp!Obtains, ToolRunInv, RunFields
  <2>6. \A tools, k : LoadedUnder(tools, k) => LoadedUnder(tools, k)'
    <3>1. \A q \in ToolRuns : run[q].at = "done" => run'[q] = run[q]
      BY <2>1, <2>3
    <3> QED BY <2>1, <3>1, LoadedStays
  <2>7. CacheInv'
    BY <2>1, <2>6 DEF CacheInv
  <2>8. ToolGivenInv'
    <3>1. \A x \in ToolRuns : Mcp!Key(x)' = Mcp!Key(x)
      BY <2>1, <2>3, <2>4 DEF Mcp!Key, Mcp!Scope, Mcp!Fingerprint
    <3>2. run[r].tools = <<>>
      BY <2>1 DEF ToolRunInv
    <3>3. run'[r].tools # <<>> => LoadedUnder(run'[r].tools, Mcp!Key(r))
      BY <2>5, <3>2 DEF CacheInv
    <3>4. \A x \in ToolRuns : run'[x].tools # <<>> => LoadedUnder(run'[x].tools, Mcp!Key(x))
      BY <2>3, <3>3 DEF ToolGivenInv
    <3> QED BY <2>6, <3>1, <3>4 DEF ToolGivenInv
  <2>9. ToolRunInv'
    <3>2. run'[r].at \in {"loading", "done"} /\ (run'[r].at # "done" => run'[r].tools = <<>>)
      BY <2>1, <2>5 DEF ToolRunInv
    <3>3. run'[r].at = "done" /\ run'[r].since < now => now < run'[r].since + Ttl
      <4>1. CASE run'[r].since = now
        BY <4>1
      <4>2. CASE Mcp!Key(r) \in DOMAIN cache /\ cache[Mcp!Key(r)].expires > now
                 /\ run'[r].since = cache[Mcp!Key(r)].since
        BY <4>2 DEF CacheInv, ToolDeployment
      <4> QED BY <2>5, <4>1, <4>2
    <3> QED BY <2>1, <2>3, <2>4, <3>2, <3>3 DEF ToolRunInv
  <2> QED BY <2>1, <2>2, <2>7, <2>8, <2>9
<1>4. ASSUME NEW r \in ToolRuns, NEW u \in ToolUsers, NEW outage \in BOOLEAN, Mcp!Resolve(r, u, outage)
      PROVE  ToolInv'
  <2> DEFINE mine == IF outage THEN Mcp!NoRow ELSE row[u]
  <2>1. UNCHANGED <<row, edits, authz, cache, now>> /\ run[r].at = "idle"
    BY <1>4 DEF Mcp!Resolve
  <2>2. HubRowsInv' /\ mine \in Mcp!HubRows(u)
    BY <2>1 DEF HubRowsInv, Mcp!HubRows
  <2>3. DOMAIN run' = ToolRuns /\ \A x \in ToolRuns \ {r} : run'[x] = run[x]
    BY <1>4 DEF Mcp!Resolve, ToolRunInv
  <2>4. DOMAIN run'[r] = RunFields /\ run'[r].at = "resolved" /\ run'[r].tools = run[r].tools
        /\ run'[r].asked = run[r].asked /\ run'[r].user = u /\ run'[r].conns = Mcp!Connections(mine)
    BY <1>4 DEF Mcp!Resolve, ToolRunInv, RunFields
  <2> HIDE DEF mine
  <2>5. run[r].tools = <<>>
    BY <2>1 DEF ToolRunInv
  <2>6. \A s \in DOMAIN run'[r].conns : run'[r].conns[s].auth \in {"none", run'[r].user}
    BY <2>2, <2>4, ResolvedOwn
  <2>7. \A tools, k : LoadedUnder(tools, k) => LoadedUnder(tools, k)'
    <3>1. \A q \in ToolRuns : run[q].at = "done" => run'[q] = run[q]
      BY <2>1, <2>3
    <3> QED BY <2>1, <3>1, LoadedStays
  <2>8. CacheInv'
    BY <2>1, <2>7 DEF CacheInv
  <2>9. ToolGivenInv'
    <3>1. \A x \in ToolRuns \ {r} : Mcp!Key(x)' = Mcp!Key(x)
      BY <2>1, <2>3 DEF Mcp!Key, Mcp!Scope, Mcp!Fingerprint
    <3>2. \A x \in ToolRuns \ {r} : run'[x].tools # <<>> => LoadedUnder(run'[x].tools, Mcp!Key(x))
      BY <2>3 DEF ToolGivenInv
    <3> QED BY <2>4, <2>5, <2>7, <3>1, <3>2 DEF ToolGivenInv
  <2>10. ToolRunInv'
    BY <2>1, <2>3, <2>4, <2>5, <2>6 DEF ToolRunInv
  <2> QED BY <2>1, <2>2, <2>8, <2>9, <2>10
<1>5. ASSUME NEW r \in ToolRuns, NEW up, Mcp!Loaded(r, up) PROVE ToolInv'
  <2>0. PICK tools : tools = Mcp!Exposed(Mcp!Offered(r, up))
    OBVIOUS
  <2>1. UNCHANGED <<row, edits, authz, now>> /\ run[r].at = "loading"
    BY <1>5 DEF Mcp!Loaded
  <2>2. GoodTools(tools, run[r].conns, run[r].user)
    BY <2>0, LoadedGood
  <2>3. DOMAIN run' = ToolRuns /\ \A x \in ToolRuns \ {r} : run'[x] = run[x]
    BY <1>5 DEF Mcp!Loaded, ToolRunInv
  <2>4. /\ DOMAIN run'[r] = RunFields /\ run'[r].at = "done" /\ run'[r].tools = tools
        /\ run'[r].asked = run[r].asked /\ run'[r].since = run[r].asked
        /\ run'[r].conns = run[r].conns /\ run'[r].user = run[r].user
    BY <1>5, <2>0 DEF Mcp!Loaded, ToolRunInv, RunFields
  <2>5. \A k \in DOMAIN cache' :
          \/ /\ k = Mcp!Key(r)
             /\ cache'[k] = [expires |-> run[r].asked + Ttl, tools |-> tools, since |-> run[r].asked]
          \/ k \in DOMAIN cache /\ cache'[k] = cache[k]
    BY <1>5, <2>0 DEF Mcp!Loaded, Mcp!Expires
  <2>6. \A x \in ToolRuns : Mcp!Key(x)' = Mcp!Key(x)
    BY <2>1, <2>3, <2>4 DEF Mcp!Key, Mcp!Scope, Mcp!Fingerprint
  <2>7. LoadedUnder(tools, Mcp!Key(r))'
    <3>1. Mcp!Key(r)' = Mcp!Key(r) /\ run'[r].at = "done"
      BY <2>4, <2>6
    <3>2. GoodTools(tools, run'[r].conns, run'[r].user)
      BY <2>2, <2>4
    <3> QED BY <3>1, <3>2 DEF LoadedUnder, GoodTools
  <2>8. \A ts, k : LoadedUnder(ts, k) => LoadedUnder(ts, k)'
    <3>1. \A q \in ToolRuns : run[q].at = "done" => run'[q] = run[q]
      BY <2>1, <2>3
    <3> QED BY <2>1, <3>1, LoadedStays
  <2>9. CacheInv'
    <3> SUFFICES ASSUME NEW k \in DOMAIN cache'
                 PROVE  /\ cache'[k].since \in 0 .. now /\ cache'[k].expires = cache'[k].since + Ttl
                        /\ LoadedUnder(cache[k].tools, k)'
      BY <2>1 DEF CacheInv
    <3>2. CASE k = Mcp!Key(r) /\ cache'[k] = [expires |-> run[r].asked + Ttl, tools |-> tools,
                                              since |-> run[r].asked]
      <4>1. LoadedUnder(cache[k].tools, k)'
        BY <2>6, <2>7, <3>2
      <4> QED BY <2>1, <3>2, <4>1 DEF ToolRunInv
    <3>3. CASE k \in DOMAIN cache /\ cache'[k] = cache[k]
      BY <2>1, <2>8, <3>3 DEF CacheInv
    <3> QED BY <2>5, <3>2, <3>3
  <2>10. ToolGivenInv'
    <3>1. \A x \in ToolRuns \ {r} : run'[x].tools # <<>> => LoadedUnder(run'[x].tools, Mcp!Key(x))
      BY <2>3 DEF ToolGivenInv
    <3>2. LoadedUnder(run[r].tools, Mcp!Key(r))'
      BY <2>4, <2>7
    <3> QED BY <2>6, <2>8, <3>1, <3>2 DEF ToolGivenInv
  <2>11. ToolRunInv'
    <3>2. run[r].asked \in 0 .. now /\ ~(run[r].asked < run[r].asked)
      BY DEF ToolRunInv
    <3> QED BY <2>1, <2>3, <2>4, <3>2 DEF ToolRunInv
  <2>12. HubRowsInv'
    BY <2>1 DEF HubRowsInv
  <2> QED BY <2>1, <2>9, <2>10, <2>11, <2>12
<1>6. CASE UNCHANGED Mcp!vars
  <2>1. UNCHANGED <<row, edits, authz, cache, now, run>>
    BY <1>6 DEF Mcp!vars
  <2>2. \A tools, k : LoadedUnder(tools, k) => LoadedUnder(tools, k)'
    BY <2>1, LoadedStays
  <2>3. CacheInv'
    BY <2>1, <2>2 DEF CacheInv
  <2>4. ToolRunInv' /\ HubRowsInv'
    BY <2>1 DEF ToolRunInv, HubRowsInv
  <2>5. ToolGivenInv'
    BY <2>1, <2>2 DEF ToolGivenInv, Mcp!Key, Mcp!Scope, Mcp!Fingerprint
  <2> QED BY <2>1, <2>3, <2>4, <2>5
<1> QED BY <1>1, <1>2, <1>3, <1>4, <1>5, <1>6 DEF Mcp!Next

(* The tools a run was given are of what it resolved, but for the sessions. *)
LEMMA GivenAsResolved ==
  ASSUME ToolInv, NEW r \in ToolRuns, NEW i \in DOMAIN run[r].tools, NEW t, t = run[r].tools[i]
  PROVE  /\ t.server \in DOMAIN run[r].conns
         /\ t.url = run[r].conns[t.server].url
         /\ Mcp!Allowed(t, run[r].conns[t.server].allow)
         /\ \E q \in ToolRuns :
              /\ Mcp!Fingerprint(run[q].conns) = Mcp!Fingerprint(run[r].conns)
              /\ t.user = run[q].user /\ t.auth = run[q].conns[t.server].auth
         /\ authz => t.user = run[r].user /\ t.auth \in {"none", run[r].user}
         /\ \A j \in DOMAIN run[r].tools : run[r].tools[i].name = run[r].tools[j].name => i = j
<1>1. run[r].tools # <<>>
  OBVIOUS
<1>2. PICK q \in ToolRuns : /\ Mcp!Key(q) = Mcp!Key(r)
                            /\ GoodTools(run[r].tools, run[q].conns, run[q].user)
  BY <1>1 DEF ToolInv, ToolGivenInv, LoadedUnder
<1>3. /\ t.server \in DOMAIN run[q].conns
      /\ t.url = run[q].conns[t.server].url /\ t.auth = run[q].conns[t.server].auth
      /\ Mcp!Allowed(t, run[q].conns[t.server].allow) /\ t.user = run[q].user
      /\ \A j \in DOMAIN run[r].tools : run[r].tools[i].name = run[r].tools[j].name => i = j
  BY <1>2 DEF GoodTools
<1>4. Mcp!Fingerprint(run[q].conns) = Mcp!Fingerprint(run[r].conns) /\ (authz => run[q].user = run[r].user)
  BY <1>2 DEF Mcp!Key, Mcp!Scope
<1>5. \A conns : /\ DOMAIN Mcp!Fingerprint(conns) = DOMAIN conns
                 /\ \A s \in DOMAIN conns : Mcp!Fingerprint(conns)[s] = [url |-> conns[s].url, allow |-> conns[s].allow]
  BY DEF Mcp!Fingerprint
<1>6. /\ t.server \in DOMAIN run[r].conns
      /\ run[r].conns[t.server].url = run[q].conns[t.server].url
      /\ run[r].conns[t.server].allow = run[q].conns[t.server].allow
  <2>1. DOMAIN run[r].conns = DOMAIN run[q].conns
    BY <1>4, <1>5
  <2>2. [url |-> run[r].conns[t.server].url, allow |-> run[r].conns[t.server].allow]
          = [url |-> run[q].conns[t.server].url, allow |-> run[q].conns[t.server].allow]
    <3>1. t.server \in DOMAIN run[q].conns /\ t.server \in DOMAIN run[r].conns
      BY <1>3, <2>1
    <3>2. Mcp!Fingerprint(run[r].conns)[t.server]
            = [url |-> run[r].conns[t.server].url, allow |-> run[r].conns[t.server].allow]
      BY <3>1, <1>5, Zenon
    <3>3. Mcp!Fingerprint(run[q].conns)[t.server]
            = [url |-> run[q].conns[t.server].url, allow |-> run[q].conns[t.server].allow]
      BY <3>1, <1>5, Zenon
    <3> QED BY <1>4, <3>2, <3>3
  <2> QED BY <1>3, <2>1, <2>2
<1>7. authz => t.auth \in {"none", run[r].user}
  BY <1>3, <1>4 DEF ToolInv, ToolRunInv
<1> QED BY <1>3, <1>4, <1>6, <1>7

(* McpLoader: whatever users edit, servers fail and time passes while a run    *)
(* resolves its servers, looks into the cache and loads, it is given the tools *)
(* of the endpoints it resolved that their allowlists admit, with the session  *)
(* of a run that resolved the same endpoints, of its own user where tools are  *)
(* authorized, less than a time to live old and with no two of one name, for   *)
(* every catalogue, deployment and number of runs.                             *)
THEOREM ToolsAreAsResolved ==
  ASSUME ToolDeployment
  PROVE  Mcp!Spec => [](Mcp!TypeOK /\ Mcp!ToolsAsResolved /\ Mcp!ToolsFresh /\ Mcp!NamesUnique)
<1>1. ToolInv => Mcp!ToolsAsResolved /\ Mcp!ToolsFresh /\ Mcp!NamesUnique
  <2>1. ToolInv => Mcp!ToolsAsResolved
    BY GivenAsResolved DEF Mcp!ToolsAsResolved
  <2>2. ToolInv => Mcp!ToolsFresh
    BY DEF ToolInv, ToolRunInv, Mcp!ToolsFresh
  <2>3. ToolInv => Mcp!NamesUnique
    BY GivenAsResolved DEF Mcp!NamesUnique
  <2> QED BY <2>1, <2>2, <2>3
<1>2. ToolInv => Mcp!TypeOK
  <2> SUFFICES ASSUME ToolInv PROVE Mcp!TypeOK
    OBVIOUS
  <2>1. \A k \in DOMAIN cache : cache[k].expires \in 0 .. ToolTime + Ttl /\ cache[k].since \in 0 .. ToolTime
    BY DEF ToolInv, CacheInv, ToolDeployment
  <2>2. \A r \in ToolRuns :
          /\ run[r].at \in {"idle", "resolved", "loading", "done"}
          /\ \A i \in DOMAIN run[r].tools : run[r].tools[i].server \in DOMAIN run[r].conns
    BY GivenAsResolved DEF ToolInv, ToolRunInv
  <2> QED BY <2>1, <2>2 DEF ToolInv, HubRowsInv, Mcp!TypeOK
<1> QED BY <1>1, <1>2, ToolFirst, ToolStep, PTL DEF Mcp!Spec
=============================================================================
