--------------------------- MODULE ShoppingAgent ---------------------------
(* The customer's agent (graphs/shopping_agent) on the carts of the shop       *)
(* backend (shop/backends.py).  A run passes initialize and classify, then one *)
(* of shop, policy, order_agent and chat, and ends in extract_memory; shop and *)
(* tools alternate while the model calls tools.  As in MerchantAgent a pass    *)
(* over the tools of a message is one step, and the run that answers an        *)
(* interrupt executes all of them again.  Prompts, presentations and order     *)
(* lookups, which change nothing that is shared, are left out.                 *)
EXTENDS Naturals, Sequences, FiniteSets, SequencesExt

CONSTANTS
  Sessions,      \* threads of one customer, who has one cart
  Products,
  Quantities,    \* quantities the model asks for, 0 among them
  MaxQuantity,   \* Context.max_quantity_per_line
  MaxLines,      \* Context.max_cart_lines
  Limits,        \* values of a run's recursion_limit
  MaxCalls,      \* bound: tool calls in a message
  MaxItems       \* bound: items in the cart when the model adds more

VARIABLES
  cart,       \* cart[p]: the quantity of the line of p, 0 without a line
  session,    \* session[s]: the thread's state and where its run is
  \* History, read by the properties only:
  added,      \* added[p]: what the agent's answers said was added
  unanswered, \* products added by a pass over the tools that left no answer
  unasked     \* a customer was handed off without a yes to a cart shown

vars == <<cart, session, added, unanswered, unasked>>

Nodes == {"initialize", "classify", "shop", "tools", "other", "extract_memory"}
NoProduct == "none"
Lines(c) == Cardinality({p \in Products : c[p] > 0})
Nothing == [p \in Products |-> 0]
Items(c) == LET Plus(n, p) == n + c[p] IN FoldLeft(Plus, 0, SetToSeq(Products))

---------------------------------------------------------------------------
(* gates.py *)

check_provenance(seen, p) == p \in seen

check_quantity(quantity) == 0 < quantity /\ quantity <= MaxQuantity

check_cart_size(lines) == lines < MaxLines

Replaced(c, p, quantity) == [c EXCEPT ![p] = quantity]
(* add_to_cart of the backend: the line of the product grows, or is new. *)
Grown(c, p, quantity) == [c EXCEPT ![p] = @ + quantity]

EmptyCart(c) == Lines(c) = 0

Approves(answer) == answer = "yes"

---------------------------------------------------------------------------
(* The tools, on a pass w over the tools node (see MerchantAgent).  add_to_cart *)
(* and get_cart both write the session's cart channel.                         *)

interrupt(w) ==
  IF w.asks < Len(w.resume) THEN [answer |-> w.resume[w.asks + 1], w |-> [w EXCEPT !.asks = @ + 1]]
  ELSE [answer |-> w.answer,
        w |-> [w EXCEPT !.asks = @ + 1, !.answer = "none",
                        !.resume = IF w.answer = "none" THEN @ ELSE Append(@, w.answer)]]

search_products(w, c) == [w EXCEPT !.seen = @ \cup {c.product}]

get_cart(w) == [w EXCEPT !.snapshots = @ + 1]

add_to_cart(ses, w, c) ==
  IF /\ check_provenance(ses.seen, c.product)
     /\ check_quantity(c.quantity)
     /\ check_cart_size(Lines(w.cart))
  THEN [w EXCEPT !.cart = Grown(@, c.product, c.quantity), !.snapshots = @ + 1,
                 !.added[c.product] = @ + c.quantity]
  ELSE w

checkout(w) ==
  LET asked == interrupt(w) IN
  IF EmptyCart(w.cart) THEN w
  ELSE IF asked.answer = "none"
  THEN [asked.w EXCEPT !.stops = TRUE, !.shown = IF w.stops THEN @ ELSE w.cart]
  ELSE [asked.w EXCEPT !.handed = @ \/ Approves(asked.answer)]

Tool(ses, w, c) ==
  CASE c.tool = "search" -> search_products(w, c)
    [] c.tool = "get_cart" -> get_cart(w)
    [] c.tool = "add" -> add_to_cart(ses, w, c)
    [] c.tool = "checkout" -> checkout(w)

ToolNode(s) ==
  LET ses == session[s]
      start == [cart |-> cart, resume |-> ses.resume, answer |-> ses.answer, asks |-> 0,
                seen |-> ses.seen, snapshots |-> 0, added |-> Nothing, stops |-> FALSE,
                shown |-> ses.shown, handed |-> FALSE]
      pass[i \in 0..Len(ses.calls)] ==
        IF i = 0 THEN start ELSE Tool(ses, pass[i - 1], ses.calls[i])
  IN pass[Len(ses.calls)]

Calls ==
  {[tool |-> "search", product |-> p, quantity |-> 0] : p \in Products} \cup
  {[tool |-> "add", product |-> p, quantity |-> n] : p \in Products, n \in Quantities} \cup
  {[tool |-> t, product |-> NoProduct, quantity |-> 0] : t \in {"get_cart", "checkout"}}
Messages == UNION {[1..n -> Calls] : n \in 1..MaxCalls}

---------------------------------------------------------------------------
Fresh == [at |-> "idle", seen |-> {}, calls |-> <<>>, resume |-> <<>>, answer |-> "none",
          shown |-> Nothing, left |-> 0]

Ended(ses) == [Fresh EXCEPT !.seen = ses.seen]

Init ==
  /\ cart = Nothing
  /\ session = [s \in Sessions |-> Fresh]
  /\ added = Nothing
  /\ unanswered = {}
  /\ unasked = FALSE

(* A run with input; a paused task is dropped. *)
Start(s, limit) ==
  /\ session[s].at \in {"idle", "paused"}
  /\ session' = [session EXCEPT ![s] = [Ended(@) EXCEPT !.at = "initialize", !.left = limit - 1]]
  /\ UNCHANGED <<cart, added, unanswered, unasked>>

(* The customer answers the checkout that the paused run shows. *)
Answer(s, answer, limit) ==
  /\ session[s].at = "paused"
  /\ session' = [session EXCEPT ![s].at = "tools", ![s].answer = answer, ![s].left = limit + 1]
  /\ UNCHANGED <<cart, added, unanswered, unasked>>

(* A node executes only while the run has a step left. *)
Steps(s, from, to) ==
  /\ session[s].at = from /\ session[s].left > 0
  /\ session' = [session EXCEPT ![s].at = to, ![s].left = @ - 1]
  /\ UNCHANGED <<cart, added, unanswered, unasked>>

Initialize(s) == Steps(s, "initialize", "classify")

route_after_classify(s) == Steps(s, "classify", "shop") \/ Steps(s, "classify", "other")

Other(s) == Steps(s, "other", "extract_memory")

(* A tool call needs this step and two more, says the node. *)
OutOfSteps(left) == left < 3

route_after_shop(calls) == IF calls # <<>> THEN "tools" ELSE "extract_memory"

Shop(s) ==
  /\ session[s].at = "shop" /\ session[s].left > 0
  /\ \E batch \in {<<>>} \cup Messages :
       LET calls == IF OutOfSteps(session[s].left) THEN <<>> ELSE batch IN
       /\ calls # <<>> => Items(cart) < MaxItems
       /\ session' = [session EXCEPT ![s].at = route_after_shop(calls), ![s].calls = calls,
                                     ![s].left = @ - 1]
  /\ UNCHANGED <<cart, added, unanswered, unasked>>

(* History: a pass that leaves no answer, and a pass that hands off after a yes *)
(* to a cart that was shown and of which nothing is missing.                   *)
LeavesNoAnswer(w) ==
  /\ unanswered' = unanswered \cup {p \in Products : w.added[p] > 0}
  /\ UNCHANGED added
Consented(ses, w) ==
  /\ "yes" \in Range(w.resume)
  /\ Lines(ses.shown) > 0
  /\ \A p \in Products : ses.shown[p] <= w.cart[p]

(* What the tools did to the cart stays.  The answers and the updates of the   *)
(* session are written only if no tool asks, and the plain cart channel takes  *)
(* one value in a step: two end the run with an error.                         *)
Tools(s) ==
  LET w == ToolNode(s)
      ses == session[s]
  IN /\ ses.at = "tools" /\ ses.left > 0
     /\ cart' = w.cart
     /\ \/ /\ w.stops
           /\ session' = [session EXCEPT ![s] =
                            [ses EXCEPT !.at = "paused", !.shown = w.shown, !.resume = w.resume,
                                        !.answer = "none", !.left = 0]]
           /\ LeavesNoAnswer(w)
        \/ /\ ~w.stops /\ w.snapshots > 1
           /\ session' = [session EXCEPT ![s] = Ended(@)]
           /\ LeavesNoAnswer(w)
        \/ /\ ~w.stops /\ w.snapshots <= 1
           /\ session' = [session EXCEPT ![s] =
                            [Ended(ses) EXCEPT !.at = "shop", !.seen = w.seen, !.left = ses.left - 1]]
           /\ added' = [p \in Products |-> added[p] + w.added[p]]
           /\ UNCHANGED unanswered
     /\ unasked' = (unasked \/ (w.handed /\ ~Consented(ses, w)))

(* extract_memory ends the run; what it saves is PreferenceMemory's. *)
ExtractMemory(s) ==
  /\ session[s].at = "extract_memory" /\ session[s].left > 0
  /\ session' = [session EXCEPT ![s] = Ended(@)]
  /\ UNCHANGED <<cart, added, unanswered, unasked>>

(* A run that reaches a node without a step left ends with an error. *)
Dies(s) ==
  /\ session[s].at \in Nodes /\ session[s].left = 0
  /\ session' = [session EXCEPT ![s] = Ended(@)]
  /\ UNCHANGED <<cart, added, unanswered, unasked>>

Next ==
  \E s \in Sessions :
    \/ Initialize(s) \/ route_after_classify(s) \/ Other(s) \/ Shop(s) \/ Tools(s)
    \/ ExtractMemory(s) \/ Dies(s)
    \/ \E limit \in Limits :
         Start(s, limit) \/ \E answer \in {"yes", "no"} : Answer(s, answer, limit)

Spec == Init /\ [][Next]_vars

---------------------------------------------------------------------------
(* The types of the cart and of a session: no empty cart is shown for checkout. *)
TypeOK ==
  /\ cart \in [Products -> Nat]
  /\ \A s \in Sessions :
       /\ session[s].at \in Nodes \cup {"idle", "paused"}
       /\ session[s].seen \subseteq Products
       /\ session[s].left \in Nat
       /\ session[s].at = "paused" => Lines(session[s].shown) > 0

(* The cart holds what the agent's answers said was added, whichever sessions  *)
(* of the customer added it and however their runs interleave.  It holds more  *)
(* only of a product that a pass over the tools added and gave no answer for:  *)
(* one that stopped to ask, so that it runs again, or that ended in an error.  *)
CartAsAnswered ==
  \A p \in Products : added[p] <= cart[p] /\ (p \notin unanswered => cart[p] = added[p])

(* The cart never has more lines than the configured number. *)
CartSize == Lines(cart) <= MaxLines

(* The customer is handed off to checkout only after a yes, given to a cart    *)
(* that was shown and that is still in the cart handed off.  The cart may have *)
(* grown since: by another session, or by an add that runs again with the      *)
(* checkout of its message.                                                    *)
HandoffApproved == ~unasked

(* A run whose limit reaches shop is not stopped by it at shop or at tools: it *)
(* can end there only before extract_memory, for which the guard of shop       *)
(* leaves no step.                                                             *)
ToolsFollowedUp == \A s \in Sessions : session[s].at \in {"shop", "tools"} => session[s].left > 0
=============================================================================
