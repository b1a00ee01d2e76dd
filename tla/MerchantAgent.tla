--------------------------- MODULE MerchantAgent ---------------------------
(* The staff agent (graphs/merchant_agent) on the staged changes of the shop   *)
(* backend (shop/backends.py).  A session is a thread of the agent: a turn is  *)
(* a run that alternates the model's node and the tools node until the model   *)
(* calls no tool.  The tools of one message run in the tools node together.    *)
(* An interrupt ends the run there; the answer is a run of its own, which      *)
(* executes the node again from the start, every call of it.  No await of the  *)
(* demo backend suspends, so a pass over the tools is one step.  Text,         *)
(* predict_price and the syntax of analytics queries are left out.             *)
EXTENDS Integers, Sequences, FiniteSets, SequencesExt

CONSTANTS
  Sessions,
  User,          \* User[s]: the staff user of a session
  Products,
  FirstPrice,    \* every product's price in the demo catalogue
  NewPrices,     \* prices the model asks for, 0 among them
  Caps,          \* values of Context.max_price_move_pct
  MaxAnalytics,  \* Context.analytics_max_calls_per_turn
  Limits,        \* values of a run's recursion_limit
  MaxCalls,      \* bound: tool calls in a message
  MaxChanges     \* bound: changes staged

VARIABLES
  price,      \* the backend's catalogue
  changes,    \* the backend's staged changes, by number
  session,    \* session[s]: the thread's state and where its run is
  \* History, read by the properties only:
  applied,    \* the changes in the order they were applied, with the cap in force
  approved,   \* changes whose last answer was yes, given while they were shown
  lost        \* changes staged by a pass over the tools that left no id of them

vars == <<price, changes, session, applied, approved, lost>>

NoProduct == "none"
Proceed == [why |-> "none", change |-> 0]

---------------------------------------------------------------------------
(* gates.py *)

Distance(old, new) == IF new > old THEN new - old ELSE old - new
check_price_move(old, new, cap) == new > 0 /\ Distance(old, new) * 100 <= cap * old

RechecksNever(ch, cap) == TRUE
(* apply_change checks the staged move again, with the cap in force now. *)
Rechecks(ch, cap) == check_price_move(ch.old, ch.new, cap)

(* The backend's _find_change: a pending change of the user. *)
Pending(all, user, id) == id \in DOMAIN all /\ all[id].user = user /\ all[id].status = "pending"

AsApplied(ch) == [ch EXCEPT !.status = "applied"]

ApprovesAnyAnswer(answer) == answer \in {"yes", "no"}
Approves(answer) == answer = "yes"

(* stage_price_change of the backend: the change holds the price it moves from. *)
Staged(user, w, c) ==
  Append(w.changes, [user |-> user, target |-> c.product, old |-> w.price[c.product],
                     new |-> c.price, status |-> "pending"])

NewId(all) == {Len(all)}

---------------------------------------------------------------------------
(* The tools.  w is a pass over the tools node: the backend, the answers that  *)
(* the node's interrupts have had (resume), the answer of this run until an    *)
(* interrupt takes it, the interrupts reached, the updates of the session and  *)
(* the exception that comes first.  A tool reads the session as it was when    *)
(* the node began.                                                             *)

Stops(w, why, id) == IF w.stop = Proceed THEN [w EXCEPT !.stop = [why |-> why, change |-> id]] ELSE w

(* interrupt(): the n-th interrupt of a node takes the n-th answer the node    *)
(* has had, the next one takes the answer of this run, and otherwise it stops. *)
interrupt(w) ==
  IF w.asks < Len(w.resume) THEN [answer |-> w.resume[w.asks + 1], w |-> [w EXCEPT !.asks = @ + 1]]
  ELSE [answer |-> w.answer,
        w |-> [w EXCEPT !.asks = @ + 1, !.answer = "none",
                        !.resume = IF w.answer = "none" THEN @ ELSE Append(@, w.answer)]]

get_listing(ses, w, c) == [w EXCEPT !.seen = @ \cup {c.product}]

stage_price_change(s, ses, w, c) ==
  IF /\ c.product \in ses.seen
     /\ check_price_move(w.price[c.product], c.price, ses.cap)
  THEN LET all == Staged(User[s], w, c) IN [w EXCEPT !.changes = all, !.staged = @ \cup NewId(all)]
  ELSE w

(* History: at most one call of the message applies a change. *)
Alone(calls) ==
  \A i, j \in DOMAIN calls : calls[i].tool = "apply" /\ calls[j].tool = "apply" => i = j

apply_change(s, ses, w, c) ==
  LET ch == w.changes[c.change]
      asked == interrupt(w)
  IN IF \/ c.change \notin ses.staged
        \/ ~Pending(w.changes, User[s], c.change)
        \/ ~Rechecks(ch, ses.cap)
     THEN w
     ELSE IF asked.answer = "none" THEN Stops(asked.w, "asks", c.change)
     ELSE IF ~Approves(asked.answer) THEN asked.w
     ELSE [asked.w EXCEPT !.price[ch.target] = ch.new,
                          !.changes[c.change] = AsApplied(ch),
                          !.applied = Append(@, [change |-> c.change, cap |-> ses.cap,
                                                 alone |-> Alone(ses.calls)])]

(* discard_change of a change that is no longer pending raises KeyError. *)
discard_change(s, ses, w, c) ==
  IF c.change \notin ses.staged THEN w
  ELSE IF ~Pending(w.changes, User[s], c.change) THEN Stops(w, "fails", c.change)
  ELSE [w EXCEPT !.changes[c.change].status = "discarded"]

analytics_query(ses, w) ==
  IF ses.analytics >= MaxAnalytics THEN w ELSE [w EXCEPT !.queries = @ + 1]

Tool(s, ses, w, c) ==
  CASE c.tool = "get_listing" -> get_listing(ses, w, c)
    [] c.tool = "stage" -> stage_price_change(s, ses, w, c)
    [] c.tool = "apply" -> apply_change(s, ses, w, c)
    [] c.tool = "discard" -> discard_change(s, ses, w, c)
    [] c.tool = "analytics" -> analytics_query(ses, w)

ToolNode(s) ==
  LET ses == session[s]
      start == [price |-> price, changes |-> changes, applied |-> applied,
                resume |-> ses.resume, answer |-> ses.answer, asks |-> 0,
                seen |-> ses.seen, staged |-> ses.staged, queries |-> 0, stop |-> Proceed]
      pass[i \in 0..Len(ses.calls)] ==
        IF i = 0 THEN start ELSE Tool(s, ses, pass[i - 1], ses.calls[i])
  IN pass[Len(ses.calls)]

(* The calls a model may make: ids it has not seen among them. *)
Calls ==
  {[tool |-> "get_listing", product |-> p, price |-> 0, change |-> 0] : p \in Products} \cup
  {[tool |-> "stage", product |-> p, price |-> n, change |-> 0] : p \in Products, n \in NewPrices} \cup
  {[tool |-> t, product |-> NoProduct, price |-> 0, change |-> i] :
     t \in {"apply", "discard"}, i \in 1..MaxChanges} \cup
  {[tool |-> "analytics", product |-> NoProduct, price |-> 0, change |-> 0]}

Stages(batch) == Cardinality({i \in DOMAIN batch : batch[i].tool = "stage"})
Messages == {batch \in UNION {[1..n -> Calls] : n \in 1..MaxCalls} :
               Len(changes) + Stages(batch) <= MaxChanges}

---------------------------------------------------------------------------
Fresh == [at |-> "idle", seen |-> {}, staged |-> {}, analytics |-> 0, calls |-> <<>>,
          resume |-> <<>>, answer |-> "none", asked |-> 0, cap |-> 0, left |-> 0]

(* What a run leaves behind: the channels of the thread. *)
Ended(ses) ==
  [ses EXCEPT !.at = "idle", !.calls = <<>>, !.resume = <<>>, !.answer = "none",
              !.cap = 0, !.left = 0]

Init ==
  /\ price = [p \in Products |-> FirstPrice]
  /\ changes = <<>>
  /\ session = [s \in Sessions |-> Fresh]
  /\ applied = <<>> /\ approved = {} /\ lost = {}

(* A run with input: it begins at the model's node with its own context; the   *)
(* entry of the graph has taken a step.  The input has messages only, so the   *)
(* other channels keep their values; a task that was paused is dropped.        *)
Start(s, cap, limit) ==
  /\ session[s].at \in {"idle", "paused"}
  /\ session' = [session EXCEPT ![s].at = "merchant", ![s].cap = cap, ![s].left = limit - 1,
                                ![s].calls = <<>>, ![s].resume = <<>>, ![s].answer = "none",
                                ![s].asked = 0]
  /\ UNCHANGED <<price, changes, applied, approved, lost>>

(* The staff user answers what the paused run shows: a run that resumes at the *)
(* tools node, without the two steps that input and entry take.                *)
Answer(s, answer, cap, limit) ==
  /\ session[s].at = "paused"
  /\ session' = [session EXCEPT ![s].at = "tools", ![s].cap = cap, ![s].left = limit + 1,
                                ![s].answer = answer, ![s].asked = 0]
  /\ approved' = IF answer = "yes" THEN approved \cup {session[s].asked}
                                   ELSE approved \ {session[s].asked}
  /\ UNCHANGED <<price, changes, applied, lost>>

(* A tool call needs this step and two more. *)
OutOfSteps(left) == left < 3

(* The model answers without tools, or with some; with too few steps left its  *)
(* calls are replaced by a text that ends the run.                             *)
route_after_merchant(calls) == IF calls # <<>> THEN "tools" ELSE "idle"

Merchant(s) ==
  /\ session[s].at = "merchant"
  /\ \E batch \in {<<>>} \cup Messages :
       LET calls == IF OutOfSteps(session[s].left) THEN <<>> ELSE batch IN
       session' = [session EXCEPT ![s] =
                     IF route_after_merchant(calls) = "idle" THEN Ended(@)
                     ELSE [@ EXCEPT !.at = "tools", !.calls = calls, !.left = session[s].left - 1]]
  /\ UNCHANGED <<price, changes, applied, approved, lost>>

(* The tools node: what its tools do to the backend stays; the updates of the  *)
(* session are written only if no tool stops the node, and a step may write    *)
(* the plain channel analytics_calls once.                                     *)
Tools(s) ==
  LET w == ToolNode(s)
      ses == session[s]
  IN /\ ses.at = "tools"
     /\ price' = w.price /\ changes' = w.changes /\ applied' = w.applied
     /\ \/ /\ w.stop.why = "asks"
           /\ session' = [session EXCEPT ![s].at = "paused", ![s].asked = w.stop.change,
                                         ![s].resume = w.resume, ![s].answer = "none",
                                         ![s].cap = 0, ![s].left = 0]
           /\ lost' = lost \cup (w.staged \ ses.staged)
        \/ /\ w.stop.why = "fails" \/ (w.stop.why = "none" /\ w.queries > 1)
           /\ session' = [session EXCEPT ![s] = Ended(@)]
           /\ lost' = lost \cup (w.staged \ ses.staged)
        \/ /\ w.stop.why = "none" /\ w.queries <= 1
           /\ session' = [session EXCEPT ![s] =
                            [ses EXCEPT !.at = "merchant", !.seen = w.seen, !.staged = w.staged,
                                        !.analytics = ses.analytics + w.queries, !.left = ses.left - 1,
                                        !.calls = <<>>, !.resume = <<>>, !.answer = "none"]]
           /\ UNCHANGED lost
     /\ UNCHANGED approved

Next ==
  \E s \in Sessions :
    \/ Merchant(s) \/ Tools(s)
    \/ \E cap \in Caps, limit \in Limits :
         Start(s, cap, limit) \/ \E answer \in {"yes", "no"} : Answer(s, answer, cap, limit)

Spec == Init /\ [][Next]_vars

---------------------------------------------------------------------------
Change == [user : {User[s] : s \in Sessions}, target : Products, old : Nat \ {0}, new : Nat \ {0},
           status : {"pending", "applied", "discarded"}]

(* The types of the backend and of a session: no change asks for a price that  *)
(* is not positive.                                                            *)
TypeOK ==
  /\ price \in [Products -> Nat \ {0}]
  /\ \A i \in DOMAIN changes : changes[i] \in Change
  /\ \A s \in Sessions :
       /\ session[s].at \in {"idle", "merchant", "tools", "paused"}
       /\ session[s].seen \subseteq Products
       /\ session[s].staged \subseteq DOMAIN changes
       /\ session[s].analytics \in 0..MaxAnalytics
       /\ (session[s].at = "paused") = (session[s].asked # 0)

Moves(p) == {i \in DOMAIN applied : changes[applied[i].change].target = p}

(* The catalogue is explained by the changes: each applied change took effect  *)
(* once, however often the tools node was executed, the catalogue shows the    *)
(* last of them, and a change that is pending or discarded had no effect.      *)
CatalogueExplained ==
  /\ \A i, j \in DOMAIN applied : applied[i].change = applied[j].change => i = j
  /\ {applied[i].change : i \in DOMAIN applied} =
       {i \in DOMAIN changes : changes[i].status = "applied"}
  /\ \A p \in Products :
       /\ Moves(p) = {} => price[p] = FirstPrice
       /\ \A i \in Moves(p) : (\A j \in Moves(p) : j <= i) => price[p] = changes[applied[i].change].new

(* A change that was staged under a lax cap is not applied under a tighter     *)
(* one: the move that was staged is within the cap of the run that applies it. *)
AppliedWithinCap ==
  \A i \in DOMAIN applied :
    LET ch == changes[applied[i].change] IN
    Distance(ch.old, ch.new) * 100 <= applied[i].cap * ch.old

(* Every apply interrupts for approval: a change that was applied by the only  *)
(* apply call of a message had been shown to a staff user, whose last answer   *)
(* about it was yes, whatever else the message called and whatever the other   *)
(* sessions of the user did while the run was paused.  Two apply calls in a    *)
(* message may take each other's answers when they run again.                  *)
EveryApplyApproved == \A i \in DOMAIN applied : applied[i].alone => applied[i].change \in approved

(* Every pending change can still be applied or discarded: some session of its *)
(* user holds its id, unless the pass over the tools that staged it stopped to *)
(* ask or failed, which stages it again or never tells its id.                 *)
PendingReachable ==
  \A i \in DOMAIN changes \ lost :
    changes[i].status = "pending" =>
      \E s \in Sessions : User[s] = changes[i].user /\ i \in session[s].staged

(* No run dies on its recursion limit: the model's node and the tools node     *)
(* have a step left when they are reached.                                     *)
NeverOutOfSteps == \A s \in Sessions : session[s].at \in {"merchant", "tools"} => session[s].left > 0
=============================================================================
