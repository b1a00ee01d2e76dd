------------------------- MODULE PreferenceMemory -------------------------
(* A customer's long-term preferences (graphs/shared/memory.py): one item of   *)
(* the store that holds every fact of the user.  A save (a delete) reads the   *)
(* item, adds (drops) its fact and writes the item back, two calls of the      *)
(* store with an await between them.  Writers are what may run at once: the    *)
(* remember_preference calls of one message, the extract_memory node and the   *)
(* runs of the customer's other threads.  initialize loads the facts.          *)
EXTENDS Naturals

CONSTANTS
  Writers,
  Keys,
  Values,      \* values that are preferences
  Blocked,     \* texts that are empty or the write filter takes for identifiers
  Retention,   \* retention_days
  MaxTime,     \* bound: days
  MaxSaves     \* bound: saves and deletions begun

VARIABLES
  now,
  item,      \* the stored facts, or Missing
  writer,    \* writer[w]: a save or a delete between its read and its write
  loaded,    \* the facts a run's initialize node has loaded
  saves,
  \* History, read by the properties only:
  noted,     \* noted[k]: the value the customer was told will be remembered, as he was told
  undone     \* keys whose newest fact, or deletion, a writer undid that had read before

vars == <<now, item, writer, loaded, saves, noted, undone>>

NoFacts == [k \in {} |-> [value |-> "none", at |-> 0]]
Missing == [k \in {"missing"} |-> [value |-> "none", at |-> 0]]
Idle == [at |-> "idle"]

Facts(stored) == IF stored = Missing THEN NoFacts ELSE stored

With(facts, k, fact) == [x \in DOMAIN facts \cup {k} |-> IF x = k THEN fact ELSE facts[x]]

(* A key or a value as the model gives it: the text that is kept of it, and    *)
(* whether there is more to it (blanks around it, another case or blanks in a  *)
(* key, what exceeds 64 characters of a key or 200 of a value).                *)
Texts(T) == [text : T, more : BOOLEAN]
Normal(given) == given.text

(* validate_fact: an identifier is refused, by the tool and by the extraction; *)
(* what exceeds the limits is cut before the filter looks.                     *)
validate_fact(key, value) == {Normal(key), Normal(value)} \cap Blocked = {}

ExpiredNever(fact, day) == FALSE
(* load skips the facts that are older than the retention. *)
Expired(fact, day) == fact.at + Retention < day
Retained(facts, day) ==
  [k \in {x \in DOMAIN facts : ~Expired(facts[x], day)} |-> facts[k]]

Init ==
  /\ now = 0 /\ item = Missing /\ saves = 0
  /\ writer = [w \in Writers |-> Idle]
  /\ loaded = NoFacts
  /\ noted = [k \in Keys |-> {}] /\ undone = {}

(* save: validate_fact, then aget. *)
Read(w, key, value) ==
  /\ writer[w] = Idle
  /\ saves < MaxSaves
  /\ validate_fact(key, value)
  /\ writer' = [writer EXCEPT ![w] = [at |-> "save", key |-> Normal(key), value |-> value,
                                      facts |-> Facts(item)]]
  /\ saves' = saves + 1
  /\ UNCHANGED <<now, item, loaded, noted, undone>>

(* remember_preference answers that it will remember the fact, with the value  *)
(* as it was given.                                                            *)
Answered(save) == [noted EXCEPT ![save.key] = {save.value}]

(* What the writer of key writes back over what others have done since it read. *)
Differ(f, g, k) == (k \in DOMAIN f) # (k \in DOMAIN g) \/ (k \in DOMAIN f /\ f[k] # g[k])
Undone(key, facts) == (undone \ {key}) \cup {k \in Keys \ {key} : Differ(facts, Facts(item), k)}

(* save: the fact with its time, then aput of all of them. *)
Write(w) ==
  LET save == writer[w]
      facts == With(save.facts, save.key, [value |-> Normal(save.value), at |-> now])
  IN /\ save.at = "save"
     /\ item' = facts
     /\ noted' = Answered(save)
     /\ undone' = Undone(save.key, facts)
     /\ writer' = [writer EXCEPT ![w] = Idle]
     /\ UNCHANGED <<now, loaded, saves>>

(* delete: aget; without the fact there is nothing to do. The key is not       *)
(* normalised: one that is not in its normal form is of no fact.               *)
DeleteRead(w, k) ==
  /\ writer[w] = Idle
  /\ saves < MaxSaves
  /\ k \in DOMAIN Facts(item)
  /\ writer' = [writer EXCEPT ![w] = [at |-> "delete", key |-> k, value |-> "none", facts |-> item]]
  /\ saves' = saves + 1
  /\ UNCHANGED <<now, item, loaded, noted, undone>>

Without(facts, k) == [x \in DOMAIN facts \ {k} |-> facts[x]]

(* delete: aput of the other facts. *)
DeleteWrite(w) ==
  LET del == writer[w] IN
  /\ del.at = "delete"
  /\ item' = Without(del.facts, del.key)
  /\ noted' = [noted EXCEPT ![del.key] = {}]
  /\ undone' = Undone(del.key, del.facts)
  /\ writer' = [writer EXCEPT ![w] = Idle]
  /\ UNCHANGED <<now, loaded, saves>>

(* purge: adelete of the item. *)
Purge(w) ==
  /\ writer[w] = Idle
  /\ item' = Missing
  /\ noted' = [k \in Keys |-> {}]
  /\ undone' = {}
  /\ UNCHANGED <<now, writer, loaded, saves>>

(* load, by the initialize node of a run. *)
Load ==
  /\ loaded' = Retained(Facts(item), now)
  /\ UNCHANGED <<now, item, writer, saves, noted, undone>>

Tick ==
  /\ now < MaxTime
  /\ now' = now + 1
  /\ UNCHANGED <<item, writer, loaded, saves, noted, undone>>

Next ==
  \/ \E w \in Writers :
       \/ Write(w) \/ DeleteWrite(w) \/ Purge(w)
       \/ \E k \in Keys : DeleteRead(w, k)
       \/ \E key \in Texts(Keys), value \in Texts(Values \cup Blocked) : Read(w, key, value)
  \/ Load \/ Tick

Spec == Init /\ [][Next]_vars

---------------------------------------------------------------------------
(* The types of the stored item: it holds no identifier. *)
TypeOK ==
  /\ now \in 0..MaxTime
  /\ \A k \in DOMAIN Facts(item) :
       k \in Keys /\ item[k].value \in Values /\ item[k].at \in 0..now
  /\ \A k \in DOMAIN loaded : k \in Keys

(* A load gives, in its normal form, the newest fact of every key that a save  *)
(* of this customer has been answered for, and no expired or deleted one,      *)
(* however saves, deletions and purges overlap; a fact is lost, or comes back, *)
(* only by a writer that had read the item before.                             *)
LoadsWhatIsNoted ==
  Load => \A k \in Keys \ undone :
    /\ k \in DOMAIN loaded' => /\ k \in DOMAIN item /\ item[k].at + Retention >= now
                               /\ loaded'[k].value \in {Normal(v) : v \in noted[k]}
    /\ noted[k] # {} /\ k \notin DOMAIN loaded' =>
         k \in DOMAIN item /\ item[k].at + Retention < now
=============================================================================
