--------------------------- MODULE ServicesProofs ---------------------------
(* The invariants of MCServices, for every value of the constants of the       *)
(* components.  A behaviour stays with the component it began with, whose part  *)
(* of the state behaves as the component's specification says; the theorems of  *)
(* ServiceTheorems, RunTheorems and AgentTheorems about that specification then *)
(* give it.                                                                     *)
EXTENDS MCServices, TLAPS

(* What each component is assumed to be deployed with. *)
LEMMA BreakerD == FailMax \in Nat \ {0} /\ Cooldown \in Nat
BY ServiceBounds

LEMMA RequestD == "none" \notin Requests
BY ServiceBounds

LEMMA RequestF == Svc!IsFiniteSet(Requests)
<1>1. IsFiniteSet(Requests)
  BY ServiceBounds
<1> QED BY <1>1, Zenon DEF IsFiniteSet, Svc!IsFiniteSet

LEMMA ConnectionD == Patches \subseteq Exe!ConnectionPatch
BY ServiceBounds

LEMMA OAuthD == MaxRows \in Nat /\ MaxFlows \in Nat
BY ServiceBounds

LEMMA GraphD == GraphEdits \in Nat
BY ServiceBounds

LEMMA ConfigD == ConfigEdits \in Nat /\ MaxRuns \in Nat /\ MaxAttempts \in Nat
BY ServiceBounds

LEMMA StateD == PageLimits \subseteq Nat \ {0} /\ MaxFaults \in Nat
BY ServiceBounds

LEMMA StreamD == MaxEmits \in Nat
BY ServiceBounds

LEMMA CronD == Svc!CronDeployment
BY ServiceDeployment

LEMMA StoreD == Svc!StoreDeployment
BY ServiceDeployment

LEMMA MemoryD == Exe!MemoryDeployment
BY ServiceDeployment

LEMMA McpD == One!ToolDeployment
BY AgentDeployment

LEMMA ShopD == One!ShopDeployment /\ \A limit \in Solo.shopLimits : limit >= 4
BY AgentDeployment

LEMMA DeskD == One!DeskDeployment /\ \A limit \in Solo.staffLimits : limit >= 2
BY AgentDeployment

LEMMA TeamD == Many!ShopDeployment /\ Many!DeskDeployment
BY AgentDeployment

-----------------------------------------------------------------------------
(* The component a behaviour began with, its states and its steps.             *)

(* No step changes the component. *)
LEMMA Stays == [Next]_vars => which' = which
BY Zenon DEF Next, vars, CronStep, StatelessStep, BreakerStep, AssistStep, SessionStep, RequestStep,
         BootStep, GraphStep, McpStep, OAuthStep, SkillStep, ConnectionStep, StreamStep, AuthStep,
         ConfigStep, ItemsStep, StateStep, MerchantStep, MerchantsStep, ShopStep, ShopsStep, MemoryStep

LEMMA CronBehaves == Spec /\ which = "cron" => Svc!Cron!Spec /\ [](which = "cron")
<1>1. Init /\ which = "cron" => Svc!Cron!Init
  BY DEF Init
<1>2. which = "cron" /\ [Next]_vars => [Svc!Cron!Next]_(Svc!Cron!vars)
  BY DEF Next, vars, Svc!Cron!vars, CronStep, StatelessStep, BreakerStep, AssistStep, SessionStep, RequestStep,
         BootStep, GraphStep, McpStep, OAuthStep, SkillStep, ConnectionStep, StreamStep, AuthStep,
         ConfigStep, ItemsStep, StateStep, MerchantStep, MerchantsStep, ShopStep, ShopsStep, MemoryStep
<1>3. which = "cron" /\ [Next]_vars => (which = "cron")'
  BY Stays
<1> QED BY <1>1, <1>2, <1>3, PTL DEF Spec, Svc!Cron!Spec

LEMMA CronElsewhere == Spec /\ ~(which = "cron") => [](~(which = "cron"))
<1>1. ~(which = "cron") /\ [Next]_vars => (~(which = "cron"))'
  BY Stays
<1> QED BY <1>1, PTL DEF Spec

LEMMA StatelessBehaves == Spec /\ which = "stateless" => Exe!Stateless!Spec /\ [](which = "stateless")
<1>1. Init /\ which = "stateless" => Exe!Stateless!Init
  BY DEF Init
<1>2. which = "stateless" /\ [Next]_vars => [Exe!Stateless!Next]_(Exe!Stateless!vars)
  BY DEF Next, vars, Exe!Stateless!vars, CronStep, StatelessStep, BreakerStep, AssistStep, SessionStep, RequestStep,
         BootStep, GraphStep, McpStep, OAuthStep, SkillStep, ConnectionStep, StreamStep, AuthStep,
         ConfigStep, ItemsStep, StateStep, MerchantStep, MerchantsStep, ShopStep, ShopsStep, MemoryStep
<1>3. which = "stateless" /\ [Next]_vars => (which = "stateless")'
  BY Stays
<1> QED BY <1>1, <1>2, <1>3, PTL DEF Spec, Exe!Stateless!Spec

LEMMA StatelessElsewhere == Spec /\ ~(which = "stateless") => [](~(which = "stateless"))
<1>1. ~(which = "stateless") /\ [Next]_vars => (~(which = "stateless"))'
  BY Stays
<1> QED BY <1>1, PTL DEF Spec

LEMMA BreakerBehaves == Spec /\ which = "breaker" => Svc!Breaker!Spec /\ [](which = "breaker")
<1>1. Init /\ which = "breaker" => Svc!Breaker!Init
  BY DEF Init
<1>2. which = "breaker" /\ [Next]_vars => [Svc!Breaker!Next]_(Svc!Breaker!vars)
  BY DEF Next, vars, Svc!Breaker!vars, CronStep, StatelessStep, BreakerStep, AssistStep, SessionStep, RequestStep,
         BootStep, GraphStep, McpStep, OAuthStep, SkillStep, ConnectionStep, StreamStep, AuthStep,
         ConfigStep, ItemsStep, StateStep, MerchantStep, MerchantsStep, ShopStep, ShopsStep, MemoryStep
<1>3. which = "breaker" /\ [Next]_vars => (which = "breaker")'
  BY Stays
<1> QED BY <1>1, <1>2, <1>3, PTL DEF Spec, Svc!Breaker!Spec

LEMMA BreakerElsewhere == Spec /\ ~(which = "breaker") => [](~(which = "breaker"))
<1>1. ~(which = "breaker") /\ [Next]_vars => (~(which = "breaker"))'
  BY Stays
<1> QED BY <1>1, PTL DEF Spec

LEMMA AssistBehaves == Spec /\ which = "assistants" => Svc!Assist!Spec /\ [](which = "assistants")
<1>1. Init /\ which = "assistants" => Svc!Assist!Init
  BY DEF Init
<1>2. which = "assistants" /\ [Next]_vars => [Svc!Assist!Next]_(Svc!Assist!vars)
  BY DEF Next, vars, Svc!Assist!vars, CronStep, StatelessStep, BreakerStep, AssistStep, SessionStep, RequestStep,
         BootStep, GraphStep, McpStep, OAuthStep, SkillStep, ConnectionStep, StreamStep, AuthStep,
         ConfigStep, ItemsStep, StateStep, MerchantStep, MerchantsStep, ShopStep, ShopsStep, MemoryStep
<1>3. which = "assistants" /\ [Next]_vars => (which = "assistants")'
  BY Stays
<1> QED BY <1>1, <1>2, <1>3, PTL DEF Spec, Svc!Assist!Spec

LEMMA AssistElsewhere == Spec /\ ~(which = "assistants") => [](~(which = "assistants"))
<1>1. ~(which = "assistants") /\ [Next]_vars => (~(which = "assistants"))'
  BY Stays
<1> QED BY <1>1, PTL DEF Spec

LEMMA RequestBehaves == Spec /\ which = "requests" => Svc!Request!Spec /\ [](which = "requests")
<1>1. Init /\ which = "requests" => Svc!Request!Init
  BY DEF Init
<1>2. which = "requests" /\ [Next]_vars => [Svc!Request!Next]_(Svc!Request!vars)
  BY DEF Next, vars, Svc!Request!vars, CronStep, StatelessStep, BreakerStep, AssistStep, SessionStep, RequestStep,
         BootStep, GraphStep, McpStep, OAuthStep, SkillStep, ConnectionStep, StreamStep, AuthStep,
         ConfigStep, ItemsStep, StateStep, MerchantStep, MerchantsStep, ShopStep, ShopsStep, MemoryStep
<1>3. which = "requests" /\ [Next]_vars => (which = "requests")'
  BY Stays
<1> QED BY <1>1, <1>2, <1>3, PTL DEF Spec, Svc!Request!Spec

LEMMA RequestElsewhere == Spec /\ ~(which = "requests") => [](~(which = "requests"))
<1>1. ~(which = "requests") /\ [Next]_vars => (~(which = "requests"))'
  BY Stays
<1> QED BY <1>1, PTL DEF Spec

LEMMA ServerBehaves == Spec /\ which = "startup" => Svc!Server!Spec /\ [](which = "startup")
<1>1. Init /\ which = "startup" => Svc!Server!Init
  BY DEF Init
<1>2. which = "startup" /\ [Next]_vars => [Svc!Server!Next]_(Svc!Server!vars)
  BY DEF Next, vars, Svc!Server!vars, CronStep, StatelessStep, BreakerStep, AssistStep, SessionStep, RequestStep,
         BootStep, GraphStep, McpStep, OAuthStep, SkillStep, ConnectionStep, StreamStep, AuthStep,
         ConfigStep, ItemsStep, StateStep, MerchantStep, MerchantsStep, ShopStep, ShopsStep, MemoryStep
<1>3. which = "startup" /\ [Next]_vars => (which = "startup")'
  BY Stays
<1> QED BY <1>1, <1>2, <1>3, PTL DEF Spec, Svc!Server!Spec

LEMMA ServerElsewhere == Spec /\ ~(which = "startup") => [](~(which = "startup"))
<1>1. ~(which = "startup") /\ [Next]_vars => (~(which = "startup"))'
  BY Stays
<1> QED BY <1>1, PTL DEF Spec

LEMMA GraphBehaves == Spec /\ which = "graphs" => Exe!Graph!Spec /\ [](which = "graphs")
<1>1. Init /\ which = "graphs" => Exe!Graph!Init
  BY DEF Init
<1>2. which = "graphs" /\ [Next]_vars => [Exe!Graph!Next]_(Exe!Graph!vars)
  BY DEF Next, vars, Exe!Graph!vars, CronStep, StatelessStep, BreakerStep, AssistStep, SessionStep, RequestStep,
         BootStep, GraphStep, McpStep, OAuthStep, SkillStep, ConnectionStep, StreamStep, AuthStep,
         ConfigStep, ItemsStep, StateStep, MerchantStep, MerchantsStep, ShopStep, ShopsStep, MemoryStep
<1>3. which = "graphs" /\ [Next]_vars => (which = "graphs")'
  BY Stays
<1> QED BY <1>1, <1>2, <1>3, PTL DEF Spec, Exe!Graph!Spec

LEMMA GraphElsewhere == Spec /\ ~(which = "graphs") => [](~(which = "graphs"))
<1>1. ~(which = "graphs") /\ [Next]_vars => (~(which = "graphs"))'
  BY Stays
<1> QED BY <1>1, PTL DEF Spec

LEMMA ItemsBehaves == Spec /\ which = "store" => Svc!Items!Spec /\ [](which = "store")
<1>1. Init /\ which = "store" => Svc!Items!Init
  BY DEF Init
<1>2. which = "store" /\ [Next]_vars => [Svc!Items!Next]_(Svc!Items!vars)
  BY DEF Next, vars, Svc!Items!vars, CronStep, StatelessStep, BreakerStep, AssistStep, SessionStep, RequestStep,
         BootStep, GraphStep, McpStep, OAuthStep, SkillStep, ConnectionStep, StreamStep, AuthStep,
         ConfigStep, ItemsStep, StateStep, MerchantStep, MerchantsStep, ShopStep, ShopsStep, MemoryStep
<1>3. which = "store" /\ [Next]_vars => (which = "store")'
  BY Stays
<1> QED BY <1>1, <1>2, <1>3, PTL DEF Spec, Svc!Items!Spec

LEMMA ItemsElsewhere == Spec /\ ~(which = "store") => [](~(which = "store"))
<1>1. ~(which = "store") /\ [Next]_vars => (~(which = "store"))'
  BY Stays
<1> QED BY <1>1, PTL DEF Spec

LEMMA StreamBehaves == Spec /\ which = "streaming" => Exe!Stream!Spec /\ [](which = "streaming")
<1>1. Init /\ which = "streaming" => Exe!Stream!Init
  BY DEF Init
<1>2. which = "streaming" /\ [Next]_vars => [Exe!Stream!Next]_(Exe!Stream!vars)
  BY DEF Next, vars, Exe!Stream!vars, CronStep, StatelessStep, BreakerStep, AssistStep, SessionStep, RequestStep,
         BootStep, GraphStep, McpStep, OAuthStep, SkillStep, ConnectionStep, StreamStep, AuthStep,
         ConfigStep, ItemsStep, StateStep, MerchantStep, MerchantsStep, ShopStep, ShopsStep, MemoryStep
<1>3. which = "streaming" /\ [Next]_vars => (which = "streaming")'
  BY Stays
<1> QED BY <1>1, <1>2, <1>3, PTL DEF Spec, Exe!Stream!Spec

LEMMA StreamElsewhere == Spec /\ ~(which = "streaming") => [](~(which = "streaming"))
<1>1. ~(which = "streaming") /\ [Next]_vars => (~(which = "streaming"))'
  BY Stays
<1> QED BY <1>1, PTL DEF Spec

LEMMA AuthBehaves == Spec /\ which = "auth" => Svc!Auth!Spec /\ [](which = "auth")
<1>1. Init /\ which = "auth" => Svc!Auth!Init
  BY DEF Init
<1>2. which = "auth" /\ [Next]_vars => [Svc!Auth!Next]_(Svc!Auth!vars)
  BY DEF Next, vars, Svc!Auth!vars, CronStep, StatelessStep, BreakerStep, AssistStep, SessionStep, RequestStep,
         BootStep, GraphStep, McpStep, OAuthStep, SkillStep, ConnectionStep, StreamStep, AuthStep,
         ConfigStep, ItemsStep, StateStep, MerchantStep, MerchantsStep, ShopStep, ShopsStep, MemoryStep
<1>3. which = "auth" /\ [Next]_vars => (which = "auth")'
  BY Stays
<1> QED BY <1>1, <1>2, <1>3, PTL DEF Spec, Svc!Auth!Spec

LEMMA AuthElsewhere == Spec /\ ~(which = "auth") => [](~(which = "auth"))
<1>1. ~(which = "auth") /\ [Next]_vars => (~(which = "auth"))'
  BY Stays
<1> QED BY <1>1, PTL DEF Spec

LEMMA ConfigBehaves == Spec /\ which = "config" => Exe!Config!Spec /\ [](which = "config")
<1>1. Init /\ which = "config" => Exe!Config!Init
  BY DEF Init
<1>2. which = "config" /\ [Next]_vars => [Exe!Config!Next]_(Exe!Config!vars)
  BY DEF Next, vars, Exe!Config!vars, CronStep, StatelessStep, BreakerStep, AssistStep, SessionStep, RequestStep,
         BootStep, GraphStep, McpStep, OAuthStep, SkillStep, ConnectionStep, StreamStep, AuthStep,
         ConfigStep, ItemsStep, StateStep, MerchantStep, MerchantsStep, ShopStep, ShopsStep, MemoryStep
<1>3. which = "config" /\ [Next]_vars => (which = "config")'
  BY Stays
<1> QED BY <1>1, <1>2, <1>3, PTL DEF Spec, Exe!Config!Spec

LEMMA ConfigElsewhere == Spec /\ ~(which = "config") => [](~(which = "config"))
<1>1. ~(which = "config") /\ [Next]_vars => (~(which = "config"))'
  BY Stays
<1> QED BY <1>1, PTL DEF Spec

LEMMA StateBehaves == Spec /\ which = "state" => Exe!State!Spec /\ [](which = "state")
<1>1. Init /\ which = "state" => Exe!State!Init
  BY DEF Init
<1>2. which = "state" /\ [Next]_vars => [Exe!State!Next]_(Exe!State!vars)
  BY DEF Next, vars, Exe!State!vars, CronStep, StatelessStep, BreakerStep, AssistStep, SessionStep, RequestStep,
         BootStep, GraphStep, McpStep, OAuthStep, SkillStep, ConnectionStep, StreamStep, AuthStep,
         ConfigStep, ItemsStep, StateStep, MerchantStep, MerchantsStep, ShopStep, ShopsStep, MemoryStep
<1>3. which = "state" /\ [Next]_vars => (which = "state")'
  BY Stays
<1> QED BY <1>1, <1>2, <1>3, PTL DEF Spec, Exe!State!Spec

LEMMA StateElsewhere == Spec /\ ~(which = "state") => [](~(which = "state"))
<1>1. ~(which = "state") /\ [Next]_vars => (~(which = "state"))'
  BY Stays
<1> QED BY <1>1, PTL DEF Spec

LEMMA SkillBehaves == Spec /\ which = "skills" => Exe!Skill!Spec /\ [](which = "skills")
<1>1. Init /\ which = "skills" => Exe!Skill!Init
  BY DEF Init
<1>2. which = "skills" /\ [Next]_vars => [Exe!Skill!Next]_(Exe!Skill!vars)
  BY DEF Next, vars, Exe!Skill!vars, CronStep, StatelessStep, BreakerStep, AssistStep, SessionStep, RequestStep,
         BootStep, GraphStep, McpStep, OAuthStep, SkillStep, ConnectionStep, StreamStep, AuthStep,
         ConfigStep, ItemsStep, StateStep, MerchantStep, MerchantsStep, ShopStep, ShopsStep, MemoryStep
<1>3. which = "skills" /\ [Next]_vars => (which = "skills")'
  BY Stays
<1> QED BY <1>1, <1>2, <1>3, PTL DEF Spec, Exe!Skill!Spec

LEMMA SkillElsewhere == Spec /\ ~(which = "skills") => [](~(which = "skills"))
<1>1. ~(which = "skills") /\ [Next]_vars => (~(which = "skills"))'
  BY Stays
<1> QED BY <1>1, PTL DEF Spec

LEMMA ConnectionBehaves == Spec /\ which = "connections" => Exe!Connection!Spec /\ [](which = "connections")
<1>1. Init /\ which = "connections" => Exe!Connection!Init
  BY DEF Init
<1>2. which = "connections" /\ [Next]_vars => [Exe!Connection!Next]_(Exe!Connection!vars)
  BY DEF Next, vars, Exe!Connection!vars, CronStep, StatelessStep, BreakerStep, AssistStep, SessionStep, RequestStep,
         BootStep, GraphStep, McpStep, OAuthStep, SkillStep, ConnectionStep, StreamStep, AuthStep,
         ConfigStep, ItemsStep, StateStep, MerchantStep, MerchantsStep, ShopStep, ShopsStep, MemoryStep
<1>3. which = "connections" /\ [Next]_vars => (which = "connections")'
  BY Stays
<1> QED BY <1>1, <1>2, <1>3, PTL DEF Spec, Exe!Connection!Spec

LEMMA ConnectionElsewhere == Spec /\ ~(which = "connections") => [](~(which = "connections"))
<1>1. ~(which = "connections") /\ [Next]_vars => (~(which = "connections"))'
  BY Stays
<1> QED BY <1>1, PTL DEF Spec

LEMMA OAuthBehaves == Spec /\ which = "oauth" => Exe!OAuth!Spec /\ [](which = "oauth")
<1>1. Init /\ which = "oauth" => Exe!OAuth!Init
  BY DEF Init
<1>2. which = "oauth" /\ [Next]_vars => [Exe!OAuth!Next]_(Exe!OAuth!vars)
  BY DEF Next, vars, Exe!OAuth!vars, CronStep, StatelessStep, BreakerStep, AssistStep, SessionStep, RequestStep,
         BootStep, GraphStep, McpStep, OAuthStep, SkillStep, ConnectionStep, StreamStep, AuthStep,
         ConfigStep, ItemsStep, StateStep, MerchantStep, MerchantsStep, ShopStep, ShopsStep, MemoryStep
<1>3. which = "oauth" /\ [Next]_vars => (which = "oauth")'
  BY Stays
<1> QED BY <1>1, <1>2, <1>3, PTL DEF Spec, Exe!OAuth!Spec

LEMMA OAuthElsewhere == Spec /\ ~(which = "oauth") => [](~(which = "oauth"))
<1>1. ~(which = "oauth") /\ [Next]_vars => (~(which = "oauth"))'
  BY Stays
<1> QED BY <1>1, PTL DEF Spec

LEMMA MemoryBehaves == Spec /\ which = "memory" => Exe!Memory!Spec /\ [](which = "memory")
<1>1. Init /\ which = "memory" => Exe!Memory!Init
  BY DEF Init
<1>2. which = "memory" /\ [Next]_vars => [Exe!Memory!Next]_(Exe!Memory!vars)
  BY DEF Next, vars, Exe!Memory!vars, CronStep, StatelessStep, BreakerStep, AssistStep, SessionStep, RequestStep,
         BootStep, GraphStep, McpStep, OAuthStep, SkillStep, ConnectionStep, StreamStep, AuthStep,
         ConfigStep, ItemsStep, StateStep, MerchantStep, MerchantsStep, ShopStep, ShopsStep, MemoryStep
<1>3. which = "memory" /\ [Next]_vars => (which = "memory")'
  BY Stays
<1> QED BY <1>1, <1>2, <1>3, PTL DEF Spec, Exe!Memory!Spec

LEMMA MemoryElsewhere == Spec /\ ~(which = "memory") => [](~(which = "memory"))
<1>1. ~(which = "memory") /\ [Next]_vars => (~(which = "memory"))'
  BY Stays
<1> QED BY <1>1, PTL DEF Spec

LEMMA McpBehaves == Spec /\ which = "mcp" => One!Mcp!Spec /\ [](which = "mcp")
<1>1. Init /\ which = "mcp" => One!Mcp!Init
  BY DEF Init
<1>2. which = "mcp" /\ [Next]_vars => [One!Mcp!Next]_(One!Mcp!vars)
  BY DEF Next, vars, One!Mcp!vars, CronStep, StatelessStep, BreakerStep, AssistStep, SessionStep, RequestStep,
         BootStep, GraphStep, McpStep, OAuthStep, SkillStep, ConnectionStep, StreamStep, AuthStep,
         ConfigStep, ItemsStep, StateStep, MerchantStep, MerchantsStep, ShopStep, ShopsStep, MemoryStep
<1>3. which = "mcp" /\ [Next]_vars => (which = "mcp")'
  BY Stays
<1> QED BY <1>1, <1>2, <1>3, PTL DEF Spec, One!Mcp!Spec

LEMMA McpElsewhere == Spec /\ ~(which = "mcp") => [](~(which = "mcp"))
<1>1. ~(which = "mcp") /\ [Next]_vars => (~(which = "mcp"))'
  BY Stays
<1> QED BY <1>1, PTL DEF Spec

LEMMA MerchantBehaves == Spec /\ which = "merchant" => One!Desk!Spec /\ [](which = "merchant")
<1>1. Init /\ which = "merchant" => One!Desk!Init
  BY DEF Init
<1>2. which = "merchant" /\ [Next]_vars => [One!Desk!Next]_(One!Desk!vars)
  BY DEF Next, vars, One!Desk!vars, CronStep, StatelessStep, BreakerStep, AssistStep, SessionStep, RequestStep,
         BootStep, GraphStep, McpStep, OAuthStep, SkillStep, ConnectionStep, StreamStep, AuthStep,
         ConfigStep, ItemsStep, StateStep, MerchantStep, MerchantsStep, ShopStep, ShopsStep, MemoryStep
<1>3. which = "merchant" /\ [Next]_vars => (which = "merchant")'
  BY Stays
<1> QED BY <1>1, <1>2, <1>3, PTL DEF Spec, One!Desk!Spec

LEMMA MerchantElsewhere == Spec /\ ~(which = "merchant") => [](~(which = "merchant"))
<1>1. ~(which = "merchant") /\ [Next]_vars => (~(which = "merchant"))'
  BY Stays
<1> QED BY <1>1, PTL DEF Spec

LEMMA MerchantsBehaves == Spec /\ which = "merchants" => Many!Desk!Spec /\ [](which = "merchants")
<1>1. Init /\ which = "merchants" => Many!Desk!Init
  BY DEF Init
<1>2. which = "merchants" /\ [Next]_vars => [Many!Desk!Next]_(Many!Desk!vars)
  BY DEF Next, vars, Many!Desk!vars, CronStep, StatelessStep, BreakerStep, AssistStep, SessionStep, RequestStep,
         BootStep, GraphStep, McpStep, OAuthStep, SkillStep, ConnectionStep, StreamStep, AuthStep,
         ConfigStep, ItemsStep, StateStep, MerchantStep, MerchantsStep, ShopStep, ShopsStep, MemoryStep
<1>3. which = "merchants" /\ [Next]_vars => (which = "merchants")'
  BY Stays
<1> QED BY <1>1, <1>2, <1>3, PTL DEF Spec, Many!Desk!Spec

LEMMA MerchantsElsewhere == Spec /\ ~(which = "merchants") => [](~(which = "merchants"))
<1>1. ~(which = "merchants") /\ [Next]_vars => (~(which = "merchants"))'
  BY Stays
<1> QED BY <1>1, PTL DEF Spec

LEMMA ShopBehaves == Spec /\ which = "shop" => One!Shop!Spec /\ [](which = "shop")
<1>1. Init /\ which = "shop" => One!Shop!Init
  BY DEF Init
<1>2. which = "shop" /\ [Next]_vars => [One!Shop!Next]_(One!Shop!vars)
  BY DEF Next, vars, One!Shop!vars, CronStep, StatelessStep, BreakerStep, AssistStep, SessionStep, RequestStep,
         BootStep, GraphStep, McpStep, OAuthStep, SkillStep, ConnectionStep, StreamStep, AuthStep,
         ConfigStep, ItemsStep, StateStep, MerchantStep, MerchantsStep, ShopStep, ShopsStep, MemoryStep
<1>3. which = "shop" /\ [Next]_vars => (which = "shop")'
  BY Stays
<1> QED BY <1>1, <1>2, <1>3, PTL DEF Spec, One!Shop!Spec

LEMMA ShopElsewhere == Spec /\ ~(which = "shop") => [](~(which = "shop"))
<1>1. ~(which = "shop") /\ [Next]_vars => (~(which = "shop"))'
  BY Stays
<1> QED BY <1>1, PTL DEF Spec

LEMMA ShopsBehaves == Spec /\ which = "shops" => Many!Shop!Spec /\ [](which = "shops")
<1>1. Init /\ which = "shops" => Many!Shop!Init
  BY DEF Init
<1>2. which = "shops" /\ [Next]_vars => [Many!Shop!Next]_(Many!Shop!vars)
  BY DEF Next, vars, Many!Shop!vars, CronStep, StatelessStep, BreakerStep, AssistStep, SessionStep, RequestStep,
         BootStep, GraphStep, McpStep, OAuthStep, SkillStep, ConnectionStep, StreamStep, AuthStep,
         ConfigStep, ItemsStep, StateStep, MerchantStep, MerchantsStep, ShopStep, ShopsStep, MemoryStep
<1>3. which = "shops" /\ [Next]_vars => (which = "shops")'
  BY Stays
<1> QED BY <1>1, <1>2, <1>3, PTL DEF Spec, Many!Shop!Spec

LEMMA ShopsElsewhere == Spec /\ ~(which = "shops") => [](~(which = "shops"))
<1>1. ~(which = "shops") /\ [Next]_vars => (~(which = "shops"))'
  BY Stays
<1> QED BY <1>1, PTL DEF Spec

-----------------------------------------------------------------------------
(* The invariants.                                                             *)

(* CronFiresOnce for every number of crons, pollers and clients: no overlap of  *)
(* pollers, updates and ended claims fires an occurrence twice, overshoots the  *)
(* cap by more than the overlapping requests or leaves the stored schedule.     *)
THEOREM CronsFireOnce == Spec => []CronFiresOnce
<1>1. Svc!Cron!Spec => [](/\ Svc!Cron!FiresOncePerSlot
                      /\ Svc!Cron!OneRunAfterEnd
                      /\ Svc!Cron!FollowsSchedule
                      /\ Svc!Cron!CapOvershoot)
  BY CronD, Svc!CronsFireOnce, PTL
<1>2. (/\ Svc!Cron!FiresOncePerSlot
        /\ Svc!Cron!OneRunAfterEnd
        /\ Svc!Cron!FollowsSchedule
        /\ Svc!Cron!CapOvershoot) => CronFiresOnce
  BY DEF CronFiresOnce
<1>3. ~(which = "cron") => CronFiresOnce
  BY DEF CronFiresOnce
<1> QED BY <1>1, <1>2, <1>3, CronBehaves, CronElsewhere, PTL

(* EphemeralThreadsSettle for every kind of stateless request.                  *)
THEOREM EphemeralThreads == Spec => []EphemeralThreadsSettle
<1>1. Exe!Stateless!Spec => [](/\ Exe!Stateless!NoSilentLeak
                      /\ Exe!Stateless!ActiveRunSpared
                      /\ Exe!Stateless!OutputIsFinal
                      /\ Exe!Stateless!CheckpointsGoWithThread)
  BY Exe!EphemeralThreadsAreSettled, PTL
<1>2. (/\ Exe!Stateless!NoSilentLeak
        /\ Exe!Stateless!ActiveRunSpared
        /\ Exe!Stateless!OutputIsFinal
        /\ Exe!Stateless!CheckpointsGoWithThread) => EphemeralThreadsSettle
  BY DEF EphemeralThreadsSettle
<1>3. ~(which = "stateless") => EphemeralThreadsSettle
  BY DEF EphemeralThreadsSettle
<1> QED BY <1>1, <1>2, <1>3, StatelessBehaves, StatelessElsewhere, PTL

(* BreakerTrips for every number of callers, threshold and cooldown.            *)
THEOREM BreakersTrip == Spec => []BreakerTrips
<1>1. Svc!Breaker!Spec => [](Svc!Breaker!MemoryTrips)
  BY BreakerD, Svc!BreakerOpens, PTL
<1>2. (Svc!Breaker!MemoryTrips) => BreakerTrips
  BY DEF BreakerTrips
<1>3. ~(which = "breaker") => BreakerTrips
  BY DEF BreakerTrips
<1> QED BY <1>1, <1>2, <1>3, BreakerBehaves, BreakerElsewhere, PTL

(* AssistantIsItsVersion for every number of assistants, users and requests.    *)
THEOREM AssistantsAreTheirVersions == Spec => []AssistantIsItsVersion
<1>1. Svc!Assist!Spec => [](/\ Svc!Assist!RowIsItsVersion
                      /\ Svc!Assist!ContextMirrorsConfig
                      /\ Svc!Assist!AtNewestVersion)
  BY Svc!AssistantsAreVersions, PTL
<1>2. (/\ Svc!Assist!RowIsItsVersion
        /\ Svc!Assist!ContextMirrorsConfig
        /\ Svc!Assist!AtNewestVersion) => AssistantIsItsVersion
  BY DEF AssistantIsItsVersion
<1>3. ~(which = "assistants") => AssistantIsItsVersion
  BY DEF AssistantIsItsVersion
<1> QED BY <1>1, <1>2, <1>3, AssistBehaves, AssistElsewhere, PTL

(* RequestsKeepWrites for every number of requests that overlap on a thread.    *)
THEOREM ThreadRequestsKeepWrites == Spec => []RequestsKeepWrites
<1>a. Svc!Request!Spec => [](Svc!Request!WritesKept /\ Svc!Request!OneNamingCall /\ Svc!Request!TtlOfCreator)
  BY RequestD, Svc!RequestsKeepWrites, PTL
<1>b. Svc!Request!Spec => []Svc!Request!ResumesOvertaken
  BY RequestD, RequestF, Svc!StaleResumesOvertaken, PTL
<1>1. Svc!Request!Spec => [](/\ Svc!Request!WritesKept
                      /\ Svc!Request!OneNamingCall
                      /\ Svc!Request!TtlOfCreator
                      /\ Svc!Request!ResumesOvertaken)
  BY <1>a, <1>b, PTL
<1>2. (/\ Svc!Request!WritesKept
        /\ Svc!Request!OneNamingCall
        /\ Svc!Request!TtlOfCreator
        /\ Svc!Request!ResumesOvertaken) => RequestsKeepWrites
  BY DEF RequestsKeepWrites
<1>3. ~(which = "requests") => RequestsKeepWrites
  BY DEF RequestsKeepWrites
<1> QED BY <1>1, <1>2, <1>3, RequestBehaves, RequestElsewhere, PTL

(* ServicesHaveDependencies for every number of instances that boot, fail and   *)
(* shut down over one database.                                                 *)
THEOREM ServicesDepend == Spec => []ServicesHaveDependencies
<1>1. Svc!Server!Spec => [](Svc!Server!DependenciesUp /\ Svc!Server!SchemaBeforeUse)
  BY Svc!ServersHaveDependencies, PTL
<1>2. (Svc!Server!DependenciesUp /\ Svc!Server!SchemaBeforeUse) => ServicesHaveDependencies
  BY DEF ServicesHaveDependencies
<1>3. ~(which = "startup") => ServicesHaveDependencies
  BY DEF ServicesHaveDependencies
<1> QED BY <1>1, <1>2, <1>3, ServerBehaves, ServerElsewhere, PTL

(* GraphIsOwn for every number of requests, users and edits of the graph file.  *)
THEOREM RequestsGetOwnGraph == Spec => []GraphIsOwn
<1>1. Exe!Graph!Spec => [](Exe!Graph!GraphIsOwn /\ Exe!Graph!ReloadTakesEffect)
  BY GraphD, Exe!GraphsAreOwn, PTL
<1>2. (Exe!Graph!GraphIsOwn /\ Exe!Graph!ReloadTakesEffect) => GraphIsOwn
  BY DEF GraphIsOwn
<1>3. ~(which = "graphs") => GraphIsOwn
  BY DEF GraphIsOwn
<1> QED BY <1>1, <1>2, <1>3, GraphBehaves, GraphElsewhere, PTL

(* StoreScoped for every set of users, groups and configured scopes.            *)
THEOREM StoreIsScoped == Spec => []StoreScoped
<1>1. Svc!Items!Spec => [](Svc!Items!Isolated /\ Svc!Items!FindsOwn)
  BY StoreD, Svc!StoreIsolates, PTL
<1>2. (Svc!Items!Isolated /\ Svc!Items!FindsOwn) => StoreScoped
  BY DEF StoreScoped
<1>3. ~(which = "store") => StoreScoped
  BY DEF StoreScoped
<1> QED BY <1>1, <1>2, <1>3, ItemsBehaves, ItemsElsewhere, PTL

(* StreamTellsAll for every set of stream modes and any number of messages.     *)
THEOREM StreamsTellEverything == Spec => []StreamTellsAll
<1>1. Exe!Stream!Spec => [](/\ Exe!Stream!InterruptTold
                      /\ Exe!Stream!MessagesWhole
                      /\ Exe!Stream!OutputIsState)
  BY StreamD, Exe!StreamsTellAll, PTL
<1>2. (/\ Exe!Stream!InterruptTold
        /\ Exe!Stream!MessagesWhole
        /\ Exe!Stream!OutputIsState) => StreamTellsAll
  BY DEF StreamTellsAll
<1>3. ~(which = "streaming") => StreamTellsAll
  BY DEF StreamTellsAll
<1> QED BY <1>1, <1>2, <1>3, StreamBehaves, StreamElsewhere, PTL

(* AuthorizedOnce for every number of requests and credentials.                 *)
THEOREM RequestsAuthorizedOnce == Spec => []AuthorizedOnce
<1>1. Svc!Auth!Spec => [](Svc!Auth!AuthenticatesOnce /\ Svc!Auth!OneAuthorization)
  BY Svc!AuthorizedOnce, PTL
<1>2. (Svc!Auth!AuthenticatesOnce /\ Svc!Auth!OneAuthorization) => AuthorizedOnce
  BY DEF AuthorizedOnce
<1>3. ~(which = "auth") => AuthorizedOnce
  BY DEF AuthorizedOnce
<1> QED BY <1>1, <1>2, <1>3, AuthBehaves, AuthElsewhere, PTL

(* ExecutesAsRequested for every set of request bodies, assistants and users.   *)
THEOREM RunsActAsRequested == Spec => []ExecutesAsRequested
<1>1. Exe!Config!Spec => [](Exe!Config!ExecutesAsRequested)
  BY ConfigD, Exe!RunsExecuteAsRequested, PTL
<1>2. (Exe!Config!ExecutesAsRequested) => ExecutesAsRequested
  BY DEF ExecutesAsRequested
<1>3. ~(which = "config") => ExecutesAsRequested
  BY DEF ExecutesAsRequested
<1> QED BY <1>1, <1>2, <1>3, ConfigBehaves, ConfigElsewhere, PTL

(* HistoryComplete for every number of clients, page sizes and checkpoints.     *)
THEOREM HistoriesAreComplete == Spec => []HistoryComplete
<1>1. Exe!State!Spec => [](Exe!State!HistoryComplete)
  BY StateD, Exe!HistoriesComplete, PTL
<1>2. (Exe!State!HistoryComplete) => HistoryComplete
  BY DEF HistoryComplete
<1>3. ~(which = "state") => HistoryComplete
  BY DEF HistoryComplete
<1> QED BY <1>1, <1>2, <1>3, StateBehaves, StateElsewhere, PTL

(* ToolsAsResolved for every set of servers, catalogues, runs and users.        *)
THEOREM ToolsAreResolved == Spec => []ToolsAsResolved
<1>1. One!Mcp!Spec => [](/\ One!Mcp!ToolsAsResolved /\ One!Mcp!ToolsFresh
                         /\ One!Mcp!NamesUnique)
  BY McpD, One!ToolsAreAsResolved, PTL
<1>2. (One!Mcp!ToolsAsResolved /\ One!Mcp!ToolsFresh /\ One!Mcp!NamesUnique) => ToolsAsResolved
  BY DEF ToolsAsResolved
<1>3. ~(which = "mcp") => ToolsAsResolved
  BY DEF ToolsAsResolved
<1> QED BY <1>1, <1>2, <1>3, McpBehaves, McpElsewhere, PTL

(* AgentsWriteAsAgreed for every number of sessions, products, prices and       *)
(* changes: what the agents put into carts and catalogues is what the customer  *)
(* and the staff agreed to, within the limits that are configured.              *)
THEOREM AgentsDoAsAgreed == Spec => []AgentsWriteAsAgreed
<1> DEFINE M == /\ One!Desk!CatalogueExplained /\ One!Desk!AppliedWithinCap /\ One!Desk!NeverOutOfSteps
                /\ One!Desk!EveryApplyApproved /\ One!Desk!PendingReachable
           Ms == /\ Many!Desk!CatalogueExplained
                 /\ Many!Desk!EveryApplyApproved
                 /\ Many!Desk!PendingReachable
           S == /\ One!Shop!CartSize /\ One!Shop!HandoffApproved /\ One!Shop!ToolsFollowedUp
                /\ One!Shop!CartAsAnswered
           Ss == Many!Shop!CartAsAnswered /\ Many!Shop!HandoffApproved
<1>1. Spec => [](which = "merchant" => M)
  <2>1. One!Desk!Spec => [](One!Desk!CatalogueExplained /\ One!Desk!AppliedWithinCap)
    BY DeskD, One!CataloguesExplained, PTL
  <2>2. One!Desk!Spec => []One!Desk!NeverOutOfSteps
    BY DeskD, One!StaffRunsEnd, PTL
  <2>3. One!Desk!Spec => [](One!Desk!EveryApplyApproved /\ One!Desk!PendingReachable)
    BY DeskD, One!AppliesApproved, PTL
  <2> QED BY <2>1, <2>2, <2>3, MerchantBehaves, MerchantElsewhere, PTL
<1>2. Spec => [](which = "merchants" => Ms)
  <2>1. Many!Desk!Spec => []Many!Desk!CatalogueExplained
    BY TeamD, Many!CataloguesExplained, PTL
  <2>2. Many!Desk!Spec => [](Many!Desk!EveryApplyApproved /\ Many!Desk!PendingReachable)
    BY TeamD, Many!AppliesApproved, PTL
  <2> QED BY <2>1, <2>2, MerchantsBehaves, MerchantsElsewhere, PTL
<1>3. Spec => [](which = "shop" => S)
  <2>1. One!Shop!Spec => [](One!Shop!CartSize /\ One!Shop!HandoffApproved)
    BY ShopD, One!CartsKeepSize, PTL
  <2>2. One!Shop!Spec => []One!Shop!ToolsFollowedUp
    BY ShopD, One!ToolCallsFollowedUp, PTL
  <2>3. One!Shop!Spec => []One!Shop!CartAsAnswered
    BY ShopD, One!CartsAsAnswered, PTL
  <2> QED BY <2>1, <2>2, <2>3, ShopBehaves, ShopElsewhere, PTL
<1>4. Spec => [](which = "shops" => Ss)
  <2>1. Many!Shop!Spec => []Many!Shop!CartAsAnswered
    BY TeamD, Many!CartsAsAnswered, PTL
  <2>2. Many!Shop!Spec => [](Many!Shop!CartSize /\ Many!Shop!HandoffApproved)
    BY TeamD, Many!CartsKeepSize, PTL
  <2> QED BY <2>1, <2>2, ShopsBehaves, ShopsElsewhere, PTL
<1>5. /\ (which = "merchant" => M) /\ (which = "merchants" => Ms)
      /\ (which = "shop" => S) /\ (which = "shops" => Ss)
      => AgentsWriteAsAgreed
  BY DEF AgentsWriteAsAgreed
<1> QED BY <1>1, <1>2, <1>3, <1>4, <1>5, PTL

(* HubRowsWhole for every number of requests, payloads, patches and flows.      *)
THEOREM HubRowsAreWhole == Spec => []HubRowsWhole
<1>1. Spec => [](which = "skills" => Exe!Skill!SkillIsOneInstall)
  <2>1. Exe!Skill!Spec => []Exe!Skill!SkillIsOneInstall
    BY RequestD, Exe!SkillsAreWhole, PTL
  <2> QED BY <2>1, SkillBehaves, SkillElsewhere, PTL
<1>2. Spec => [](which = "connections" => Exe!Connection!CredentialShape)
  <2>1. Exe!Connection!Spec => []Exe!Connection!CredentialShape
    BY ConnectionD, Exe!CredentialsShaped, PTL
  <2> QED BY <2>1, ConnectionBehaves, ConnectionElsewhere, PTL
<1>3. Spec => [](which = "oauth" => Exe!OAuth!StartsClean)
  <2>1. Exe!OAuth!Spec => []Exe!OAuth!StartsClean
    BY OAuthD, Exe!ConnectionsStartClean, PTL
  <2> QED BY <2>1, OAuthBehaves, OAuthElsewhere, PTL
<1>4. /\ (which = "skills" => Exe!Skill!SkillIsOneInstall)
      /\ (which = "connections" => Exe!Connection!CredentialShape)
      /\ (which = "oauth" => Exe!OAuth!StartsClean)
      => HubRowsWhole
  BY DEF HubRowsWhole
<1> QED BY <1>1, <1>2, <1>3, <1>4, PTL

(* NothingUndone: no step enables a disabled cron, changes a version, renames a *)
(* named thread or loads a preference that was not noted, however many crons,   *)
(* assistants, requests and writers there are.                                  *)
THEOREM NothingIsUndone == Spec => NothingUndone
<1>1. Spec => [][which = "cron" => Svc!Cron!KeepsDisabled]_vars
  <2>1. Svc!Cron!Spec => [][Svc!Cron!KeepsDisabled]_(Svc!Cron!vars)
    BY CronD, Svc!CronsStayDisabled, PTL
  <2>2. which = "cron" /\ [Next]_vars /\ [Svc!Cron!KeepsDisabled]_(Svc!Cron!vars) => [which = "cron" => Svc!Cron!KeepsDisabled]_vars
    <3> SUFFICES ASSUME which = "cron", [Next]_vars, UNCHANGED Svc!Cron!vars PROVE UNCHANGED vars
      OBVIOUS
    <3> QED BY DEF Next, vars, Svc!Cron!vars, CronStep, StatelessStep, BreakerStep, AssistStep, SessionStep, RequestStep,
         BootStep, GraphStep, McpStep, OAuthStep, SkillStep, ConnectionStep, StreamStep, AuthStep,
         ConfigStep, ItemsStep, StateStep, MerchantStep, MerchantsStep, ShopStep, ShopsStep, MemoryStep,
         From4, From5, From6, From7, From8, From9, From10, From11, From12, From13, From14, From15
  <2>3. ~(which = "cron") => [which = "cron" => Svc!Cron!KeepsDisabled]_vars
    OBVIOUS
  <2> QED BY <2>1, <2>2, <2>3, CronBehaves, CronElsewhere, PTL DEF Spec
<1>2. Spec => [][which = "assistants" => Svc!Assist!KeepsVersions]_vars
  <2>1. Svc!Assist!Spec => [][Svc!Assist!KeepsVersions]_(Svc!Assist!vars)
    BY Svc!VersionsKept, PTL
  <2>2. which = "assistants" /\ [Next]_vars /\ [Svc!Assist!KeepsVersions]_(Svc!Assist!vars) => [which = "assistants" => Svc!Assist!KeepsVersions]_vars
    <3> SUFFICES ASSUME which = "assistants", [Next]_vars, UNCHANGED Svc!Assist!vars PROVE UNCHANGED vars
      OBVIOUS
    <3> QED BY DEF Next, vars, Svc!Assist!vars, CronStep, StatelessStep, BreakerStep, AssistStep, SessionStep, RequestStep,
         BootStep, GraphStep, McpStep, OAuthStep, SkillStep, ConnectionStep, StreamStep, AuthStep,
         ConfigStep, ItemsStep, StateStep, MerchantStep, MerchantsStep, ShopStep, ShopsStep, MemoryStep,
         From4, From5, From6, From7, From8, From9, From10, From11, From12, From13, From14, From15
  <2>3. ~(which = "assistants") => [which = "assistants" => Svc!Assist!KeepsVersions]_vars
    OBVIOUS
  <2> QED BY <2>1, <2>2, <2>3, AssistBehaves, AssistElsewhere, PTL DEF Spec
<1>3. Spec => [][which = "requests" => Svc!Request!KeepsName]_vars
  <2>1. Svc!Request!Spec => [][Svc!Request!KeepsName]_(Svc!Request!vars)
    BY RequestD, Svc!NamesKept, PTL
  <2>2. which = "requests" /\ [Next]_vars /\ [Svc!Request!KeepsName]_(Svc!Request!vars) => [which = "requests" => Svc!Request!KeepsName]_vars
    <3> SUFFICES ASSUME which = "requests", [Next]_vars, UNCHANGED Svc!Request!vars PROVE UNCHANGED vars
      OBVIOUS
    <3> QED BY DEF Next, vars, Svc!Request!vars, CronStep, StatelessStep, BreakerStep, AssistStep, SessionStep, RequestStep,
         BootStep, GraphStep, McpStep, OAuthStep, SkillStep, ConnectionStep, StreamStep, AuthStep,
         ConfigStep, ItemsStep, StateStep, MerchantStep, MerchantsStep, ShopStep, ShopsStep, MemoryStep,
         From4, From5, From6, From7, From8, From9, From10, From11, From12, From13, From14, From15
  <2>3. ~(which = "requests") => [which = "requests" => Svc!Request!KeepsName]_vars
    OBVIOUS
  <2> QED BY <2>1, <2>2, <2>3, RequestBehaves, RequestElsewhere, PTL DEF Spec
<1>4. Spec => [][which = "memory" => Exe!Memory!LoadsWhatIsNoted]_vars
  <2>1. Exe!Memory!Spec => [][Exe!Memory!LoadsWhatIsNoted]_(Exe!Memory!vars)
    BY MemoryD, Exe!PreferencesLoad, PTL
  <2>2. which = "memory" /\ [Next]_vars /\ [Exe!Memory!LoadsWhatIsNoted]_(Exe!Memory!vars) => [which = "memory" => Exe!Memory!LoadsWhatIsNoted]_vars
    <3> SUFFICES ASSUME which = "memory", [Next]_vars, UNCHANGED Exe!Memory!vars PROVE UNCHANGED vars
      OBVIOUS
    <3> QED BY DEF Next, vars, Exe!Memory!vars, CronStep, StatelessStep, BreakerStep, AssistStep, SessionStep, RequestStep,
         BootStep, GraphStep, McpStep, OAuthStep, SkillStep, ConnectionStep, StreamStep, AuthStep,
         ConfigStep, ItemsStep, StateStep, MerchantStep, MerchantsStep, ShopStep, ShopsStep, MemoryStep,
         From4, From5, From6, From7, From8, From9, From10, From11, From12, From13, From14, From15
  <2>3. ~(which = "memory") => [which = "memory" => Exe!Memory!LoadsWhatIsNoted]_vars
    OBVIOUS
  <2> QED BY <2>1, <2>2, <2>3, MemoryBehaves, MemoryElsewhere, PTL DEF Spec
<1> QED BY <1>1, <1>2, <1>3, <1>4, PTL DEF NothingUndone
=============================================================================
