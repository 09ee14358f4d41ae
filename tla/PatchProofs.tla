----------------------------- MODULE PatchProofs -----------------------------
(***************************************************************************)
(* What patching, renaming and rolling back do to a template, for any       *)
(* containers, environments, languages and names, and with any of the       *)
(* records lost: proofs about module Patch.                                 *)
(***************************************************************************)
EXTENDS Patch, FiniteSetTheorems, TLAPS

Environment == [Vars -> Entry]

Template == [svc : {<<>>} \union SvcNames, flag : BOOLEAN, lang : Languages \union {"none"},
             init : SUBSET Languages, volumes : SUBSET Languages,
             env : UNION {[C -> Environment] : C \in SUBSET Containers}]

Apps == [Containers -> [lang : Languages \union {"none"}, active : Names]]

-----------------------------------------------------------------------------
(***************************************************************************)
(* What holds of one environment.                                          *)
(***************************************************************************)

Clean(env) == \A v \in Vars : env[v].agents = 0

\* The agent of language l has all it needs, once, and no other has anything.
HasAgent(env, l) == \A v \in Vars : env[v].agents = IF v \in Needed(l) THEN 1 ELSE 0

Agent(env, l) == IF l = "none" THEN Clean(env) ELSE HasAgent(env, l)

\* What has become of the user's part of a variable.
Kept(e, v, l, ls, mine, r) ==
  \/ e.user = mine
  \/ l # "none" /\ v = patcherMap[l].named
  \/ r /\ v \in Removed(ls)
  \/ r /\ v \in Options(ls) /\ mine \in {"empty", "ref"}

UserKept(env, l, ls, mine, r) == \A v \in OwnVars : Kept(env[v], v, l, ls, mine[v], r)

\* Of the tables: every variable a patcher sets its own UnPatch removes.
LEMMA SetIsRemoved ==
  ASSUME NEW l \in Languages
  PROVE  /\ patcherMap[l].constant \subseteq patcherMap[l].removed
         /\ patcherMap[l].named \in patcherMap[l].removed
<1>1. patcherMap["java"] = java /\ patcherMap["python"] = python
      /\ patcherMap["javascript"] = nodeJs /\ patcherMap["dotnet"] = dotNet
  BY DEF patcherMap
<1>2. java.constant \subseteq java.removed /\ java.named \in java.removed
  BY DEF java
<1>3. python.constant \subseteq python.removed /\ python.named \in python.removed
  BY DEF python
<1>4. nodeJs.constant \subseteq nodeJs.removed /\ nodeJs.named \in nodeJs.removed
  BY DEF nodeJs
<1>5. dotNet.constant \subseteq dotNet.removed /\ dotNet.named \in dotNet.removed
  BY DEF dotNet
<1> QED BY <1>1, <1>2, <1>3, <1>4, <1>5 DEF Languages

LEMMA TablesTyped ==
  ASSUME NEW l \in Languages
  PROVE  patcherMap[l].named \in Needed(l) /\ Needed(l) \subseteq Vars /\ OwnVars \subseteq Vars
BY DEF Needed, Vars

\* What an agent needs, the rollback of its language looks for.
LEMMA NeededIsFound ==
  ASSUME NEW ls \in SUBSET Languages, NEW l \in ls
  PROVE  Needed(l) \subseteq Removed(ls) \union Options(ls)
BY SetIsRemoved DEF Needed, Removed, Options

LEMMA UnsetTyped == Unset \in Entry /\ Unset.agents = 0 /\ Unset.user = "none"
BY DEF Unset, Entry, Own, Names

\* What a patcher does to a container: where no agent was, its own is then.
LEMMA PatchContainerKeeps ==
  ASSUME NEW t, NEW c, NEW l \in Languages, t.env[c] \in Environment,
         ServiceName(t, c) \in Names, Clean(t.env[c])
  PROVE  LET new == PatchContainer(t, c, l)
         IN /\ new \in Environment /\ HasAgent(new, l)
            /\ new[patcherMap[l].named].name = ServiceName(t, c)
            /\ \A v \in Vars : new[v].user = t.env[c][v].user
<1> DEFINE env == t.env[c]
           name == ServiceName(t, c)
           new == PatchContainer(t, c, l)
<1>1. new = [v \in Vars |-> PatchEnv(env[v], v, l, name)]
  BY DEF PatchContainer
<1> HIDE DEF name, new
<1>3. ASSUME NEW v \in Vars
      PROVE  /\ new[v] \in Entry /\ new[v].user = env[v].user
             /\ new[v].agents = IF v \in Needed(l) THEN 1 ELSE 0
             /\ v = patcherMap[l].named => new[v].name = name
  <2> DEFINE e == env[v]
             f == new[v]
  <2>1. e \in Entry /\ e.agents = 0 /\ name \in Names /\ f = PatchEnv(e, v, l, name)
    BY <1>1 DEF Environment, Clean, name
  <2> HIDE DEF e, f, env
  <2>2. /\ f.user = e.user /\ f.agents = IF v \in Needed(l) THEN 1 ELSE 0
        /\ f.name = IF v = patcherMap[l].named THEN name ELSE e.name
    BY <2>1 DEF PatchEnv, Entry
  <2>3. f \in Entry
    <3> DEFINE agents == IF v \in Needed(l) THEN e.agents + 1 ELSE e.agents
               called == IF v = patcherMap[l].named THEN name ELSE e.name
               blank == IF v \in patcherMap[l].options /\ e # Unset THEN TRUE ELSE e.blank
    <3>1. e.user \in Own /\ agents \in Nat /\ called \in Names
      BY <2>1 DEF Entry
    <3>2. blank \in BOOLEAN
      BY <2>1 DEF Entry
    <3>3. f = [user |-> e.user, agents |-> agents, name |-> called, blank |-> blank]
      BY <2>1, Zenon DEF PatchEnv
    <3> HIDE DEF agents, called, blank
    <3> QED BY <3>1, <3>2, <3>3, Zenon DEF Entry
  <2> QED BY <2>1, <2>2, <2>3 DEF e, f
<1>4. new \in Environment
  BY <1>1, <1>3 DEF Environment
<1>5. patcherMap[l].named \in Vars
  BY TablesTyped
<1> QED BY <1>3, <1>4, <1>5 DEF HasAgent, new, name

\* What the rollback does to a container: of the agent nothing is left, and of
\* what is the user's, options go that look empty.
LEMMA UnPatchEnvClears ==
  ASSUME NEW env \in Environment, NEW ls \in SUBSET Languages, NEW l, NEW mine \in [OwnVars -> Own],
         \A v \in Vars : env[v].agents # 0 => v \in Removed(ls) \union Options(ls),
         NEW r, UserKept(env, l, ls, mine, r)
  PROVE  LET new == [v \in Vars |-> UnPatchEnv(env[v], v, ls)]
         IN new \in Environment /\ Clean(new) /\ UserKept(new, l, ls, mine, TRUE)
<1> DEFINE new == [v \in Vars |-> UnPatchEnv(env[v], v, ls)]
<1>1. \A v \in Vars : new[v] = UnPatchEnv(env[v], v, ls)
  OBVIOUS
<1>2. ASSUME NEW v \in Vars
      PROVE  /\ UnPatchEnv(env[v], v, ls) \in Entry /\ UnPatchEnv(env[v], v, ls).agents = 0
             /\ v \in OwnVars => Kept(UnPatchEnv(env[v], v, ls), v, l, ls, mine[v], TRUE)
  <2> DEFINE e == env[v]
             f == UnPatchEnv(env[v], v, ls)
  <2>1. e \in Entry /\ (e.agents # 0 => v \in Removed(ls) \union Options(ls))
    BY DEF Environment
  <2>2. v \in OwnVars => Kept(e, v, l, ls, mine[v], r) /\ mine[v] \in Own
    BY DEF UserKept
  <2>3. f = UnPatchEnv(e, v, ls)
    OBVIOUS
  <2> HIDE DEF e, f
  <2>4. CASE v \in Removed(ls)
    <3>1. f = Unset
      BY <2>3, <2>4 DEF UnPatchEnv
    <3> QED BY <2>4, <3>1, UnsetTyped DEF Kept, f
  <2>5. CASE v \in Options(ls) \ Removed(ls) /\ (e.user = "text" \/ e.blank)
    <3>1. f = [e EXCEPT !.agents = 0]
      BY <2>3, <2>5 DEF UnPatchEnv
    <3>2. f \in Entry /\ f.agents = 0 /\ f.user = e.user
      BY <2>1, <3>1 DEF Entry
    <3> QED BY <2>2, <3>2 DEF Kept, f
  <2>6. CASE v \in Options(ls) \ Removed(ls) /\ e.user # "text" /\ ~e.blank
    <3>1. f = Unset
      BY <2>3, <2>6 DEF UnPatchEnv
    <3>2. v \in OwnVars => Kept(f, v, l, ls, mine[v], TRUE)
      <4> SUFFICES ASSUME v \in OwnVars PROVE Kept(f, v, l, ls, mine[v], TRUE)
        OBVIOUS
      <4>1. CASE mine[v] = e.user
        <5>1. mine[v] \in {"none", "empty", "ref"}
          BY <2>2, <2>6, <4>1 DEF Own
        <5> QED BY <2>6, <3>1, <5>1, UnsetTyped DEF Kept
      <4>2. CASE mine[v] # e.user
        BY <2>2, <4>2 DEF Kept
      <4> QED BY <4>1, <4>2
    <3> QED BY <3>1, <3>2, UnsetTyped DEF f
  <2>7. CASE v \notin Removed(ls) /\ v \notin Options(ls)
    <3>1. f = e
      BY <2>3, <2>7 DEF UnPatchEnv
    <3> QED BY <2>1, <2>2, <2>7, <3>1 DEF Kept, f
  <2> QED BY <2>4, <2>5, <2>6, <2>7
<1>3. new \in Environment
  BY <1>2 DEF Environment
<1>4. Clean(new)
  BY <1>1, <1>2 DEF Clean
<1>5. UserKept(new, l, ls, mine, TRUE)
  <2>1. OwnVars \subseteq Vars
    BY DEF Vars
  <2> HIDE DEF new
  <2> QED BY <1>1, <1>2, <2>1 DEF UserKept
<1> QED BY <1>3, <1>4, <1>5

\* What a renaming does to a container: one variable is replaced.
LEMMA RenameEnvKeeps ==
  ASSUME NEW env \in Environment, NEW l \in Languages, NEW ls, NEW name \in Names,
         NEW mine, NEW r, HasAgent(env, l), UserKept(env, l, ls, mine, r)
  PROVE  LET v == patcherMap[l].named
             new == [env EXCEPT ![v] = RenameEnv(env[v], l, name)]
         IN /\ new \in Environment /\ HasAgent(new, l) /\ UserKept(new, l, ls, mine, r)
            /\ new[v].name = name
<1> DEFINE w == patcherMap[l].named
           e == RenameEnv(env[w], l, name)
           new == [env EXCEPT ![w] = e]
<1>1. w \in Needed(l) /\ w \in Vars /\ l # "none"
  BY TablesTyped DEF Languages
<1>2. e = [user |-> "none", agents |-> 1, name |-> name, blank |-> l = "python"]
  BY Zenon DEF RenameEnv
<1> HIDE DEF e
<1>3. PICK blank \in BOOLEAN : e = [user |-> "none", agents |-> 1, name |-> name, blank |-> blank]
  BY <1>2, Zenon
<1>4. e \in Entry
  BY <1>3 DEF Entry, Own
<1>5. e.agents = 1 /\ e.name = name
  BY <1>3
<1>6. \A v \in Vars : new[v] = IF v = w THEN e ELSE env[v]
  BY DEF Environment
<1>7. new \in Environment
  BY <1>4 DEF Environment
<1> HIDE DEF new
<1>8. HasAgent(new, l)
  BY <1>1, <1>5, <1>6 DEF HasAgent
<1>9. UserKept(new, l, ls, mine, r)
  BY <1>1, <1>6, TablesTyped DEF UserKept, Kept
<1> QED BY <1>1, <1>5, <1>6, <1>7, <1>8, <1>9 DEF new, e

-----------------------------------------------------------------------------
(***************************************************************************)
(* What holds of the template.                                             *)
(***************************************************************************)

\* Nothing of the agent's is left.
Bare(t) == t.init = {} /\ \A c \in DOMAIN t.env : Clean(t.env[c])

\* Every container has the agent of its language.
Complete(t, a) ==
  \A c \in DOMAIN t.env :
    Agent(t.env[c], a[c].lang) /\ (a[c].lang # "none" => a[c].lang \in t.init)

TemplateInv(t, a, o, r) ==
  /\ t \in Template /\ a \in Apps
  /\ o \in [Containers -> [OwnVars -> Own]]
  /\ t.init \subseteq Found(a)
  /\ IF t.flag THEN Complete(t, a) ELSE Bare(t)
  /\ \A c \in DOMAIN t.env : UserKept(t.env[c], a[c].lang, Found(a), o[c], r)

\* The names in the environments are the recorded ones.
Named(t, h) ==
  \A c \in DOMAIN t.env :
    h[c].lang # "none" => t.env[c][patcherMap[h[c].lang].named].name = h[c].active

SameLangs(a, b) == \A c \in Containers : b[c].lang = a[c].lang

LEMMA EnvTyped ==
  ASSUME NEW t \in Template
  PROVE  /\ DOMAIN t.env \subseteq Containers
         /\ \A c \in DOMAIN t.env : t.env[c] \in Environment
         /\ t.env \in [DOMAIN t.env -> Environment]
<1>1. PICK C \in SUBSET Containers : t.env \in [C -> Environment]
  BY DEF Template
<1> QED BY <1>1

LEMMA FoundTyped ==
  ASSUME NEW a \in Apps
  PROVE  /\ Found(a) \in SUBSET Languages
         /\ \A c \in Containers : a[c].lang # "none" => a[c].lang \in Found(a)
BY DEF Found, Apps

LEMMA NameTyped ==
  ASSUME NEW t \in Template, NEW c \in Containers
  PROVE  ServiceName(t, c) \in Names
BY DEF ServiceName, Names, Template

\* Of the record, only the languages matter to the template.
LEMMA TemplateSame ==
  ASSUME NEW t, NEW a, NEW b \in Apps, NEW o, NEW r, TemplateInv(t, a, o, r), SameLangs(a, b)
  PROVE  TemplateInv(t, b, o, r) /\ Found(b) = Found(a)
<1>1. Found(b) = Found(a)
  BY DEF Found, SameLangs
<1>2. \A c \in DOMAIN t.env : b[c].lang = a[c].lang
  BY EnvTyped DEF TemplateInv, SameLangs
<1>3. Complete(t, a) => Complete(t, b)
  BY <1>2 DEF Complete
<1> QED BY <1>1, <1>2, <1>3 DEF TemplateInv

\* ModifyObject, with the record of the names.
LEMMA ModifyKeeps ==
  ASSUME NEW t, NEW a, NEW o, NEW r, TemplateInv(t, a, o, r), ~t.flag, NEW u \in ModifyObject(t, a)
  PROVE  LET b == RecordNames(t, a)
         IN /\ TemplateInv(u, a, o, r) /\ u.flag
            /\ b \in Apps /\ SameLangs(a, b) /\ Named(u, b)
<1>1. t \in Template /\ a \in Apps /\ Found(a) \in SUBSET Languages /\ Bare(t)
  BY FoundTyped DEF TemplateInv
<1> DEFINE hit == {c \in DOMAIN t.env : a[c].lang # "none"}
           env == [c \in DOMAIN t.env |->
                     IF c \in hit THEN PatchContainer(t, c, a[c].lang) ELSE t.env[c]]
           init == t.init \union {l \in Found(a) : l = "dotnet" => \E c \in hit : a[c].lang = l}
           b == RecordNames(t, a)
<1>2. PICK last \in Found(a) :
        u = [svc |-> t.svc, flag |-> TRUE, lang |-> last, init |-> init,
             volumes |-> t.volumes \union Found(a), env |-> env]
  BY DEF ModifyObject
<1>3. b \in Apps /\ SameLangs(a, b)
  BY <1>1, NameTyped DEF RecordNames, Apps, SameLangs
<1>4. ASSUME NEW c \in DOMAIN t.env
      PROVE  /\ env[c] \in Environment /\ Agent(env[c], a[c].lang)
             /\ UserKept(env[c], a[c].lang, Found(a), o[c], r)
             /\ a[c].lang # "none" =>
                  a[c].lang \in init /\ env[c][patcherMap[a[c].lang].named].name = b[c].active
  <2>1. /\ c \in Containers /\ t.env[c] \in Environment /\ ServiceName(t, c) \in Names
        /\ Clean(t.env[c])
    BY <1>1, EnvTyped, NameTyped DEF Bare
  <2>2. UserKept(t.env[c], a[c].lang, Found(a), o[c], r)
    BY DEF TemplateInv
  <2>3. CASE c \in hit
    <3>1. a[c].lang \in Found(a) /\ a[c].lang \in Languages
      BY <1>1, <2>1, <2>3, FoundTyped
    <3>2. env[c] = PatchContainer(t, c, a[c].lang)
      BY <2>3
    <3>3. b[c].active = ServiceName(t, c)
      BY <1>1, <2>1, <2>3 DEF RecordNames, Apps
    <3>4. a[c].lang \in init
      BY <2>3, <3>1
    <3> HIDE DEF env, init, b
    <3>5. /\ env[c] \in Environment /\ HasAgent(env[c], a[c].lang)
          /\ env[c][patcherMap[a[c].lang].named].name = ServiceName(t, c)
          /\ \A v \in Vars : env[c][v].user = t.env[c][v].user
      BY <2>1, <3>1, <3>2, PatchContainerKeeps
    <3>6. UserKept(env[c], a[c].lang, Found(a), o[c], r)
      BY <2>2, <3>5 DEF UserKept, Kept, Vars
    <3> QED BY <2>3, <3>3, <3>4, <3>5, <3>6 DEF Agent
  <2>4. CASE c \notin hit
    <3>1. env[c] = t.env[c] /\ a[c].lang = "none"
      BY <2>4
    <3> QED BY <2>1, <2>2, <3>1 DEF Agent
  <2> QED BY <2>3, <2>4
<1>5. init \subseteq Found(a)
  BY DEF TemplateInv
<1>6. DOMAIN env = DOMAIN t.env /\ DOMAIN t.env \subseteq Containers
  BY <1>1, EnvTyped
<1>7. env \in [DOMAIN t.env -> Environment]
  BY <1>4
<1> HIDE DEF env, init, b
<1>8. u \in Template
  BY <1>1, <1>2, <1>5, <1>6, <1>7 DEF Template
<1>9. u.env = env /\ u.init = init /\ u.flag
  BY <1>2
<1>10. Complete(u, a)
  BY <1>4, <1>6, <1>9 DEF Complete
<1>11. TemplateInv(u, a, o, r)
  BY <1>1, <1>4, <1>5, <1>6, <1>8, <1>9, <1>10 DEF TemplateInv
<1>12. Named(u, b)
  BY <1>3, <1>4, <1>6, <1>9 DEF Named, SameLangs
<1> QED BY <1>3, <1>9, <1>11, <1>12 DEF b

\* UpdateServiceNameEnv of one language.
Renaming(s, t, a, o, r) ==
  /\ s \in [tmpl : Template, app : Apps]
  /\ TemplateInv(s.tmpl, s.app, o, r) /\ SameLangs(a, s.app)
  /\ s.tmpl.flag = t.flag
  /\ t.flag /\ Named(t, a) => Named(s.tmpl, s.app)

LEMMA RenameOneKeeps ==
  ASSUME NEW s, NEW t, NEW a \in Apps, NEW o, NEW r, Renaming(s, t, a, o, r),
         t.flag \/ Found(a) = {}, NEW l \in Languages
  PROVE  Renaming(UpdateServiceNameEnv(s, l), t, a, o, r)
<1> DEFINE old == s.tmpl
           due == {c \in DOMAIN old.env : /\ s.app[c].lang = l
                                          /\ s.app[c].active # <<>>
                                          /\ s.app[c].active # ServiceName(old, c)}
           w == patcherMap[l].named
           env == [c \in due |->
                     [old.env[c] EXCEPT ![w] = RenameEnv(old.env[c][w], l, ServiceName(old, c))]]
           app_ == [c \in Containers |->
                      IF c \in due THEN [s.app[c] EXCEPT !.active = ServiceName(old, c)] ELSE s.app[c]]
           new == UpdateServiceNameEnv(s, l)
<1>1. old \in Template /\ s.app \in Apps /\ TemplateInv(old, s.app, o, r) /\ SameLangs(a, s.app)
  BY DEF Renaming
<1>2. CASE due = {}
  BY <1>2 DEF UpdateServiceNameEnv
<1>3. CASE due # {}
  <2>1. new = [tmpl |-> [old EXCEPT !.env = env], app |-> app_]
    BY <1>3 DEF UpdateServiceNameEnv
  <2>2. due \subseteq DOMAIN old.env /\ DOMAIN old.env \subseteq Containers /\ DOMAIN env = due
    BY <1>1, EnvTyped
  <2>3. l \in Found(s.app) /\ l # "none"
    BY <1>1, <1>3, <2>2, FoundTyped DEF Languages
  <2>4. old.flag /\ t.flag /\ Complete(old, s.app)
    <3>1. Found(a) = Found(s.app)
      BY <1>1, TemplateSame DEF Found, SameLangs
    <3> QED BY <1>1, <2>3, <3>1 DEF Renaming, TemplateInv
  <2>5. app_ \in Apps /\ SameLangs(s.app, app_) /\ SameLangs(a, app_)
        /\ \A c \in due : app_[c].lang = l /\ app_[c].active = ServiceName(old, c)
    BY <1>1, <2>2, NameTyped DEF Apps, SameLangs
  <2>6. Found(app_) = Found(s.app)
    BY <2>5 DEF Found, SameLangs
  <2>7. ASSUME NEW c \in due
        PROVE  /\ env[c] \in Environment /\ HasAgent(env[c], l) /\ l \in old.init
               /\ UserKept(env[c], l, Found(s.app), o[c], r)
               /\ env[c][w].name = ServiceName(old, c)
    <3>1. c \in DOMAIN old.env /\ c \in Containers /\ old.env[c] \in Environment
          /\ ServiceName(old, c) \in Names /\ s.app[c].lang = l
      BY <1>1, <2>2, EnvTyped, NameTyped
    <3>2. HasAgent(old.env[c], l) /\ l \in old.init
      BY <2>3, <2>4, <3>1 DEF Complete, Agent
    <3>3. UserKept(old.env[c], l, Found(s.app), o[c], r)
      BY <1>1, <3>1 DEF TemplateInv
    <3>4. env[c] = [old.env[c] EXCEPT ![w] = RenameEnv(old.env[c][w], l, ServiceName(old, c))]
      OBVIOUS
    <3> HIDE DEF env
    <3> DEFINE e == old.env[c]
               name == ServiceName(old, c)
    <3>5. /\ e \in Environment /\ name \in Names
          /\ HasAgent(e, l) /\ UserKept(e, l, Found(s.app), o[c], r)
          /\ env[c] = [e EXCEPT ![w] = RenameEnv(e[w], l, name)]
      BY <3>1, <3>2, <3>3, <3>4
    <3> HIDE DEF e, name
    <3>6. LET v == patcherMap[l].named
              new_ == [e EXCEPT ![v] = RenameEnv(e[v], l, name)]
          IN /\ new_ \in Environment /\ HasAgent(new_, l) /\ UserKept(new_, l, Found(s.app), o[c], r)
             /\ new_[v].name = name
      BY <3>5, RenameEnvKeeps
    <3> QED BY <3>2, <3>5, <3>6 DEF name
  <2>8. env \in [due -> Environment]
    BY <2>7
  <2> HIDE DEF env, app_, new
  <2>9. [old EXCEPT !.env = env] \in Template
    BY <1>1, <2>2, <2>8 DEF Template
  <2>10. /\ new.tmpl = [old EXCEPT !.env = env] /\ new.app = app_
         /\ new.tmpl.env = env /\ new.tmpl.flag = old.flag /\ new.tmpl.init = old.init
    BY <1>1, <2>1 DEF Template
  <2>11. Complete(new.tmpl, new.app)
    BY <2>2, <2>3, <2>5, <2>7, <2>10 DEF Complete, Agent
  <2>12. TemplateInv(new.tmpl, new.app, o, r)
    BY <1>1, <2>2, <2>4, <2>5, <2>6, <2>7, <2>9, <2>10, <2>11 DEF TemplateInv
  <2>13. Named(new.tmpl, new.app)
    BY <2>2, <2>5, <2>7, <2>10 DEF Named
  <2>14. new \in [tmpl : Template, app : Apps]
    BY <2>1, <2>5, <2>9
  <2> QED BY <2>5, <2>10, <2>12, <2>13, <2>14 DEF Renaming, new
<1> QED BY <1>2, <1>3

\* RollbackPatch.
LEMMA RollbackClears ==
  ASSUME NEW t, NEW a, NEW o, NEW r, TemplateInv(t, a, o, r), t.flag \/ Found(a) = {}
  PROVE  /\ TemplateInv(RollbackPatch(t, a), a, o, TRUE)
         /\ RollbackPatch(t, a).flag => Found(a) = {}
<1>1. t \in Template /\ a \in Apps /\ Found(a) \in SUBSET Languages
  BY FoundTyped DEF TemplateInv
<1>2. CASE Found(a) = {}
  BY <1>2 DEF RollbackPatch, TemplateInv, UserKept, Kept
<1>3. CASE Found(a) # {}
  <2> DEFINE env == [c \in DOMAIN t.env |-> [v \in Vars |-> UnPatchEnv(t.env[c][v], v, Found(a))]]
             u == RollbackPatch(t, a)
  <2>1. u = [t EXCEPT !.flag = FALSE, !.lang = "none", !.init = t.init \ Found(a), !.env = env]
    BY <1>1, <1>3 DEF RollbackPatch, Template
  <2>2. ASSUME NEW c \in DOMAIN t.env
        PROVE  /\ env[c] \in Environment /\ Clean(env[c])
               /\ UserKept(env[c], a[c].lang, Found(a), o[c], TRUE)
    <3>1. /\ c \in Containers /\ t.env[c] \in Environment /\ o[c] \in [OwnVars -> Own]
          /\ UserKept(t.env[c], a[c].lang, Found(a), o[c], r)
          /\ Agent(t.env[c], a[c].lang)
      BY <1>1, <1>3, EnvTyped DEF TemplateInv, Complete
    <3>2. ASSUME NEW v \in Vars, t.env[c][v].agents # 0
          PROVE  v \in Removed(Found(a)) \union Options(Found(a))
      <4>1. a[c].lang # "none" /\ v \in Needed(a[c].lang)
        BY <3>1, <3>2 DEF Agent, Clean, HasAgent
      <4>2. a[c].lang \in Found(a)
        BY <1>1, <3>1, <4>1, FoundTyped
      <4> QED BY <1>1, <4>1, <4>2, NeededIsFound
    <3>3. env[c] = [v \in Vars |-> UnPatchEnv(t.env[c][v], v, Found(a))]
      OBVIOUS
    <3> HIDE DEF env
    <3> DEFINE e == t.env[c]
               ls == Found(a)
    <3>4. /\ e \in Environment /\ ls \in SUBSET Languages /\ o[c] \in [OwnVars -> Own]
          /\ \A v \in Vars : e[v].agents # 0 => v \in Removed(ls) \union Options(ls)
          /\ UserKept(e, a[c].lang, ls, o[c], r)
          /\ env[c] = [v \in Vars |-> UnPatchEnv(e[v], v, ls)]
      BY <1>1, <3>1, <3>2, <3>3
    <3> HIDE DEF e, ls
    <3>5. LET new == [v \in Vars |-> UnPatchEnv(e[v], v, ls)]
          IN new \in Environment /\ Clean(new) /\ UserKept(new, a[c].lang, ls, o[c], TRUE)
      BY <3>4, UnPatchEnvClears
    <3> QED BY <3>4, <3>5 DEF ls
  <2>3. DOMAIN env = DOMAIN t.env /\ DOMAIN t.env \subseteq Containers /\ env \in [DOMAIN t.env -> Environment]
    BY <1>1, <2>2, EnvTyped
  <2> HIDE DEF env, u
  <2>4. u.env = env /\ u.init = t.init \ Found(a) /\ ~u.flag
    BY <1>1, <2>1 DEF Template
  <2>5. u.init = {}
    BY <2>4 DEF TemplateInv
  <2>6. u \in Template
    BY <1>1, <2>1, <2>3 DEF Template
  <2>7. Bare(u) /\ TemplateInv(u, a, o, TRUE)
    BY <1>1, <2>2, <2>3, <2>4, <2>5, <2>6 DEF Bare, TemplateInv
  <2> QED BY <2>4, <2>7 DEF u
<1> QED BY <1>2, <1>3

-----------------------------------------------------------------------------
(***************************************************************************)
(* UpdateActiveServiceName.  There are four languages, so the recursion      *)
(* over an order of them can be written out.                               *)
(***************************************************************************)

LEMMA FewLanguages ==
  ASSUME NEW ls \in SUBSET Languages
  PROVE  IsFiniteSet(ls) /\ Cardinality(ls) \in 0..4
<1>1. IsFiniteSet({}) /\ Cardinality({}) = 0
  BY FS_EmptySet
<1>2. IsFiniteSet({"java"}) /\ Cardinality({"java"}) = 1
  BY <1>1, FS_AddElement
<1>3. IsFiniteSet({"java", "python"}) /\ Cardinality({"java", "python"}) = 2
  <2>1. {"java", "python"} = {"java"} \union {"python"} /\ "python" \notin {"java"}
    OBVIOUS
  <2> QED BY <1>2, <2>1, FS_AddElement
<1>4. IsFiniteSet({"java", "python", "javascript"}) /\ Cardinality({"java", "python", "javascript"}) = 3
  <2>1. {"java", "python", "javascript"} = {"java", "python"} \union {"javascript"}
        /\ "javascript" \notin {"java", "python"}
    OBVIOUS
  <2> QED BY <1>3, <2>1, FS_AddElement
<1>5. IsFiniteSet(Languages) /\ Cardinality(Languages) = 4
  <2>1. Languages = {"java", "python", "javascript"} \union {"dotnet"}
        /\ "dotnet" \notin {"java", "python", "javascript"}
    BY DEF Languages
  <2> QED BY <1>4, <2>1, FS_AddElement
<1>6. IsFiniteSet(ls) /\ Cardinality(ls) <= Cardinality(Languages)
  BY <1>5, FS_Subset
<1>7. Cardinality(ls) \in Nat
  BY <1>6, FS_CardinalityType
<1> QED BY <1>5, <1>6, <1>7

Steps(t, a, order, after) ==
  [i \in 0..Len(order) |->
     IF i = 0 THEN [tmpl |-> t, app |-> a] ELSE UpdateServiceNameEnv(after[i - 1], order[i])]

\* There is a sequence of steps.
LEMMA StepsExist ==
  ASSUME NEW t, NEW a, NEW order, Len(order) \in 0..4
  PROVE  \E after : after = Steps(t, a, order, after)
<1> DEFINE n == Len(order)
           s0 == [tmpl |-> t, app |-> a]
           s1 == UpdateServiceNameEnv(s0, order[1])
           s2 == UpdateServiceNameEnv(s1, order[2])
           s3 == UpdateServiceNameEnv(s2, order[3])
           s4 == UpdateServiceNameEnv(s3, order[4])
           after == [i \in 0..n |-> CASE i = 0 -> s0 [] i = 1 -> s1 [] i = 2 -> s2 [] i = 3 -> s3 [] OTHER -> s4]
<1>1. ASSUME NEW i \in 0..n
      PROVE  after[i] = IF i = 0 THEN s0 ELSE UpdateServiceNameEnv(after[i - 1], order[i])
  <2>1. i \in {0, 1, 2, 3, 4}
    <3> HIDE DEF after
    <3>1. n \in 0..4 /\ i \in 0..n
      OBVIOUS
    <3> HIDE DEF n
    <3> QED BY <3>1
  <2>2. CASE i = 0
    BY <2>2
  <2>3. CASE i = 1
    <3>1. after[1] = s1 /\ after[0] = s0
      BY <2>3
    <3> QED BY <2>3, <3>1
  <2>4. CASE i = 2
    <3>1. after[2] = s2 /\ after[1] = s1
      BY <2>4
    <3> QED BY <2>4, <3>1
  <2>5. CASE i = 3
    <3>1. after[3] = s3 /\ after[2] = s2
      BY <2>5
    <3> QED BY <2>5, <3>1
  <2>6. CASE i = 4
    <3>1. after[4] = s4 /\ after[3] = s3
      BY <2>6
    <3> QED BY <2>6, <3>1
  <2> QED BY <2>1, <2>2, <2>3, <2>4, <2>5, <2>6
<1>2. after = Steps(t, a, order, after)
  <2>1. after = [i \in 0..n |-> after[i]]
    OBVIOUS
  <2> HIDE DEF after
  <2> QED BY <1>1, <2>1 DEF Steps
<1> QED BY <1>2

LEMMA UpdateKeeps ==
  ASSUME NEW t, NEW a, NEW o, NEW r, TemplateInv(t, a, o, r), t.flag \/ Found(a) = {},
         NEW s \in UpdateActiveServiceName(t, a)
  PROVE  Renaming(s, t, a, o, r)
<1>1. PICK order \in SetToSeqs(Found(a)) : s = UpdateEach(t, a, order)
  BY DEF UpdateActiveServiceName
<1>2. a \in Apps /\ Found(a) \in SUBSET Languages /\ Cardinality(Found(a)) \in 0..4
  BY FoundTyped, FewLanguages DEF TemplateInv
<1>3. order \in [1..Cardinality(Found(a)) -> Found(a)]
  BY <1>1 DEF SetToSeqs
<1>4. Len(order) = Cardinality(Found(a)) /\ Len(order) \in 0..4
  BY <1>2, <1>3
<1>5. \A i \in 1..Len(order) : order[i] \in Languages
  BY <1>2, <1>3, <1>4
<1> DEFINE after == CHOOSE after : after = Steps(t, a, order, after)
<1>6. s = after[Len(order)]
  BY <1>1 DEF UpdateEach, Steps
<1>7. after = Steps(t, a, order, after)
  BY <1>4, StepsExist
<1> HIDE DEF after
<1>8. /\ after[0] = [tmpl |-> t, app |-> a]
      /\ \A i \in 1..Len(order) : after[i] = UpdateServiceNameEnv(after[i - 1], order[i])
  BY <1>4, <1>7 DEF Steps
<1> DEFINE Good(i) == Renaming(after[i], t, a, o, r)
<1>9. Good(0)
  BY <1>8 DEF Renaming, TemplateInv, SameLangs
<1>10. \A i \in 1..Len(order) : Good(i - 1) => Good(i)
  BY <1>2, <1>5, <1>8, RenameOneKeeps
<1> HIDE DEF Good
<1>11. \A i \in 0..Len(order) : Good(i)
  <2>1. 1 <= Len(order) => Good(1)
    BY <1>4, <1>9, <1>10
  <2>2. 2 <= Len(order) => Good(2)
    BY <1>4, <1>10, <2>1
  <2>3. 3 <= Len(order) => Good(3)
    BY <1>4, <1>10, <2>2
  <2>4. 4 <= Len(order) => Good(4)
    BY <1>4, <1>10, <2>3
  <2> QED BY <1>4, <1>9, <2>1, <2>2, <2>3, <2>4
<1> QED BY <1>4, <1>6, <1>11 DEF Good

-----------------------------------------------------------------------------
(***************************************************************************)
(* The invariant.                                                          *)
(***************************************************************************)

PatchInv ==
  /\ TemplateInv(tmpl, app, own, rolled)
  /\ held \in Apps /\ SameLangs(app, held)
  /\ tmpl.flag /\ ~lost => Named(tmpl, held)

LEMMA InitPatchInv == Init => PatchInv
<1> SUFFICES ASSUME Init PROVE PatchInv
  OBVIOUS
<1>1. PICK ls \in [Containers -> Langs \union {"none"}] :
        app = [c \in Containers |-> [lang |-> ls[c], active |-> <<>>]]
  BY DEF Init
<1>2. app \in Apps /\ held = app
  BY <1>1, PatchAssumption DEF Apps, Names, Init
<1>3. own \in [Containers -> [OwnVars -> Own]]
  BY DEF Init
<1> DEFINE mine(c, v) == IF v \in OwnVars THEN own[c][v] ELSE "none"
           env == [c \in Containers |-> [v \in Vars |-> [Unset EXCEPT !.user = mine(c, v)]]]
<1>4. tmpl = [svc |-> <<>>, flag |-> FALSE, lang |-> "none", init |-> {}, volumes |-> {}, env |-> env]
  BY DEF Init
<1>5. ASSUME NEW c \in Containers, NEW v \in Vars
      PROVE  /\ env[c][v] \in Entry /\ env[c][v].agents = 0
             /\ v \in OwnVars => env[c][v].user = own[c][v]
  <2>1. mine(c, v) \in Own
    BY <1>3 DEF Own
  <2>2. env[c][v] = [Unset EXCEPT !.user = mine(c, v)]
    OBVIOUS
  <2> HIDE DEF env
  <2> QED BY <2>1, <2>2, UnsetTyped DEF Entry
<1>6. env \in [Containers -> Environment]
  BY <1>5 DEF Environment
<1>7. \A c \in Containers : Clean(env[c]) /\ UserKept(env[c], app[c].lang, Found(app), own[c], rolled)
  <2> HIDE DEF env
  <2> QED BY <1>5 DEF Clean, UserKept, Kept, Vars
<1> HIDE DEF env
<1>8. tmpl \in Template
  BY <1>4, <1>6 DEF Template
<1>9. tmpl.env = env /\ DOMAIN env = Containers /\ tmpl.init = {} /\ ~tmpl.flag
  BY <1>4, <1>6
<1>10. Bare(tmpl)
  BY <1>7, <1>9 DEF Bare
<1> QED BY <1>2, <1>3, <1>7, <1>8, <1>9, <1>10 DEF PatchInv, TemplateInv, SameLangs

LEMMA NextPatchInv == PatchInv /\ [Next]_vars => PatchInv'
<1> SUFFICES ASSUME PatchInv, [Next]_vars PROVE PatchInv'
  OBVIOUS
<1>1. /\ TemplateInv(tmpl, app, own, rolled) /\ tmpl \in Template /\ app \in Apps
      /\ held \in Apps /\ SameLangs(app, held)
      /\ tmpl.flag /\ ~lost => Named(tmpl, held)
  BY DEF PatchInv, TemplateInv
<1>2. CASE UNCHANGED vars
  BY <1>1, <1>2 DEF vars, PatchInv
<1>3. CASE Instrument
  <2>1. /\ tmpl' \in ModifyObject(tmpl, app) /\ held' = RecordNames(tmpl, app) /\ ~tmpl.flag
        /\ app' = app /\ own' = own /\ rolled' = rolled
    BY <1>3 DEF Instrument, IsTracesInstrumented
  <2> QED BY <1>1, <2>1, ModifyKeeps DEF PatchInv
<1>4. CASE Rename
  <2>1. PICK s \in UpdateActiveServiceName(tmpl, app) : tmpl' = s.tmpl /\ held' = s.app
    BY <1>4 DEF Rename
  <2>2. /\ app' = app /\ own' = own /\ rolled' = rolled /\ lost' = lost /\ held = app
        /\ tmpl.flag \/ Found(app) = {}
    BY <1>4 DEF Rename, Begins, IsTracesInstrumented
  <2>3. Renaming(s, tmpl, app, own, rolled)
    BY <1>1, <2>1, <2>2, UpdateKeeps
  <2>4. SameLangs(s.app, app)
    BY <2>3 DEF Renaming, SameLangs
  <2>5. TemplateInv(s.tmpl, app, own, rolled)
    BY <1>1, <2>3, <2>4, TemplateSame DEF Renaming
  <2> QED BY <1>1, <2>1, <2>2, <2>3, <2>5 DEF PatchInv, Renaming
<1>5. CASE Rollback
  <2>1. /\ tmpl' = RollbackPatch(tmpl, app) /\ held' = [c \in Containers |-> [app[c] EXCEPT !.active = <<>>]]
        /\ app' = app /\ own' = own /\ rolled' = TRUE
        /\ tmpl.flag \/ Found(app) = {}
    BY <1>5 DEF Rollback, IsTracesInstrumented
  <2>2. held' \in Apps /\ SameLangs(app, held')
    BY <1>1, <2>1 DEF Apps, SameLangs, Names
  <2>3. TemplateInv(tmpl', app, own, TRUE) /\ (tmpl'.flag => Found(app) = {})
    BY <1>1, <2>1, RollbackClears
  <2>4. tmpl'.flag => Named(tmpl', held')
    <3>1. DOMAIN tmpl'.env \subseteq Containers
      BY <2>3, EnvTyped DEF TemplateInv
    <3>2. tmpl'.flag => \A c \in Containers : held'[c].lang = "none"
      BY <1>1, <2>2, <2>3, FoundTyped DEF SameLangs
    <3> QED BY <3>1, <3>2 DEF Named
  <2> QED BY <2>1, <2>2, <2>3, <2>4 DEF PatchInv
<1>6. CASE StoreRecord
  <2>1. app' = held /\ held' = held /\ tmpl' = tmpl /\ own' = own /\ rolled' = rolled /\ lost' = lost
    BY <1>6 DEF StoreRecord
  <2>2. TemplateInv(tmpl, held, own, rolled)
    BY <1>1, TemplateSame
  <2> QED BY <1>1, <2>1, <2>2 DEF PatchInv, SameLangs
<1>7. CASE LoseRecord
  <2>1. app' = app /\ held' = app /\ tmpl' = tmpl /\ own' = own /\ rolled' = rolled /\ lost' = TRUE
    BY <1>7 DEF LoseRecord
  <2> QED BY <1>1, <2>1 DEF PatchInv, SameLangs
<1>8. CASE Annotate
  <2>1. PICK n \in SvcNames \union {<<>>} : tmpl' = [tmpl EXCEPT !.svc = n]
    BY <1>8 DEF Annotate
  <2>2. app' = app /\ held' = held /\ own' = own /\ rolled' = rolled /\ lost' = lost
    BY <1>8 DEF Annotate
  <2>3. tmpl' \in Template /\ tmpl'.env = tmpl.env /\ tmpl'.init = tmpl.init /\ tmpl'.flag = tmpl.flag
    BY <1>1, <2>1 DEF Template
  <2>4. TemplateInv(tmpl', app, own, rolled)
    BY <1>1, <2>3 DEF TemplateInv, Bare, Complete
  <2> QED BY <1>1, <2>2, <2>3, <2>4 DEF PatchInv, Named
<1> QED BY <1>2, <1>3, <1>4, <1>5, <1>6, <1>7, <1>8 DEF Next

THEOREM PatchInvariant == Spec => []PatchInv
BY InitPatchInv, NextPatchInv, PTL DEF Spec

\* Any sequence of patching, renaming, rolling back and annotating, with any of
\* the records lost behind it, leaves a template that is not instrumented without
\* a trace of the agent in any environment and without its init containers
\* (UnPatch of the four patchers).
THEOREM RollbackIsComplete == Spec => []NothingLeftBehind
<1>1. PatchInv => NothingLeftBehind
  BY DEF PatchInv, TemplateInv, Bare, Clean, NothingLeftBehind, InTemplate
<1> QED BY <1>1, PatchInvariant, PTL

\* However a template is patched, renamed and rolled back, and whichever records
\* of it are lost, an instrumented container has what its agent needs exactly
\* once, nothing of another agent's, and its init container (root.go 71-156).
THEOREM AgentStaysComplete == Spec => []AgentComplete
<1>1. ASSUME PatchInv, tmpl.flag, NEW c \in InTemplate
      PROVE  LET l == app[c].lang
                 needed == IF l = "none" THEN {} ELSE Needed(l)
             IN /\ l # "none" => l \in tmpl.init
                /\ \A v \in Vars : tmpl.env[c][v].agents = IF v \in needed THEN 1 ELSE 0
  <2>1. Agent(tmpl.env[c], app[c].lang) /\ (app[c].lang # "none" => app[c].lang \in tmpl.init)
    BY <1>1 DEF PatchInv, TemplateInv, Complete, InTemplate
  <2> QED BY <2>1 DEF Agent, Clean, HasAgent
<1>2. PatchInv => AgentComplete
  BY <1>1 DEF AgentComplete
<1> QED BY <1>2, PatchInvariant, PTL

\* As long as no record is lost, the service name in an environment is the one
\* the object records, or the reconcile in progress is about to (root.go 146-156).
THEOREM NamesStayRecorded == Spec => []NameRecorded
<1>1. PatchInv => NameRecorded
  BY DEF PatchInv, Named, NameRecorded, InTemplate
<1> QED BY <1>1, PatchInvariant, PTL

\* Whatever the user has set, to a text, to nothing or by reference: what is not
\* replaced by a renaming or removed by name in a rollback stays, but for options
\* that are empty to UnPatch (java.go 198, 204, nodejs.go 205).
THEOREM UserEnvSafe == Spec => []UserEnvKept
<1>1. PatchInv => UserEnvKept
  BY DEF PatchInv, TemplateInv, UserKept, Kept, UserEnvKept, InTemplate
<1> QED BY <1>1, PatchInvariant, PTL
=============================================================================
