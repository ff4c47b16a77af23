-------------------------- MODULE WasContents_proofs --------------------------
(***************************************************************************)
(* What the documents of the cell hold, beyond the keys of their objects:   *)
(* no object twice, references that resolve, values as declared. For any    *)
(* number of plays, calls, objects and documents.                           *)
(***************************************************************************)
EXTENDS WasProvision_proofs, WasScript, SequenceTheorems, WellFoundedInduction

-----------------------------------------------------------------------------
(***************************************************************************)
(* Hypotheses about the YAML files and the documents at the start.          *)
(***************************************************************************)
CallsOf(s) == {Calls[s][j] : j \in 1..Len(Calls[s])}
Distinct(q) ==
  \A i, j \in DOMAIN q :
    (i # j /\ Key(q[i]) = Key(q[j])) => q[i].type = "J2EEResourcePropertySet"

\* The data sources of document d with a name that a YAML file gives have the
\* jndiName it gives.
Sourced(d, q) ==
  \A s \in Servers : \A c \in CallsOf(s) : \A i \in DOMAIN q :
    /\ ScopeDoc(s) = d /\ c.fn = "get_or_create_datasources"
    /\ q[i].type = "DataSource" /\ q[i].name = c.name
    => q[i].qual = c.qual

\* A data source of a cluster has one jndiName, in all YAML files and before
\* the first play, when no document has an object twice.
SourcesApart ==
  /\ \A d \in Docs : Distinct(Installed[d]) /\ Sourced(d, Installed[d])
  /\ \A s, t \in Servers : \A b \in CallsOf(s), c \in CallsOf(t) :
       /\ ScopeDoc(s) = ScopeDoc(t) /\ b.name = c.name
       /\ b.fn = "get_or_create_datasources" /\ c.fn = "get_or_create_datasources"
       => b.qual = c.qual

\* The queues of document d with a name that a YAML file gives have the
\* jndiName it gives, and the data sources with its jndiName have its name.
Matched(d, q) ==
  \A s \in Servers : \A c \in CallsOf(s) : \A i \in DOMAIN q :
    ScopeDoc(s) = d =>
      /\ c.fn = "get_or_create_jmsQueue" /\ q[i].type = "MQQueue" /\ q[i].name = c.name
           => q[i].qual = c.qual
      /\ c.fn = "get_or_create_datasources" /\ q[i].type = "DataSource" /\ q[i].qual = c.qual
           => q[i].name = c.name

\* A queue name and the jndiName of a data source are given to one resource of a
\* cluster, in all YAML files and before the first play.
ResourcesMatch ==
  /\ \A d \in Docs : Matched(d, Installed[d])
  /\ \A s, t \in Servers : \A b \in CallsOf(s), c \in CallsOf(t) :
       ScopeDoc(s) = ScopeDoc(t) /\ b.fn = c.fn =>
         /\ b.fn = "get_or_create_jmsQueue" /\ b.name = c.name => b.qual = c.qual
         /\ b.fn = "get_or_create_datasources" /\ b.qual = c.qual => b.name = c.name

\* A server comes with the objects whose settings the script modifies.
SettingsInstalled ==
  \A s \in Servers : \A f \in SettingFunctions :
    OfType(Installed[ServerDoc(s)], TypeOf[f]) # {}

\* The YAML gives an alias for every connection factory.
FactoriesSecured ==
  \A s \in Servers : \A c \in CallsOf(s) : c.fn = "get_or_create_jmsCF" => c.auth # None

\* The YAML gives every call the arguments that it, and main(), need to make it.
ArgumentsGiven == \A s \in Servers : \A c \in CallsOf(s) : c.ok

\* set_vhost_aliases creates the vhost before its aliases.
Homed(q) ==
  \A k \in 1..Len(q) : q[k].fn = "create_alias" =>
    \E j \in 1..(k - 1) : q[j].fn = "get_or_create_vhost" /\ q[j].name = q[k].qual
VhostsFirst == \A s \in Servers : Homed(Calls[s])

\* The calls that set a value that the properties are about.
Setters == {"set_jvm_prop", "link_vhost"}
Target(c, o) ==
  o.type = TypeOf[c.fn] /\ (c.fn = "set_jvm_prop" => o.name = c.name)

\* The YAML of a server gives a JVM property, or the vhost, one value.
SettingsAgree ==
  \A s \in Servers : \A b, c \in CallsOf(s) :
    /\ b.fn \in Setters /\ b.fn = c.fn
    /\ b.fn = "set_jvm_prop" => b.name = c.name
    => b.value = c.value

\* set_vhost_aliases creates the vhost that it links the server to.
LinksOwnVhost ==
  \A s \in Servers : \E b, c \in CallsOf(s) :
    b.fn = "get_or_create_vhost" /\ c.fn = "link_vhost" /\ c.value = b.name

\* What is created with an alias has it from a configjaas before, and what is
\* there at the start refers to aliases that are there.
Scopes == {ScopeDoc(s) : s \in Servers}
AliasKey(a) == <<"JAASAuthData", a, None>>
LinkedLater ==
  {"configjaas", "set_auth", "get_or_create_jmsCF", "get_or_create_datasources"}
AliasesGiven ==
  /\ \A d \in Scopes : \A i \in DOMAIN Installed[d] :
       Installed[d][i].auth = None \/ AliasKey(Installed[d][i].auth) \in KeysOf(Installed[Security])
  /\ \A s \in Servers : \A k \in 1..Len(Calls[s]) :
       Calls[s][k].auth = None \/ Calls[s][k].fn \in LinkedLater
       \/ \E j \in 1..(k - 1) :
            Calls[s][j].fn = "configjaas" /\ Calls[s][j].auth = Calls[s][k].auth

\* set_resource_entries asks for the provider of every server.
ProvidersAsked ==
  \A s \in Servers : \E c \in CallsOf(s) : c.fn = "get_or_create_env_provider"

-----------------------------------------------------------------------------
(***************************************************************************)
(* What a call makes of a document it has opened: Alters an object that was *)
(* there, or Makes one.                                                     *)
(***************************************************************************)
Alters(c, o, p) ==
  /\ p.type = o.type /\ p.name = o.name
  /\ o.type \in {"HostAlias", "DataSource", "MQQueue"} => p.qual = o.qual
  /\ p.auth # o.auth => c.fn = "set_auth" /\ c.auth # None /\ p.auth = c.auth
  /\ p.value # o.value => p.value = Written(c) /\ Target(c, o)

Makes(s, d, c, q, o) ==
  /\ \/ o.type = "J2EEResourcePropertySet"
     \/ Key(o) \notin KeysOf(q)
     \/ o.type = "DataSource" /\ \A i \in OfType(q, "DataSource") : q[i].qual # o.qual
  /\ o.type = "DataSource" =>
       /\ d = ScopeDoc(s) /\ c.fn = "get_or_create_datasources"
       /\ o.name = c.name /\ o.qual = c.qual
  /\ o.type = "MQQueue" =>
       /\ d = ScopeDoc(s) /\ c.fn = "get_or_create_jmsQueue"
       /\ o.name = c.name /\ o.qual = c.qual
  /\ o.type # "WebContainer"
  /\ o.type = "Property" => c.fn = "set_jvm_prop" /\ o.name = c.name /\ o.value = Written(c)
  /\ o.auth # None => o.auth = c.auth /\ c.fn \notin LinkedLater

Edits(s, d, c, q, r) ==
  /\ DOMAIN q \subseteq DOMAIN r
  /\ \A i \in DOMAIN q : Alters(c, q[i], r[i])
  /\ \A i \in DOMAIN r \ DOMAIN q : Makes(s, d, c, q, r[i])
  /\ \A i, j \in DOMAIN r \ DOMAIN q : r[i].type = r[j].type => i = j

OwnSet(s) == {ServerDoc(s), ScopeDoc(s), VHosts, Security}

\* The values that the call of a setter leaves in the server's document.
Sets(s, c) ==
  c.fn \in Setters =>
    /\ ServerDoc(s) \in dirty'[s]
    /\ \A i \in DOMAIN ws'[s][ServerDoc(s)] :
         Target(c, ws'[s][ServerDoc(s)][i]) => ws'[s][ServerDoc(s)][i].value = Written(c)

HasLibrary(q) == \E k \in KeysOf(q) : k[1] = "Library"
Provides(s, c) ==
  (c.fn = "get_or_create_env_provider" /\ jar[s]) =>
    ServerDoc(s) \in opened'[s] /\ HasLibrary(ws'[s][ServerDoc(s)])

EditStep(s) ==
  /\ opened'[s] \subseteq opened[s] \union OwnSet(s)
  /\ \A d \in opened'[s] : Edits(s, d, Current(s), View(s, d), ws'[s][d])
  /\ Sets(s, Current(s))
  /\ Provides(s, Current(s))

\* A document that is left alone.
LEMMA SameEdits ==
  ASSUME NEW s, NEW d, NEW c, NEW q
  PROVE  Edits(s, d, c, q, q)
BY DEF Edits, Alters

\* A document in which values or aliases are set.
LEMMA ValueEdits ==
  ASSUME NEW s, NEW d, NEW c, NEW q \in Seq(Object), NEW I, NEW v,
         v = Written(c), \A i \in I \intersect DOMAIN q : Target(c, q[i])
  PROVE  Edits(s, d, c, q, WithValue(q, I, v))
<1> DEFINE r == WithValue(q, I, v)
<1>1. DOMAIN r = DOMAIN q
  BY DEF WithValue
<1>2. ASSUME NEW i \in DOMAIN q PROVE Alters(c, q[i], r[i])
  <2>1. q[i] \in Object  OBVIOUS
  <2>2. r[i] = IF i \in I THEN [q[i] EXCEPT !.value = v] ELSE q[i]
    BY DEF WithValue
  <2>3. CASE i \notin I
    BY <2>2, <2>3 DEF Alters
  <2>4. CASE i \in I
    BY <2>1, <2>2, <2>4 DEF Alters, Object
  <2> QED BY <2>3, <2>4
<1> QED BY <1>1, <1>2 DEF Edits

\* A document whose JMS factory has been given an alias has the same keys.
LEMMA AuthEdits ==
  ASSUME NEW s, NEW d, NEW c, NEW q \in Seq(Object), NEW I,
         c.fn = "set_auth", c.auth # None
  PROVE  Edits(s, d, c, q, WithAuth(q, I, c.auth))
<1> DEFINE r == WithAuth(q, I, c.auth)
<1>1. DOMAIN r = DOMAIN q
  BY DEF WithAuth
<1>2. ASSUME NEW i \in DOMAIN q PROVE Alters(c, q[i], r[i])
  <2>1. q[i] \in Object  OBVIOUS
  <2>2. r[i] = IF i \in I THEN [q[i] EXCEPT !.auth = c.auth] ELSE q[i]
    BY DEF WithAuth
  <2>3. CASE i \notin I
    BY <2>2, <2>3 DEF Alters
  <2>4. CASE i \in I
    BY <2>1, <2>2, <2>4 DEF Alters, Object
  <2> QED BY <2>3, <2>4
<1> QED BY <1>1, <1>2 DEF Edits

\* A document with one object more.
LEMMA AppendEdits ==
  ASSUME NEW s, NEW d, NEW c, NEW q \in Seq(Object), NEW o \in Object,
         Makes(s, d, c, q, o)
  PROVE  Edits(s, d, c, q, Append(q, o))
<1>1. /\ DOMAIN Append(q, o) = (1..Len(q)) \union {Len(q) + 1}
      /\ \A i \in 1..Len(q) : Append(q, o)[i] = q[i]
      /\ Append(q, o)[Len(q) + 1] = o
      /\ DOMAIN q = 1..Len(q)
  OBVIOUS
<1>2. \A i \in DOMAIN q : Alters(c, q[i], Append(q, o)[i])
  BY <1>1 DEF Alters
<1> QED BY <1>1, <1>2 DEF Edits

\* The type of what each function creates.
LEMMA CreatedTypes ==
  ASSUME NEW f \in Functions
  PROVE  /\ TypeOf[f] = "WebContainer" <=> f = "link_vhost"
         /\ TypeOf[f] = "Property" <=> f = "set_jvm_prop"
         /\ TypeOf[f] = "DataSource" <=> f = "get_or_create_datasources"
         /\ TypeOf[f] = "MQQueue" <=> f = "get_or_create_jmsQueue"
         /\ TypeOf[f] = "J2EEResourcePropertySet" <=> f = "set_custom_prop_entry"
         /\ TypeOf[f] # "Library"
         /\ TypeOf[f] = "HostAlias" <=> f = "create_alias"
BY DEF TypeOf, Functions

\* A call creates the object it is about: one that is not there yet.
LEMMA MakesNew ==
  ASSUME NEW s, NEW d, NEW c \in Call, NEW q \in Seq(Object),
         c.fn # "link_vhost", c.fn \notin LinkedLater,
         c.fn = "get_or_create_jmsQueue" => d = ScopeDoc(s),
         c.fn = "set_custom_prop_entry" \/ Key(NewObject(c)) \notin KeysOf(q)
  PROVE  Makes(s, d, c, q, NewObject(c))
<1>1. c.fn \in Functions  BY DEF Call
<1>2. /\ NewObject(c).type = TypeOf[c.fn] /\ NewObject(c).name = c.name
      /\ NewObject(c).qual = c.qual /\ NewObject(c).value = Written(c)
      /\ NewObject(c).auth = c.auth
  BY DEF NewObject
<1> QED BY <1>1, <1>2, CreatedTypes DEF Makes, LinkedLater

\* Positions and keys: an object with a key that is not there is looked up in vain.
LEMMA AbsentKey ==
  ASSUME NEW c \in Call, NEW q \in Seq(Object)
  PROVE  /\ c.fn # "create_alias" /\ Named(q, TypeOf[c.fn], c.name) = {} =>
              Key(NewObject(c)) \notin KeysOf(q)
         /\ c.fn = "create_alias" /\ KnownAliases(q, c) = {} =>
              Key(NewObject(c)) \notin KeysOf(q)
         /\ Found(q, TypeOf[c.fn], c.name) = {} => Named(q, TypeOf[c.fn], c.name) = {}
         /\ Named(q, "JAASAuthData", c.auth) = {} => Key(JaasObject(c)) \notin KeysOf(q)
<1>1. c.fn \in Functions /\ c.name \in Names  BY DEF Call
<1>2. ASSUME NEW i \in DOMAIN q, Key(q[i]) = Key(NewObject(c))
      PROVE  /\ q[i].type = TypeOf[c.fn] /\ q[i].name = c.name
             /\ c.fn = "create_alias" => q[i].qual = c.qual
  BY <1>1, <1>2, CreatedTypes DEF Key, NewObject
<1>3. ASSUME NEW i \in DOMAIN q, Key(q[i]) = Key(JaasObject(c))
      PROVE  q[i].type = "JAASAuthData" /\ q[i].name = c.auth
  BY <1>3 DEF Key, JaasObject
<1>4. <<c.name, c.name>> \in FoundIn
  BY <1>1, NamesAssumption
<1>5. Found(q, TypeOf[c.fn], c.name) = {} => Named(q, TypeOf[c.fn], c.name) = {}
  BY <1>4 DEF Found, Named
<1>6. TypeOf["create_alias"] = "HostAlias"  BY CreatedTypes DEF Functions
<1> QED BY <1>2, <1>3, <1>5, <1>6 DEF KeysOf, Named, OfType, KnownAliases

\* When no name is part of another, a server uses its own documents.
LEMMA OwnDocOf ==
  ASSUME NoCollision, NEW s \in Servers, NEW f
  PROVE  DocOf(s, f) \in OwnSet(s) /\ Selected(s) = s
<1> DEFINE I == {i \in DOMAIN ServerList : <<s, ServerList[i]>> \in PrefixOf}
<1>1. I \in SUBSET Nat /\ I # {}
  BY ListAssumption, NamesAssumption
<1>2. First(I) \in I
  BY <1>1, FirstLemma
<1>3. Selected(s) = s
  BY <1>2, NamesAssumption DEF Selected, NoCollision
<1> QED BY <1>3 DEF DocOf, OwnSet

\* A call that only reads.
LEMMA ReadEdits ==
  ASSUME TypeOK, NEW s \in Servers, NEW d \in OwnSet(s), NEW i, Read(s, d, i),
         Current(s).fn \notin Setters,
         Current(s).fn = "get_or_create_env_provider" /\ jar[s] =>
           d = ServerDoc(s) /\ HasLibrary(View(s, d))
  PROVE  EditStep(s)
<1>1. d \in Docs
  BY OwnDocs DEF OwnSet
<1>2. /\ opened'[s] = opened[s] \union {d}
      /\ ws'[s][d] = View(s, d)
      /\ \A e \in Docs \ {d} : ws'[s][e] = ws[s][e]
      /\ opened[s] \subseteq Docs
  BY <1>1 DEF Read, TypeOK
<1>3. \A e \in opened'[s] : ws'[s][e] = View(s, e)
  BY <1>2 DEF View
<1>4. \A e \in opened'[s] : Edits(s, e, Current(s), View(s, e), ws'[s][e])
  BY <1>3, SameEdits
<1>5. Sets(s, Current(s)) /\ Provides(s, Current(s))
  BY <1>2 DEF Sets, Provides
<1> QED BY <1>2, <1>4, <1>5 DEF EditStep

\* A call that replaces a document.
LEMMA WriteEdits ==
  ASSUME TypeOK, NEW s \in Servers, NEW d \in OwnSet(s), NEW r, NEW i, Write(s, d, r, i),
         Edits(s, d, Current(s), View(s, d), r),
         Current(s).fn \in Setters =>
           /\ d = ServerDoc(s)
           /\ \A n \in DOMAIN r : Target(Current(s), r[n]) => r[n].value = Written(Current(s)),
         Current(s).fn = "get_or_create_env_provider" /\ jar[s] =>
           d = ServerDoc(s) /\ HasLibrary(r)
  PROVE  EditStep(s)
<1>1. d \in Docs
  BY OwnDocs DEF OwnSet
<1>2. /\ opened'[s] = opened[s] \union {d}
      /\ dirty'[s] = dirty[s] \union {d}
      /\ ws'[s][d] = r
      /\ \A e \in Docs \ {d} : ws'[s][e] = ws[s][e]
      /\ opened[s] \subseteq Docs
  BY <1>1 DEF Write, TypeOK
<1>3. \A e \in opened'[s] \ {d} : ws'[s][e] = View(s, e)
  BY <1>2 DEF View
<1>4. \A e \in opened'[s] : Edits(s, e, Current(s), View(s, e), ws'[s][e])
  BY <1>2, <1>3, SameEdits
<1>5. Sets(s, Current(s)) /\ Provides(s, Current(s))
  BY <1>2 DEF Sets, Provides
<1> QED BY <1>2, <1>4, <1>5 DEF EditStep

\* A call that creates its object, in a document that does not have it.
LEMMA CreateEdits ==
  ASSUME TypeOK, NoCollision, NEW s \in Servers, NEW fs, Calling(s, fs),
         NEW d, d = DocOf(s, Current(s).fn), NEW i,
         Current(s).fn \notin LinkedLater \union {"link_vhost", "get_or_create_env_provider"},
         Write(s, d, Append(View(s, d), NewObject(Current(s))), i),
         Current(s).fn = "set_custom_prop_entry"
           \/ Key(NewObject(Current(s))) \notin KeysOf(View(s, d))
  PROVE  EditStep(s)
<1> DEFINE c == Current(s)
           q == View(s, d)
           r == Append(q, NewObject(c))
<1>1. c \in Call /\ c.fn \in Functions
  BY CurrentLemma DEF Call
<1>2. d \in OwnSet(s) /\ d \in Docs /\ q \in Seq(Object)
  BY OwnDocOf, DocOfLemma, ViewLemma
<1>3. NewObject(c) \in Object
  BY <1>1, ObjectLemma
<1>4. Edits(s, d, c, q, r)
  <2>1. c.fn = "get_or_create_jmsQueue" => d = ScopeDoc(s)
    BY DEF DocOf
  <2> QED BY <1>1, <1>2, <1>3, <2>1, MakesNew, AppendEdits
<1>5. ASSUME c.fn \in Setters
      PROVE  /\ d = ServerDoc(s)
             /\ \A n \in DOMAIN r : Target(c, r[n]) => r[n].value = Written(c)
  <2>1. c.fn = "set_jvm_prop"
    BY <1>5 DEF Setters
  <2>2. d = ServerDoc(s)
    BY <2>1, OwnDocOf DEF DocOf
  <2>3. /\ DOMAIN r = (1..Len(q)) \union {Len(q) + 1}
        /\ \A n \in 1..Len(q) : r[n] = q[n]
        /\ r[Len(q) + 1] = NewObject(c)
        /\ DOMAIN q = 1..Len(q)
    BY <1>2, <1>3
  <2>4. ASSUME NEW n \in DOMAIN q, Target(c, q[n]) PROVE FALSE
    <3>1. Key(q[n]) = Key(NewObject(c))
      BY <1>1, <2>1, <2>4, CreatedTypes DEF Key, NewObject, Target
    <3> QED BY <2>1, <3>1 DEF KeysOf
  <2>5. NewObject(c).value = Written(c)
    BY DEF NewObject
  <2> QED BY <2>2, <2>3, <2>4, <2>5
<1> HIDE DEF r
<1> QED BY <1>2, <1>4, <1>5, WriteEdits DEF r

-----------------------------------------------------------------------------
(***************************************************************************)
(* One lemma per call: it is an EditStep, or the script raises.             *)
(***************************************************************************)
LEMMA ModifySettingEdits ==
  ASSUME TypeOK, NoCollision, NEW s \in Servers, ModifySetting(s)
  PROVE  EditStep(s) \/ Raise(s)
<1> DEFINE c == Current(s)
           d == ServerDoc(s)
           q == View(s, d)
           I == OfType(q, TypeOf[c.fn])
           r == WithValue(q, I, c.value)
<1>1. Calling(s, SettingFunctions)
  BY DEF ModifySetting, SettingFunctions
<1>2. c \in Call /\ c.fn \in SettingFunctions /\ Written(c) = c.value
  <2>1. c \in Call /\ c.fn \in SettingFunctions
    BY <1>1, CurrentLemma
  <2> QED BY <2>1, WrittenLemma DEF SettingFunctions
<1>3. d \in OwnSet(s) /\ d \in Docs /\ q \in Seq(Object)
  BY OwnDocs, ViewLemma DEF OwnSet
<1>4. CASE Write(s, d, r, First(I))
  <2>1. c.fn # "set_jvm_prop" /\ c.fn # "get_or_create_env_provider"
    BY <1>2 DEF SettingFunctions
  <2>2. \A n \in DOMAIN q : n \in I <=> Target(c, q[n])
    BY <2>1 DEF OfType, Target
  <2>3. Edits(s, d, c, q, r)
    BY <1>2, <1>3, <2>2, ValueEdits
  <2>4. \A n \in DOMAIN r : Target(c, r[n]) => r[n].value = c.value
    <3> SUFFICES ASSUME NEW n \in DOMAIN q, Target(c, r[n]) PROVE r[n].value = c.value
      BY DEF WithValue
    <3>1. q[n] \in Object
      BY <1>3
    <3>2. r[n] = IF n \in I THEN [q[n] EXCEPT !.value = c.value] ELSE q[n]
      BY DEF WithValue
    <3> QED BY <2>2, <3>1, <3>2 DEF Object
  <2> HIDE DEF r, I
  <2> QED BY <1>2, <1>3, <1>4, <2>1, <2>3, <2>4, WriteEdits
<1> QED BY <1>4 DEF ModifySetting

\* The five calls that look a name up in the listing of a type.
LEMMA GetOrCreateListedEdits ==
  ASSUME TypeOK, NoCollision, NEW s \in Servers, GetOrCreateListed(s)
  PROVE  EditStep(s) \/ Raise(s)
<1> DEFINE c == Current(s)
           d == DocOf(s, c.fn)
           q == View(s, d)
           t == TypeOf[c.fn]
<1>1. Calling(s, ListedFunctions)
  BY DEF GetOrCreateListed
<1>2. /\ c \in Call /\ c.fn \in ListedFunctions
      /\ d \in OwnSet(s) /\ q \in Seq(Object)
  BY <1>1, CurrentLemma, OwnDocOf, DocOfLemma, ViewLemma
<1>3. /\ c.fn \notin LinkedLater \union {"link_vhost", "get_or_create_env_provider"}
      /\ c.fn \notin Setters /\ c.fn # "create_alias"
  BY <1>2 DEF ListedFunctions, LinkedLater, Setters
<1>4. CASE Found(q, t, c.name) = {} /\ Write(s, d, Append(q, NewObject(c)), Len(q) + 1)
  <2>1. Key(NewObject(c)) \notin KeysOf(q)
    BY <1>2, <1>3, <1>4, AbsentKey
  <2> QED BY <1>1, <1>3, <1>4, <2>1, CreateEdits
<1>5. CASE Read(s, d, First(Starting(q, t, c.name)))
  BY <1>2, <1>3, <1>5, ReadEdits
<1> QED BY <1>4, <1>5 DEF GetOrCreateListed

\* The two calls that take the first listing with the name anywhere in it.
LEMMA GetOrCreateFoundEdits ==
  ASSUME TypeOK, NoCollision, NEW s \in Servers, GetOrCreateFound(s)
  PROVE  EditStep(s)
<1> DEFINE c == Current(s)
           d == DocOf(s, c.fn)
           q == View(s, d)
           I == Found(q, TypeOf[c.fn], c.name)
           fs == {"get_or_create_jdbc_prov", "get_or_create_vhost"}
<1>1. Calling(s, fs)
  BY DEF GetOrCreateFound
<1>2. c \in Call /\ c.fn \in fs /\ d \in OwnSet(s) /\ q \in Seq(Object)
  BY <1>1, CurrentLemma, OwnDocOf, DocOfLemma, ViewLemma
<1>3. /\ c.fn \notin LinkedLater \union {"link_vhost", "get_or_create_env_provider"}
      /\ c.fn \notin Setters /\ c.fn # "create_alias"
  BY <1>2 DEF LinkedLater, Setters
<1>4. CASE I = {} /\ Write(s, d, Append(q, NewObject(c)), Len(q) + 1)
  <2>1. Key(NewObject(c)) \notin KeysOf(q)
    BY <1>2, <1>3, <1>4, AbsentKey
  <2> QED BY <1>1, <1>3, <1>4, <2>1, CreateEdits
<1>5. CASE Read(s, d, First(I))
  BY <1>2, <1>3, <1>5, ReadEdits
<1> QED BY <1>4, <1>5 DEF GetOrCreateFound

\* A custom property is set, or created beside the others.
LEMMA CustomPropEdits ==
  ASSUME TypeOK, NoCollision, NEW s \in Servers, CustomProp(s)
  PROVE  EditStep(s)
<1>1. Calling(s, {"set_custom_prop_entry"}) /\ Current(s).fn = "set_custom_prop_entry"
  BY CurrentLemma DEF CustomProp
<1>2. ServerDoc(s) = DocOf(s, Current(s).fn)
  BY <1>1 DEF DocOf
<1> QED BY <1>1, <1>2, CreateEdits DEF CustomProp, LinkedLater

\* A JVM property is modified where its name is found, or created.
LEMMA JvmPropEdits ==
  ASSUME TypeOK, NoCollision, NEW s \in Servers, JvmProp(s)
  PROVE  EditStep(s)
<1> DEFINE c == Current(s)
           d == DocOf(s, c.fn)
           q == View(s, d)
           r == WithValue(q, Starting(q, "Property", c.name), Written(c))
<1>1. Calling(s, {"set_jvm_prop"})
  BY DEF JvmProp
<1>2. /\ c \in Call /\ c.fn = "set_jvm_prop" /\ TypeOf[c.fn] = "Property"
      /\ d \in OwnSet(s) /\ d = ServerDoc(s) /\ q \in Seq(Object)
  <2>1. c \in Call /\ c.fn = "set_jvm_prop" /\ c.fn \in Functions
    BY <1>1, CurrentLemma DEF Call
  <2> QED BY <2>1, CreatedTypes, OwnDocOf, DocOfLemma, ViewLemma DEF DocOf
<1>3. CASE Named(q, "Property", c.name) = {} /\ Write(s, d, Append(q, NewObject(c)), ret[s])
  <2>1. Key(NewObject(c)) \notin KeysOf(q)
    BY <1>2, <1>3, AbsentKey
  <2>2. c.fn \notin LinkedLater \union {"link_vhost", "get_or_create_env_provider"}
    BY <1>2 DEF LinkedLater
  <2> QED BY <1>1, <1>3, <2>1, <2>2, CreateEdits
<1>4. CASE Write(s, d, r, ret[s])
  <2>1. \A n \in DOMAIN q : n \in Starting(q, "Property", c.name) <=> Target(c, q[n])
    <3>1. \A m : <<c.name, m>> \in PrefixOf <=> m = c.name
      BY <1>2, NamesAssumption DEF NoCollision, Call
    <3> QED BY <1>2, <3>1 DEF Starting, OfType, Target
  <2>2. Edits(s, d, c, q, r)
    BY <1>2, <2>1, ValueEdits
  <2>3. \A n \in DOMAIN r : Target(c, r[n]) => r[n].value = Written(c)
    <3> SUFFICES ASSUME NEW n \in DOMAIN q, Target(c, r[n]) PROVE r[n].value = Written(c)
      BY DEF WithValue
    <3>1. q[n] \in Object
      BY <1>2
    <3>2. r[n] = IF n \in Starting(q, "Property", c.name)
                   THEN [q[n] EXCEPT !.value = Written(c)] ELSE q[n]
      BY DEF WithValue
    <3> QED BY <2>1, <3>1, <3>2 DEF Object
  <2> HIDE DEF r
  <2> QED BY <1>2, <1>4, <2>2, <2>3, WriteEdits
<1> QED BY <1>3, <1>4 DEF JvmProp

\* A virtual host is given one more alias.
LEMMA CreateAliasEdits ==
  ASSUME TypeOK, NoCollision, NEW s \in Servers, CreateAlias(s)
  PROVE  EditStep(s) \/ Raise(s)
<1> DEFINE c == Current(s)
           q == View(s, VHosts)
<1>1. Calling(s, {"create_alias"})
  BY DEF CreateAlias
<1>2. /\ c \in Call /\ c.fn = "create_alias" /\ VHosts = DocOf(s, c.fn)
      /\ VHosts \in OwnSet(s) /\ q \in Seq(Object)
  BY <1>1, CurrentLemma, OwnDocs, ViewLemma DEF DocOf, OwnSet
<1>3. /\ c.fn \notin LinkedLater \union {"link_vhost", "get_or_create_env_provider"}
      /\ c.fn \notin Setters
  BY <1>2 DEF LinkedLater, Setters
<1>4. CASE Read(s, VHosts, ret[s])
  BY <1>2, <1>3, <1>4, ReadEdits
<1>5. CASE KnownAliases(q, c) = {} /\ Write(s, VHosts, Append(q, NewObject(c)), ret[s])
  <2>1. Key(NewObject(c)) \notin KeysOf(q)
    BY <1>2, <1>5, AbsentKey
  <2> QED BY <1>1, <1>2, <1>3, <1>5, <2>1, CreateEdits
<1> QED BY <1>4, <1>5 DEF CreateAlias

\* The alias of a call, where the security document does not have it.
LEMMA MakesAlias ==
  ASSUME NEW s, NEW d, NEW c \in Call, NEW q \in Seq(Object),
         Named(q, "JAASAuthData", c.auth) = {}
  PROVE  Makes(s, d, c, q, JaasObject(c))
<1>1. Key(JaasObject(c)) \notin KeysOf(q)
  BY AbsentKey
<1>2. JaasObject(c).type = "JAASAuthData" /\ JaasObject(c).auth = None
  BY DEF JaasObject
<1> QED BY <1>1, <1>2 DEF Makes

\* A JAAS alias is made once.
LEMMA ConfigJaasEdits ==
  ASSUME TypeOK, NoCollision, NEW s \in Servers, ConfigJaas(s)
  PROVE  EditStep(s)
<1> DEFINE c == Current(s)
           q == View(s, Security)
<1>1. Calling(s, {"configjaas"})
  BY DEF ConfigJaas
<1>2. /\ c \in Call /\ c.fn = "configjaas" /\ c.auth # None
      /\ Security \in OwnSet(s) /\ q \in Seq(Object) /\ JaasObject(c) \in Object
  BY <1>1, CurrentLemma, OwnDocs, ViewLemma, ObjectLemma DEF OwnSet
<1>3. c.fn \notin Setters /\ c.fn # "get_or_create_env_provider"
  BY <1>2 DEF Setters
<1>4. CASE Named(q, "JAASAuthData", c.auth) = {} /\ Write(s, Security, WithAlias(q, c), ret[s])
  <2>1. WithAlias(q, c) = Append(q, JaasObject(c))
    BY <1>4 DEF WithAlias
  <2>2. Edits(s, Security, c, q, Append(q, JaasObject(c)))
    BY <1>2, <1>4, MakesAlias, AppendEdits
  <2> QED BY <1>2, <1>3, <1>4, <2>1, <2>2, WriteEdits
<1>5. CASE Read(s, Security, ret[s])
  BY <1>2, <1>3, <1>5, ReadEdits
<1> QED BY <1>4, <1>5 DEF ConfigJaas

\* A JMS provider is made once.
LEMMA CreateMqJmsEdits ==
  ASSUME TypeOK, NoCollision, NEW s \in Servers, CreateMqJms(s)
  PROVE  EditStep(s)
<1> DEFINE c == Current(s)
           d == ScopeDoc(s)
           q == View(s, d)
<1>1. Calling(s, {"create_mqjms"})
  BY DEF CreateMqJms
<1>2. /\ c \in Call /\ c.fn = "create_mqjms" /\ d = DocOf(s, c.fn)
      /\ d \in OwnSet(s) /\ q \in Seq(Object)
  BY <1>1, CurrentLemma, OwnDocs, ViewLemma DEF DocOf, OwnSet
<1>3. /\ c.fn \notin LinkedLater \union {"link_vhost", "get_or_create_env_provider"}
      /\ c.fn \notin Setters /\ c.fn # "create_alias"
  BY <1>2 DEF LinkedLater, Setters
<1>4. CASE Named(q, TypeOf[c.fn], c.name) = {} /\ Write(s, d, Append(q, NewObject(c)), ret[s])
  <2>1. Key(NewObject(c)) \notin KeysOf(q)
    BY <1>2, <1>3, <1>4, AbsentKey
  <2> QED BY <1>1, <1>2, <1>3, <1>4, <2>1, CreateEdits
<1>5. CASE Read(s, d, ret[s])
  BY <1>2, <1>3, <1>5, ReadEdits
<1> QED BY <1>4, <1>5 DEF CreateMqJms

\* A taken queue name ends the script or is passed over; nothing is made twice.
LEMMA JmsQueueEdits ==
  ASSUME TypeOK, NoCollision, NEW s \in Servers, JmsQueue(s)
  PROVE  EditStep(s) \/ Raise(s)
<1> DEFINE c == Current(s)
           d == ScopeDoc(s)
           q == View(s, d)
           I == Named(q, TypeOf[c.fn], c.name)
           Same == {i \in I : q[i].qual = c.qual}
<1>1. Calling(s, {"get_or_create_jmsQueue"})
  BY DEF JmsQueue
<1>2. /\ c \in Call /\ c.fn = "get_or_create_jmsQueue" /\ d = DocOf(s, c.fn)
      /\ d \in OwnSet(s) /\ q \in Seq(Object)
  BY <1>1, CurrentLemma, OwnDocs, ViewLemma DEF DocOf, OwnSet
<1>3. /\ c.fn \notin LinkedLater \union {"link_vhost", "get_or_create_env_provider"}
      /\ c.fn \notin Setters /\ c.fn # "create_alias"
  BY <1>2 DEF LinkedLater, Setters
<1>4. CASE I = {} /\ Write(s, d, Append(q, NewObject(c)), ret[s])
  <2>1. Key(NewObject(c)) \notin KeysOf(q)
    BY <1>2, <1>3, <1>4, AbsentKey
  <2> QED BY <1>1, <1>2, <1>3, <1>4, <2>1, CreateEdits
<1>5. CASE Same # {} /\ Write(s, d, WithValue(q, {First(Same)}, c.value), ret[s])
  <2>1. First(Same) \in Same
    <3>1. Same \in SUBSET Nat
      BY <1>2, Positions
    <3> QED BY <3>1, <1>5, FirstLemma
  <2>2. Target(c, q[First(Same)])
    BY <2>1 DEF Named, OfType, Target
  <2>3. Edits(s, d, c, q, WithValue(q, {First(Same)}, c.value))
    BY <1>2, <2>2, ValueEdits, WrittenLemma
  <2> HIDE DEF Same
  <2> QED BY <1>2, <1>3, <1>5, <2>3, WriteEdits
<1>6. CASE Read(s, d, ret[s])
  BY <1>2, <1>3, <1>6, ReadEdits
<1> QED BY <1>4, <1>5, <1>6 DEF JmsQueue

\* A data source is made once, for a jndiName that no other one has.
LEMMA DataSourceEdits ==
  ASSUME TypeOK, NoCollision, NEW s \in Servers, DataSource(s)
  PROVE  EditStep(s) \/ Raise(s)
<1> DEFINE c == Current(s)
           d == ScopeDoc(s)
           q == View(s, d)
           Taken == {i \in OfType(q, TypeOf[c.fn]) : q[i].qual = c.qual}
           Same == {i \in Taken : q[i].name = c.name}
           new == [NewObject(c) EXCEPT !.auth = None]
<1>1. Calling(s, {"get_or_create_datasources"})
  BY DEF DataSource
<1>2. /\ c \in Call /\ c.fn = "get_or_create_datasources" /\ TypeOf[c.fn] = "DataSource"
      /\ d \in OwnSet(s) /\ q \in Seq(Object)
  <2>1. c \in Call /\ c.fn = "get_or_create_datasources" /\ c.fn \in Functions
    BY <1>1, CurrentLemma DEF Call
  <2> QED BY <2>1, CreatedTypes, OwnDocs, ViewLemma DEF OwnSet
<1>3. c.fn \notin Setters /\ c.fn # "get_or_create_env_provider"
  BY <1>2 DEF Setters
<1>4. CASE Taken = {} /\ Write(s, d, Append(q, new), Len(q) + 1)
  <2>1. /\ new.type = "DataSource" /\ new.name = c.name /\ new.qual = c.qual
        /\ new.auth = None /\ new \in Object
    BY <1>2, ObjectLemma DEF NewObject, Object
  <2>2. \A i \in OfType(q, "DataSource") : q[i].qual # new.qual
    BY <1>2, <1>4, <2>1
  <2> HIDE DEF new
  <2>3. Makes(s, d, c, q, new)
    BY <1>2, <2>1, <2>2 DEF Makes
  <2>4. Edits(s, d, c, q, Append(q, new))
    BY <1>2, <2>1, <2>3, AppendEdits
  <2> QED BY <1>2, <1>3, <1>4, <2>4, WriteEdits
<1>5. CASE Same # {} /\ Write(s, d, WithValue(q, {First(Same)}, c.value), First(Same))
  <2>1. First(Same) \in Same
    <3>1. Same \in SUBSET Nat
      BY <1>2, Positions
    <3> QED BY <3>1, <1>5, FirstLemma
  <2>2. Target(c, q[First(Same)])
    BY <1>2, <2>1 DEF OfType, Target
  <2>3. Edits(s, d, c, q, WithValue(q, {First(Same)}, c.value))
    BY <1>2, <2>2, ValueEdits, WrittenLemma
  <2> HIDE DEF Same
  <2> QED BY <1>2, <1>3, <1>5, <2>3, WriteEdits
<1> QED BY <1>4, <1>5 DEF DataSource

\* A connection factory is made once; without an alias the call raises.
LEMMA JmsCFEdits ==
  ASSUME TypeOK, NoCollision, NEW s \in Servers, JmsCF(s)
  PROVE  EditStep(s) \/ Raise(s)
<1> DEFINE c == Current(s)
           d == ScopeDoc(s)
           q == View(s, d)
           t == TypeOf[c.fn]
           first == First(Starting(q, t, c.name))
           new == [NewObject(c) EXCEPT !.auth = None]
           changed == [new EXCEPT !.auth = q[first].auth]
<1>1. Calling(s, {"get_or_create_jmsCF"})
  BY DEF JmsCF
<1>2. /\ c \in Call /\ c.fn = "get_or_create_jmsCF" /\ t = "MQConnectionFactory"
      /\ d \in OwnSet(s) /\ q \in Seq(Object)
  <2>1. c \in Call /\ c.fn = "get_or_create_jmsCF"
    BY <1>1, CurrentLemma
  <2>2. TypeOf["get_or_create_jmsCF"] = "MQConnectionFactory"
    BY DEF TypeOf, Functions
  <2> QED BY <2>1, <2>2, OwnDocs, ViewLemma DEF OwnSet
<1>3. c.fn \notin Setters /\ c.fn # "get_or_create_env_provider" /\ c.fn # "create_alias"
  BY <1>2 DEF Setters
<1>4. /\ new.type = t /\ new.name = c.name /\ new.value = Written(c)
      /\ new.auth = None /\ new \in Object
  BY <1>2, ObjectLemma DEF NewObject, Object
<1>5. CASE Named(q, t, c.name) = {} /\ Write(s, d, Append(q, new), Len(q) + 1)
  <2>1. Key(NewObject(c)) \notin KeysOf(q)
    BY <1>2, <1>3, <1>5, AbsentKey
  <2>2. Key(new) = Key(NewObject(c))
    BY <1>2, ObjectLemma DEF Object, Key
  <2> HIDE DEF new
  <2>3. Makes(s, d, c, q, new)
    BY <1>2, <1>4, <2>1, <2>2 DEF Makes
  <2>4. Edits(s, d, c, q, Append(q, new))
    BY <1>2, <1>4, <2>3, AppendEdits
  <2> QED BY <1>2, <1>3, <1>5, <2>4, WriteEdits
<1>6. CASE Named(q, t, c.name) # {} /\ Write(s, d, [q EXCEPT ![first] = changed], first)
  <2>1. Starting(q, t, c.name) = Named(q, t, c.name)
    <3>1. \A m : <<c.name, m>> \in PrefixOf <=> m = c.name
      BY <1>2, NamesAssumption DEF NoCollision, Call
    <3> QED BY <3>1 DEF Starting, Named
  <2>2. first \in Named(q, t, c.name)
    <3>1. Starting(q, t, c.name) \in SUBSET Nat
      BY <1>2, Positions
    <3> QED BY <1>6, <2>1, <3>1, FirstLemma
  <2> HIDE DEF first
  <2>3. first \in DOMAIN q /\ q[first].type = t /\ q[first].name = c.name /\ q[first] \in Object
    BY <1>2, <2>2 DEF Named, OfType
  <2>4. /\ changed.type = t /\ changed.name = c.name /\ changed.value = Written(c)
        /\ changed.auth = q[first].auth
    BY <1>4, <2>3 DEF Object
  <2> HIDE DEF changed
  <2> DEFINE r == [q EXCEPT ![first] = changed]
  <2>5. DOMAIN r = DOMAIN q /\ r[first] = changed /\ \A k \in DOMAIN q \ {first} : r[k] = q[k]
    BY <2>3
  <2>6. Alters(c, q[first], changed)
    BY <1>2, <2>3, <2>4 DEF Alters, Target
  <2>7. \A k \in DOMAIN q : Alters(c, q[k], r[k])
    BY <2>5, <2>6 DEF Alters
  <2>8. Edits(s, d, c, q, r)
    BY <2>5, <2>7 DEF Edits
  <2>9. Write(s, d, r, first)
    BY <1>6
  <2> HIDE DEF r
  <2> QED BY <1>2, <1>3, <2>8, <2>9, WriteEdits
<1> QED BY <1>5, <1>6 DEF JmsCF

\* Sequences of one element or none, one after the other.
LEMMA ShortSequences ==
  ASSUME NEW S, NEW x \in S, NEW y \in S
  PROVE  /\ <<>> \o <<>> = <<>>
         /\ <<x>> \o <<>> = <<x>>
         /\ <<>> \o <<y>> = <<y>>
         /\ <<x>> \o <<y>> = <<x, y>>
<1>1. <<>> \in Seq(S) /\ <<x>> \in Seq(S) /\ <<y>> \in Seq(S) /\ <<x, y>> \in Seq(S)
  OBVIOUS
<1>2. <<>> \o <<>> = <<>> /\ <<x>> \o <<>> = <<x>> /\ <<>> \o <<y>> = <<y>>
  BY <1>1, ConcatEmptySeq
<1>3. <<x>> \o <<y>> = <<x, y>>
  <2> DEFINE z == <<x>> \o <<y>>
             w == <<x, y>>
  <2>1. /\ z \in Seq(S) /\ w \in Seq(S) /\ Len(z) = 2 /\ Len(w) = 2
        /\ z[1] = x /\ z[2] = y /\ w[1] = x /\ w[2] = y
    BY <1>1
  <2> HIDE DEF z, w
  <2>2. Len(z) = Len(w) /\ \A i \in 1..Len(z) : z[i] = w[i]
    BY <2>1
  <2>3. z = w
    BY <2>1, <2>2, SeqEqual, Zenon
  <2> QED BY <2>3 DEF z, w
<1> QED BY <1>2, <1>3

\* get_or_create_env_provider adds a provider, a library, both or neither.
LEMMA EnvProviderEdits ==
  ASSUME TypeOK, NoCollision, NEW s \in Servers, EnvProvider(s)
  PROVE  EditStep(s)
<1> DEFINE c == Current(s)
           d == ServerDoc(s)
           q == View(s, d)
           Providers == OfType(q, "ResourceEnvironmentProvider")
           lib == MissingLibrary(s, c, q)
           new == (IF Providers = {} THEN <<ProviderObject>> ELSE <<>>) \o lib
           provider == IF Providers = {} THEN Len(q) + 1 ELSE First(Providers)
           r == q \o new
<1>1. Calling(s, {"get_or_create_env_provider"})
  BY DEF EnvProvider
<1>2. /\ c \in Call /\ c.fn = "get_or_create_env_provider"
      /\ d \in OwnSet(s) /\ q \in Seq(Object)
      /\ ProviderObject \in Object /\ LibraryObject(c) \in Object
  BY <1>1, CurrentLemma, OwnDocs, ViewLemma, ObjectLemma DEF OwnSet
<1>3. c.fn \notin Setters
  BY <1>2 DEF Setters
<1>4. /\ ProviderObject.type = "ResourceEnvironmentProvider" /\ ProviderObject.auth = None
      /\ LibraryObject(c).type = "Library" /\ LibraryObject(c).auth = None
      /\ Key(LibraryObject(c))[1] = "Library"
  BY DEF ProviderObject, LibraryObject, Key
<1>5. ASSUME NEW i \in DOMAIN q
      PROVE  /\ Key(q[i])[1] = q[i].type
             /\ Key(q[i]) = Key(ProviderObject) => q[i].type = "ResourceEnvironmentProvider"
             /\ Key(q[i]) = Key(LibraryObject(c)) => q[i].type = "Library"
  BY <1>4 DEF Key
<1>6. /\ Providers = {} => Makes(s, d, c, q, ProviderObject)
      /\ OfType(q, "Library") = {} => Makes(s, d, c, q, LibraryObject(c))
  BY <1>4, <1>5 DEF Makes, KeysOf, OfType
<1>7. \/ new = <<>> /\ ~(jar[s] /\ OfType(q, "Library") = {})
      \/ new = <<ProviderObject>> /\ Providers = {} /\ ~(jar[s] /\ OfType(q, "Library") = {})
      \/ new = <<LibraryObject(c)>> /\ OfType(q, "Library") = {}
      \/ new = <<ProviderObject, LibraryObject(c)>> /\ Providers = {} /\ OfType(q, "Library") = {}
  <2>1. lib = IF jar[s] /\ OfType(q, "Library") = {} THEN <<LibraryObject(c)>> ELSE <<>>
    BY DEF MissingLibrary
  <2> HIDE DEF lib
  <2> QED BY <1>2, <2>1, ShortSequences
<1>8. OfType(q, "Library") # {} => HasLibrary(q)
  BY <1>5 DEF HasLibrary, KeysOf, OfType
<1>9. CASE new = <<>> /\ Read(s, d, provider)
  <2>1. jar[s] => HasLibrary(q)
    BY <1>7, <1>8, <1>9
  <2> HIDE DEF new, provider
  <2> QED BY <1>2, <1>3, <1>9, <2>1, ReadEdits
<1>10. CASE Write(s, d, r, provider)
  <2> HIDE DEF new, provider
  <2>1. new \in Seq(Object)
    <3>1. /\ <<ProviderObject>> \in Seq(Object) /\ <<LibraryObject(c)>> \in Seq(Object)
          /\ <<ProviderObject, LibraryObject(c)>> \in Seq(Object) /\ <<>> \in Seq(Object)
      BY <1>2
    <3> QED BY <1>7, <3>1
  <2>2. /\ DOMAIN q = 1..Len(q) /\ DOMAIN r = 1..(Len(q) + Len(new))
        /\ Len(q) \in Nat /\ Len(new) \in Nat
        /\ \A n \in 1..Len(q) : r[n] = q[n]
        /\ \A n \in 1..Len(new) : r[Len(q) + n] = new[n]
    BY <1>2, <2>1
  <2>3. ASSUME NEW i \in DOMAIN r \ DOMAIN q
        PROVE  i - Len(q) \in 1..Len(new) /\ r[i] = new[i - Len(q)]
    <3>1. i - Len(q) \in 1..Len(new) /\ i = Len(q) + (i - Len(q))
      BY <2>2
    <3> QED BY <3>1, <2>2
  <2>4. \A i \in DOMAIN q : Alters(c, q[i], r[i])
    BY <2>2 DEF Alters
  <2>5. \A k \in 1..Len(new) : Makes(s, d, c, q, new[k])
    BY <1>6, <1>7
  <2>6. \A k, l \in 1..Len(new) : new[k].type = new[l].type => k = l
    BY <1>4, <1>7
  <2>7. Edits(s, d, c, q, r)
    <3>1. DOMAIN q \subseteq DOMAIN r
      BY <2>2
    <3>2. \A i \in DOMAIN r \ DOMAIN q : Makes(s, d, c, q, r[i])
      BY <2>3, <2>5
    <3>3. ASSUME NEW i \in DOMAIN r \ DOMAIN q, NEW j \in DOMAIN r \ DOMAIN q,
                 r[i].type = r[j].type
          PROVE  i = j
      <4>1. i - Len(q) = j - Len(q)
        BY <2>3, <2>6, <3>3
      <4>2. i \in Nat /\ j \in Nat
        BY <2>2
      <4> QED BY <2>2, <4>1, <4>2
    <3> HIDE DEF r
    <3> QED BY <2>4, <3>1, <3>2, <3>3 DEF Edits
  <2>8. jar[s] => HasLibrary(r)
    <3>1. ASSUME OfType(q, "Library") # {} PROVE HasLibrary(r)
      BY <1>8, <2>2, <3>1 DEF HasLibrary, KeysOf
    <3>2. ASSUME jar[s], OfType(q, "Library") = {} PROVE HasLibrary(r)
      <4>1. PICK k \in 1..Len(new) : new[k] = LibraryObject(c)
        BY <1>7, <3>2
      <4>2. Len(q) + k \in DOMAIN r /\ r[Len(q) + k] = LibraryObject(c)
        BY <2>2, <4>1
      <4> HIDE DEF r
      <4> QED BY <1>4, <4>2 DEF HasLibrary, KeysOf
    <3> QED BY <3>1, <3>2
  <2>9. Write(s, d, r, provider)
    BY <1>10
  <2> HIDE DEF r
  <2> QED BY <1>2, <1>3, <2>7, <2>8, <2>9, WriteEdits
<1> QED BY <1>9, <1>10 DEF EnvProvider

\* create_jaas and set_auth write two documents.
LEMMA SetAuthEdits ==
  ASSUME TypeOK, NoCollision, NEW s \in Servers, SetAuth(s)
  PROVE  EditStep(s)
<1> DEFINE c == Current(s)
           d == ScopeDoc(s)
           old == View(s, Security)
           new == WithAlias(old, c)
           linked == WithAuth(View(s, d), {ret[s]}, c.auth)
<1>1. Calling(s, {"set_auth"})
  BY DEF SetAuth
<1>2. c \in Call /\ c.fn = "set_auth"
  BY <1>1, CurrentLemma
<1>3. /\ d \in Docs /\ Security \in Docs /\ d # Security
      /\ {d, Security} \subseteq OwnSet(s)
      /\ old \in Seq(Object) /\ View(s, d) \in Seq(Object)
  BY OwnDocs, ViewLemma DEF OwnSet
<1>4. Sets(s, c) /\ Provides(s, c)
  BY <1>2 DEF Sets, Provides, Setters
<1>5. CASE c.auth = None
  <2>1. UNCHANGED <<ws, opened, dirty>>
    BY <1>5 DEF SetAuth
  <2>2. \A e \in opened'[s] : ws'[s][e] = View(s, e)
    BY <2>1 DEF View
  <2>3. \A e \in opened'[s] : Edits(s, e, c, View(s, e), ws'[s][e])
    BY <2>2, SameEdits
  <2> QED BY <1>4, <2>1, <2>3 DEF EditStep
<1>6. CASE c.auth # None
  <2>1. /\ ws' = [ws EXCEPT ![s] = [@ EXCEPT ![Security] = new, ![d] = linked]]
        /\ opened' = [opened EXCEPT ![s] = @ \union {Security, d}]
    BY <1>6 DEF SetAuth
  <2>2. Edits(s, d, c, View(s, d), linked)
    BY <1>2, <1>3, <1>6, AuthEdits
  <2>3. Edits(s, Security, c, old, new)
    <3>1. CASE Named(old, "JAASAuthData", c.auth) = {}
      <4>1. new = Append(old, JaasObject(c))
        BY <3>1 DEF WithAlias
      <4>2. Makes(s, Security, c, old, JaasObject(c)) /\ JaasObject(c) \in Object
        BY <1>2, <1>3, <1>6, <3>1, MakesAlias, ObjectLemma
      <4> QED BY <1>3, <4>1, <4>2, AppendEdits
    <3>2. CASE Named(old, "JAASAuthData", c.auth) # {}
      <4>1. new = old
        BY <3>2 DEF WithAlias
      <4> QED BY <4>1, SameEdits
    <3> QED BY <3>1, <3>2
  <2> HIDE DEF new, linked
  <2>4. /\ ws'[s][Security] = new /\ ws'[s][d] = linked
        /\ \A e \in Docs \ {Security, d} : ws'[s][e] = ws[s][e]
        /\ opened'[s] = opened[s] \union {Security, d}
        /\ opened[s] \subseteq Docs
    BY <1>3, <2>1 DEF TypeOK
  <2>5. \A e \in opened'[s] \ {Security, d} : ws'[s][e] = View(s, e)
    BY <2>4 DEF View
  <2>6. \A e \in opened'[s] : Edits(s, e, c, View(s, e), ws'[s][e])
    BY <2>2, <2>3, <2>4, <2>5, SameEdits
  <2> QED BY <1>3, <1>4, <2>4, <2>6 DEF EditStep
<1> QED BY <1>5, <1>6

\* What any call of a script does to the documents.
LEMMA ScriptEdits ==
  ASSUME TypeOK, NoCollision, NEW s \in Servers, Script(s)
  PROVE  (CallStep(s) /\ EditStep(s)) \/ Raise(s) \/ Save(s)
<1>1. SaveConflict(s) \/ ArgumentError(s) => Raise(s)
  BY DEF SaveConflict, ArgumentError
<1>2. EditStep(s) \/ Raise(s) \/ Save(s)
  BY <1>1, ModifySettingEdits, EnvProviderEdits, GetOrCreateListedEdits,
     GetOrCreateFoundEdits, CustomPropEdits, JvmPropEdits, CreateAliasEdits,
     ConfigJaasEdits, CreateMqJmsEdits, JmsCFEdits, SetAuthEdits, JmsQueueEdits,
     DataSourceEdits DEF Script
<1> QED BY <1>2, ScriptStep

\* Only a running script steps.
LEMMA ScriptRuns ==
  ASSUME NEW s \in Servers, Script(s)
  PROVE  status[s] = "running"
<1>1. ModifySetting(s) \/ EnvProvider(s) \/ GetOrCreateListed(s) => status[s] = "running"
  BY DEF ModifySetting, EnvProvider, GetOrCreateListed, Calling, InMain
<1>2. GetOrCreateFound(s) \/ CustomProp(s) \/ JvmProp(s) => status[s] = "running"
  BY DEF GetOrCreateFound, CustomProp, JvmProp, Calling, InMain
<1>3. CreateAlias(s) \/ ConfigJaas(s) \/ CreateMqJms(s) => status[s] = "running"
  BY DEF CreateAlias, ConfigJaas, CreateMqJms, Calling, InMain
<1>4. JmsCF(s) \/ SetAuth(s) \/ JmsQueue(s) \/ DataSource(s) => status[s] = "running"
  BY DEF JmsCF, SetAuth, JmsQueue, DataSource, Calling, InMain
<1>5. Save(s) \/ SaveConflict(s) \/ ArgumentError(s) => status[s] = "running"
  BY DEF Save, SaveConflict, AtEnd, ArgumentError, InMain
<1> QED BY <1>1, <1>2, <1>3, <1>4, <1>5 DEF Script

\* A step is the start or the end of a play, a call of a script, its save or
\* its failure.
LEMMA StepEdits ==
  ASSUME TypeOK, NoCollision, [Next]_vars
  PROVE  \/ \E s \in Servers : \/ LaunchScript(s) \/ PushJar(s) \/ Save(s)
                               \/ status[s] = "running" /\ Stop(s)
                               \/ CallStep(s) /\ EditStep(s)
         \/ UNCHANGED vars
<1>1. \A s \in Servers : Script(s) /\ Raise(s) => status[s] = "running" /\ Stop(s)
  BY ScriptRuns DEF Raise
<1>2. \A s \in Servers : Fault(s) => status[s] = "running" /\ Stop(s)
  BY DEF Fault
<1> QED BY <1>1, <1>2, ScriptEdits DEF Next

\* The current call is one of those of its server, and the last one made so far.
LEMMA CurrentCall ==
  ASSUME TypeOK, NEW s \in Servers, CallStep(s)
  PROVE  /\ Current(s) \in CallsOf(s) /\ Current(s) \in Call
         /\ pos[s] \in 1..Len(Calls[s]) /\ pos'[s] = pos[s] + 1
         /\ Current(s) = Calls[s][pos[s]]
<1>1. pos[s] \in 1..Len(Calls[s]) /\ pos'[s] = pos[s] + 1
  BY DEF CallStep, Frame, TypeOK
<1>2. Calls[s] \in Seq(Call)
  BY CallsAssumption
<1> QED BY <1>1, <1>2 DEF CallsOf, Current

-----------------------------------------------------------------------------
(***************************************************************************)
(* No object twice.                                                         *)
(***************************************************************************)
Simple(d, q) == Distinct(q) /\ Sourced(d, q)

DistinctInv ==
  /\ \A d \in Docs : Simple(d, master[d])
  /\ \A s \in Servers : \A d \in opened[s] : Simple(d, ws[s][d])

\* A call gives no document an object twice.
LEMMA EditsKeepSimple ==
  ASSUME SourcesApart, NEW s \in Servers, NEW d, NEW c \in CallsOf(s), NEW q, NEW r,
         Simple(d, q), Edits(s, d, c, q, r)
  PROVE  Simple(d, r)
<1>1. ASSUME NEW i \in DOMAIN q
      PROVE  /\ Key(r[i]) = Key(q[i]) /\ r[i].type = q[i].type /\ r[i].name = q[i].name
             /\ q[i].type = "DataSource" => r[i].qual = q[i].qual
  BY DEF Edits, Alters, Key
<1>2. ASSUME NEW i \in DOMAIN r \ DOMAIN q, NEW j \in DOMAIN q, Key(r[i]) = Key(r[j])
      PROVE  r[i].type = "J2EEResourcePropertySet"
  <2>1. Makes(s, d, c, q, r[i])
    BY DEF Edits
  <2>2. Key(r[i]) = Key(q[j]) /\ Key(q[j]) \in KeysOf(q)
    BY <1>1, <1>2 DEF KeysOf
  <2>3. r[i].type = q[j].type /\ r[i].name = q[j].name
    BY <2>2 DEF Key
  <2>4. CASE r[i].type = "DataSource" /\ \A k \in OfType(q, "DataSource") : q[k].qual # r[i].qual
    <3>1. d = ScopeDoc(s) /\ c.fn = "get_or_create_datasources" /\ r[i].name = c.name
          /\ r[i].qual = c.qual
      BY <2>1, <2>4 DEF Makes
    <3>2. q[j].qual = c.qual
      BY <2>3, <2>4, <3>1 DEF Simple, Sourced
    <3> QED BY <2>3, <2>4, <3>1, <3>2 DEF OfType
  <2> QED BY <2>1, <2>2, <2>4 DEF Makes
<1>3. Distinct(r)
  <2> SUFFICES ASSUME NEW i \in DOMAIN r, NEW j \in DOMAIN r, i # j, Key(r[i]) = Key(r[j])
               PROVE  r[i].type = "J2EEResourcePropertySet"
    BY DEF Distinct
  <2>1. r[i].type = r[j].type
    BY DEF Key
  <2>2. CASE i \in DOMAIN q /\ j \in DOMAIN q
    BY <1>1, <2>2 DEF Simple, Distinct
  <2>3. CASE i \notin DOMAIN q /\ j \in DOMAIN q
    BY <1>2, <2>3
  <2>4. CASE i \in DOMAIN q /\ j \notin DOMAIN q
    BY <1>2, <2>1, <2>4
  <2>5. CASE i \notin DOMAIN q /\ j \notin DOMAIN q
    BY <2>1, <2>5 DEF Edits
  <2> QED BY <2>2, <2>3, <2>4, <2>5
<1>4. Sourced(d, r)
  <2> SUFFICES ASSUME NEW t \in Servers, NEW b \in CallsOf(t), NEW i \in DOMAIN r,
                      ScopeDoc(t) = d, b.fn = "get_or_create_datasources",
                      r[i].type = "DataSource", r[i].name = b.name
               PROVE  r[i].qual = b.qual
    BY DEF Sourced
  <2>1. CASE i \in DOMAIN q
    BY <1>1, <2>1 DEF Simple, Sourced
  <2>2. CASE i \notin DOMAIN q
    <3>1. d = ScopeDoc(s) /\ c.fn = "get_or_create_datasources" /\ r[i].name = c.name
          /\ r[i].qual = c.qual
      BY <2>2 DEF Edits, Makes
    <3>2. ScopeDoc(t) = ScopeDoc(s) /\ b.name = c.name
      BY <3>1
    <3>3. b.qual = c.qual
      BY <3>1, <3>2, Zenon DEF SourcesApart
    <3> QED BY <3>1, <3>3
  <2> QED BY <2>1, <2>2
<1> QED BY <1>3, <1>4 DEF Simple

\* No object twice, at the start ...
LEMMA DistinctInit ==
  ASSUME SourcesApart, Init
  PROVE  DistinctInv
BY DEF SourcesApart, Init, DistinctInv, Simple

\* ... and after any step.
LEMMA DistinctStep ==
  ASSUME NoCollision, SourcesApart, CompleteInv, DistinctInv, [Next]_vars
  PROVE  DistinctInv'
<1>1. TypeOK /\ \A s \in Servers : Above(s)
  BY DEF CompleteInv
<1>2. ASSUME NEW s \in Servers, LaunchScript(s) \/ PushJar(s) PROVE DistinctInv'
  <2>1. UNCHANGED <<master, ws, opened>>
    BY <1>2 DEF LaunchScript, PushJar
  <2> QED BY <2>1 DEF DistinctInv
<1>3. ASSUME NEW s \in Servers, Stop(s) PROVE DistinctInv'
  <2>1. Discard(s) /\ master' = master
    BY <1>3 DEF Stop
  <2>2. opened'[s] = {}
    BY <1>1, <2>1 DEF Discard, Fresh, TypeOK
  <2> QED BY <1>1, <2>1, <2>2, OtherRuns DEF DistinctInv
<1>4. ASSUME NEW s \in Servers, CallStep(s), EditStep(s) PROVE DistinctInv'
  <2>1. master' = master
    BY <1>4 DEF CallStep, Frame
  <2>2. \A t \in Servers \ {s} : ws'[t] = ws[t] /\ opened'[t] = opened[t]
    BY <1>4 DEF CallStep, Frame
  <2>3. ASSUME NEW d \in opened'[s] PROVE Simple(d, ws'[s][d])
    <3>1. d \in Docs
      BY <1>4, OwnDocs, <1>1 DEF EditStep, OwnSet, TypeOK
    <3>2. Simple(d, View(s, d))
      BY <3>1 DEF View, DistinctInv
    <3>3. Edits(s, d, Current(s), View(s, d), ws'[s][d])
      BY <1>4 DEF EditStep
    <3> QED BY <1>1, <1>4, <3>2, <3>3, CurrentCall, EditsKeepSimple
  <2> QED BY <2>1, <2>2, <2>3 DEF DistinctInv
<1>5. ASSUME NEW s \in Servers, Save(s) PROVE DistinctInv'
  <2>1. Discard(s) /\ opened'[s] = {}
    BY <1>1, <1>5, SaveLemma DEF Discard, Fresh, TypeOK
  <2>2. ASSUME NEW d \in Docs PROVE Simple(d, master'[d])
    BY <1>1, <1>5, SaveLemma DEF DistinctInv
  <2>3. \A t \in Servers \ {s} : ws'[t] = ws[t] /\ opened'[t] = opened[t]
    BY <1>1, <2>1, OtherRuns
  <2> QED BY <2>1, <2>2, <2>3 DEF DistinctInv
<1>6. CASE UNCHANGED vars
  BY <1>6 DEF vars, DistinctInv
<1> QED BY <1>1, <1>2, <1>3, <1>4, <1>5, <1>6, StepEdits

\* No play creates an object a second time, whatever plays run at the same time
\* or were run before: what it looks for it finds, in what it will save.
THEOREM NothingTwice ==
  ASSUME NoCollision, SourcesApart
  PROVE  Spec => []NoDuplicate
<1>1. Init => CompleteInv /\ DistinctInv
  BY CompleteInit, DistinctInit
<1>2. CompleteInv /\ DistinctInv /\ [Next]_vars => CompleteInv' /\ DistinctInv'
  BY CompleteStep, DistinctStep
<1>3. DistinctInv => NoDuplicate
  BY DEF DistinctInv, Simple, Distinct, NoDuplicate
<1> QED BY <1>1, <1>2, <1>3, PTL DEF Spec

-----------------------------------------------------------------------------
(***************************************************************************)
(* Values as declared.                                                      *)
(***************************************************************************)
HasValue(c, q) == \A i \in DOMAIN q : Target(c, q[i]) => q[i].value = Written(c)

\* A script that has made the call of a setter has the value in the document it
\* will save.
SetSoFar(s) ==
  \A j \in 1..Len(Calls[s]) :
    (j < pos[s] /\ Calls[s][j].fn \in Setters) =>
      ServerDoc(s) \in dirty[s] /\ HasValue(Calls[s][j], ws[s][ServerDoc(s)])

SettingsInv ==
  /\ \A s, t \in Servers : ServerDoc(t) \in opened[s] => s = t
  /\ \A s \in Servers : SetSoFar(s)
  /\ \A s \in Servers : saves[s] > 0 =>
       \A c \in CallsOf(s) : c.fn \in Setters => HasValue(c, master[ServerDoc(s)])

\* The calls of a setter, made by one server, agree on what they both set.
LEMMA Agreement ==
  ASSUME SettingsAgree, NEW s \in Servers, NEW b \in CallsOf(s), NEW c \in CallsOf(s),
         b \in Call, c \in Call, b.fn \in Setters, NEW o, Target(b, o), Target(c, o)
  PROVE  Written(b) = Written(c)
<1>1. b.fn \in Functions /\ c.fn \in Functions
  BY DEF Call
<1>2. TypeOf[b.fn] = TypeOf[c.fn]
  BY DEF Target
<1>3. b.fn = c.fn
  BY <1>1, <1>2, CreatedTypes DEF Setters
<1>4. b.fn = "set_jvm_prop" => b.name = c.name
  BY <1>3 DEF Target
<1>5. b.value = c.value
  BY <1>3, <1>4 DEF SettingsAgree
<1> QED BY <1>3, <1>5 DEF Written

\* A later call leaves what an earlier one has set.
LEMMA EditsKeepValue ==
  ASSUME SettingsAgree, NEW s \in Servers, NEW d, NEW b \in CallsOf(s), NEW c \in CallsOf(s),
         b \in Call, c \in Call, b.fn \in Setters,
         NEW q, NEW r, HasValue(b, q), Edits(s, d, c, q, r)
  PROVE  HasValue(b, r)
<1> SUFFICES ASSUME NEW i \in DOMAIN r, Target(b, r[i]) PROVE r[i].value = Written(b)
  BY DEF HasValue
<1>1. CASE i \in DOMAIN q
  <2>1. Alters(c, q[i], r[i])
    BY <1>1 DEF Edits
  <2>2. Target(b, q[i])
    BY <2>1 DEF Alters, Target
  <2>3. q[i].value = Written(b)
    BY <1>1, <2>2 DEF HasValue
  <2>4. CASE r[i].value # q[i].value
    <3>1. r[i].value = Written(c) /\ Target(c, q[i])
      BY <2>1, <2>4 DEF Alters
    <3> QED BY <2>2, <3>1, Agreement
  <2> QED BY <2>3, <2>4
<1>2. CASE i \notin DOMAIN q
  <2>1. Makes(s, d, c, q, r[i])
    BY <1>2 DEF Edits
  <2>2. b.fn \in Functions /\ r[i].type = TypeOf[b.fn]
    BY DEF Call, Target
  <2>3. r[i].type = "Property"
    BY <2>1, <2>2, CreatedTypes DEF Makes, Setters
  <2>4. c.fn = "set_jvm_prop" /\ r[i].name = c.name /\ r[i].value = Written(c)
    BY <2>1, <2>3 DEF Makes
  <2>5. Target(c, r[i])
    BY <2>3, <2>4, CreatedTypes DEF Target, Call
  <2> QED BY <2>4, <2>5, Agreement
<1> QED BY <1>1, <1>2

\* Values as declared: at the start nothing has been set ...
LEMMA SettingsInit == Init => SettingsInv
BY DEF Init, SettingsInv, SetSoFar

\* The server documents are each opened by one server.
LEMMA OwnServerDoc ==
  ASSUME NEW s \in Servers, NEW t \in Servers, ServerDoc(t) \in OwnSet(s)
  PROVE  s = t
BY DEF OwnSet, ServerDoc, ScopeDoc, VHosts, Security

\* ... a call sets its value and disturbs none set before it ...
LEMMA SettingsCall ==
  ASSUME NoCollision, SettingsAgree, CompleteInv, SettingsInv,
         NEW s \in Servers, CallStep(s), EditStep(s)
  PROVE  SettingsInv'
<1>1. /\ TypeOK /\ Above(s) /\ master' = master /\ saves' = saves
      /\ \A t \in Servers \ {s} : /\ ws'[t] = ws[t] /\ opened'[t] = opened[t]
                                  /\ dirty'[t] = dirty[t]
      /\ dirty[s] \subseteq dirty'[s] /\ opened[s] \subseteq opened'[s]
  BY DEF CompleteInv, CallStep, Frame
<1>2. \A t, u \in Servers : ServerDoc(u) \in opened'[t] => t = u
  BY <1>1, OwnServerDoc DEF EditStep, SettingsInv
<1>3. /\ Current(s) \in CallsOf(s) /\ Current(s) \in Call
      /\ pos[s] \in 1..Len(Calls[s]) /\ pos'[s] = pos[s] + 1
      /\ Current(s) = Calls[s][pos[s]]
  BY <1>1, CurrentCall
<1>4. \A t \in Servers \ {s} : pos'[t] = pos[t]
  BY <1>1 DEF CallStep, Frame, TypeOK
<1>5. \A t \in Servers \ {s} : SetSoFar(t)'
  BY <1>1, <1>4 DEF SettingsInv, SetSoFar
<1>6. ASSUME NEW j \in 1..Len(Calls[s]), j < pos'[s], Calls[s][j].fn \in Setters
      PROVE  ServerDoc(s) \in dirty'[s] /\ HasValue(Calls[s][j], ws'[s][ServerDoc(s)])
  <2> DEFINE d == ServerDoc(s)
             b == Calls[s][j]
  <2>1. b \in Call /\ b \in CallsOf(s)
    BY CallsAssumption DEF CallsOf
  <2>2. CASE j = pos[s]
    BY <1>3, <1>6, <2>2 DEF EditStep, Sets, HasValue
  <2>3. CASE j < pos[s]
    <3>1. d \in dirty[s] /\ HasValue(b, ws[s][d])
      BY <1>6, <2>3 DEF SettingsInv, SetSoFar
    <3>2. d \in opened[s] /\ View(s, d) = ws[s][d]
      BY <1>1, <3>1 DEF Above, View
    <3>3. Edits(s, d, Current(s), ws[s][d], ws'[s][d])
      BY <1>1, <3>2 DEF EditStep
    <3>4. HasValue(b, ws'[s][d])
      BY <1>3, <1>6, <2>1, <3>1, <3>3, EditsKeepValue
    <3> QED BY <1>1, <3>1, <3>4
  <2>4. j < pos[s] \/ j = pos[s]
    BY <1>3, <1>6
  <2> QED BY <2>2, <2>3, <2>4
<1>7. SetSoFar(s)'
  BY <1>6 DEF SetSoFar
<1>8. \A t \in Servers : saves'[t] > 0 =>
        \A c \in CallsOf(t) : c.fn \in Setters => HasValue(c, master'[ServerDoc(t)])
  BY <1>1 DEF SettingsInv
<1> QED BY <1>2, <1>5, <1>7, <1>8 DEF SettingsInv

\* ... a save publishes what its script has set, and no other play's save undoes it ...
LEMMA SettingsSave ==
  ASSUME CompleteInv, SettingsInv, NEW s \in Servers, Save(s)
  PROVE  SettingsInv'
<1>1. /\ TypeOK /\ Above(s) /\ Discard(s) /\ opened'[s] = {} /\ pos'[s] = 1
      /\ dirty[s] \subseteq opened[s]
  <2>1. TypeOK /\ Above(s)
    BY DEF CompleteInv
  <2>2. Discard(s)
    BY <2>1, SaveLemma
  <2> QED BY <2>1, <2>2 DEF Discard, Fresh, TypeOK, Above
<1>2. \A t \in Servers \ {s} : /\ ws'[t] = ws[t] /\ opened'[t] = opened[t]
                               /\ dirty'[t] = dirty[t] /\ pos'[t] = pos[t]
                               /\ saves'[t] = saves[t]
  BY <1>1, OtherRuns, SaveLemma
<1>3. \A t, u \in Servers : ServerDoc(u) \in opened'[t] => t = u
  BY <1>1, <1>2 DEF SettingsInv
<1>4. SetSoFar(s)'
  BY <1>1 DEF SetSoFar
<1>5. \A t \in Servers \ {s} : SetSoFar(t)'
  BY <1>2 DEF SettingsInv, SetSoFar
<1>6. ASSUME NEW c \in CallsOf(s), c.fn \in Setters
      PROVE  HasValue(c, master'[ServerDoc(s)])
  <2>1. PICK j \in 1..Len(Calls[s]) : c = Calls[s][j]
    BY DEF CallsOf
  <2>2. j < pos[s]
    BY <1>1, CallsAssumption DEF Save, AtEnd, TypeOK
  <2>3. ServerDoc(s) \in dirty[s] /\ HasValue(c, ws[s][ServerDoc(s)])
    BY <1>6, <2>1, <2>2 DEF SettingsInv, SetSoFar
  <2> QED BY <1>1, <2>3, SaveLemma
<1>7. ASSUME NEW t \in Servers \ {s} PROVE master'[ServerDoc(t)] = master[ServerDoc(t)]
  <2>1. ServerDoc(t) \notin dirty[s]
    BY <1>1 DEF SettingsInv
  <2> QED BY <1>1, <2>1, OwnDocs, SaveLemma
<1>8. ASSUME NEW t \in Servers, saves'[t] > 0, NEW c \in CallsOf(t), c.fn \in Setters
      PROVE  HasValue(c, master'[ServerDoc(t)])
  <2>1. CASE t = s
    BY <1>6, <1>8, <2>1
  <2>2. CASE t # s
    BY <1>2, <1>7, <1>8, <2>2 DEF SettingsInv
  <2> QED BY <2>1, <2>2
<1> QED BY <1>3, <1>4, <1>5, <1>8 DEF SettingsInv

\* ... so that every step keeps it.
LEMMA SettingsStep ==
  ASSUME NoCollision, SettingsAgree, CompleteInv, SettingsInv, [Next]_vars
  PROVE  SettingsInv'
<1>1. TypeOK
  BY DEF CompleteInv
<1>2. ASSUME NEW s \in Servers, LaunchScript(s) \/ PushJar(s) PROVE SettingsInv'
  <2>1. UNCHANGED <<master, ws, opened, dirty, pos, saves>>
    BY <1>2 DEF LaunchScript, PushJar
  <2> QED BY <2>1 DEF SettingsInv, SetSoFar
<1>3. ASSUME NEW s \in Servers, Stop(s) PROVE SettingsInv'
  <2>1. Discard(s) /\ master' = master /\ saves' = saves
    BY <1>3 DEF Stop
  <2>2. opened'[s] = {} /\ pos'[s] = 1
    BY <1>1, <2>1 DEF Discard, Fresh, TypeOK
  <2>3. SetSoFar(s)'
    BY <2>2 DEF SetSoFar
  <2>4. \A t \in Servers \ {s} : /\ ws'[t] = ws[t] /\ opened'[t] = opened[t]
                                 /\ dirty'[t] = dirty[t] /\ pos'[t] = pos[t]
    BY <1>1, <2>1, OtherRuns
  <2>5. \A t \in Servers \ {s} : SetSoFar(t)'
    BY <2>4 DEF SettingsInv, SetSoFar
  <2> QED BY <2>1, <2>2, <2>3, <2>4, <2>5 DEF SettingsInv
<1>4. CASE UNCHANGED vars
  BY <1>4 DEF vars, SettingsInv, SetSoFar
<1> QED BY <1>1, <1>2, <1>3, <1>4, StepEdits, SettingsCall, SettingsSave

\* A JVM property of a server that was deployed has the value of its YAML,
\* whatever plays for other servers were saved before, meanwhile or after.
THEOREM JvmValuesKept ==
  ASSUME NoCollision, SettingsAgree
  PROVE  Spec => []JvmValuesAsDeclared
<1>1. Init => CompleteInv /\ SettingsInv
  BY CompleteInit, SettingsInit
<1>2. CompleteInv /\ SettingsInv /\ [Next]_vars => CompleteInv' /\ SettingsInv'
  BY CompleteStep, SettingsStep
<1>3. CompleteInv /\ SettingsInv => JvmValuesAsDeclared
  <2> SUFFICES ASSUME CompleteInv, SettingsInv, NEW s \in Servers, saves[s] > 0,
                      NEW n \in 1..Len(Calls[s]), Calls[s][n].fn = "set_jvm_prop"
               PROVE  \E i \in Named(master[ServerDoc(s)], "Property", Calls[s][n].name) :
                        master[ServerDoc(s)][i].value = JvmValue(Calls[s][n].value)
    BY DEF JvmValuesAsDeclared
  <2> DEFINE c == Calls[s][n]
             q == master[ServerDoc(s)]
  <2>1. c \in Call /\ c \in CallsOf(s) /\ TypeOf[c.fn] = "Property"
    <3>1. c \in Call /\ c \in CallsOf(s)
      BY CallsAssumption DEF CallsOf
    <3>2. c.fn \in Functions
      BY <3>1 DEF Call
    <3> QED BY <3>1, <3>2, CreatedTypes
  <2>2. DocOf(s, c.fn) = ServerDoc(s)
    BY OwnDocOf DEF DocOf
  <2>3. c.fn \in PlainFunctions
    BY <2>1 DEF PlainFunctions, SettingFunctions, Call
  <2>4. Key(NewObject(c)) \in Declared(s, ServerDoc(s))
    BY <2>1, <2>2, <2>3, PromisedLemma DEF Declared
  <2>5. Key(NewObject(c)) \in KeysOf(q)
    BY <2>4, OwnDocs DEF CompleteInv, SavedRunIsComplete
  <2>6. PICK i \in DOMAIN q : Key(q[i]) = Key(NewObject(c))
    BY <2>5 DEF KeysOf
  <2>7. q[i].type = "Property" /\ q[i].name = c.name
    BY <2>1, <2>6 DEF Key, NewObject
  <2>8. q[i].value = JvmValue(c.value)
    BY <2>1, <2>7 DEF SettingsInv, HasValue, Setters, Target, Written
  <2> QED BY <2>7, <2>8 DEF Named, OfType
<1> QED BY <1>1, <1>2, <1>3, PTL DEF Spec

-----------------------------------------------------------------------------
(***************************************************************************)
(* References to aliases.                                                   *)
(***************************************************************************)
KnownAlias(s, a) ==
  a = None \/ AliasKey(a) \in KeysOf(master[Security]) \union KeysOf(View(s, Security))

AliasInv ==
  /\ \A d \in Scopes : \A i \in DOMAIN master[d] :
       master[d][i].auth = None \/ AliasKey(master[d][i].auth) \in KeysOf(master[Security])
  /\ \A s \in Servers : \A d \in Scopes \intersect opened[s] : \A i \in DOMAIN ws[s][d] :
       KnownAlias(s, ws[s][d][i].auth)

\* Aliases before references: what is installed refers to installed ones.
LEMMA AliasInit ==
  ASSUME AliasesGiven, Init
  PROVE  AliasInv
BY DEF AliasesGiven, Init, AliasInv

\* A call that makes a reference finds the alias in the security document it
\* sees, or puts it there.
LEMMA AliasCall ==
  ASSUME NoCollision, AliasesGiven, CompleteInv, AliasInv,
         NEW s \in Servers, CallStep(s), EditStep(s)
  PROVE  AliasInv'
<1> DEFINE c == Current(s)
           Seen == KeysOf(master[Security]) \union KeysOf(View(s, Security))
           Seen2 == KeysOf(master'[Security]) \union KeysOf(View(s, Security)')
<1>1. /\ TypeOK /\ OneProviderName /\ Done(s) /\ master' = master
      /\ \A t \in Servers \ {s} : ws'[t] = ws[t] /\ opened'[t] = opened[t]
      /\ opened[s] \subseteq opened'[s] /\ Keeps(s) /\ Delivers(s)
  BY DEF CompleteInv, CallStep, Frame
<1>2. Seen \subseteq Seen2
  <2>1. CASE Security \in opened'[s]
    BY <1>1, <2>1 DEF Keeps, View
  <2>2. CASE Security \notin opened'[s]
    BY <1>1, <2>2 DEF View
  <2> QED BY <2>1, <2>2
<1>3. /\ c \in Call /\ pos[s] \in 1..Len(Calls[s]) /\ c = Calls[s][pos[s]]
  BY <1>1, CurrentCall
<1>4. ASSUME c.fn = "set_auth", c.auth # None PROVE AliasKey(c.auth) \in Seen2
  <2>1. Key(JaasObject(c)) \in Promised(c)
    BY <1>3, <1>4, PromisedLemma
  <2>2. Key(JaasObject(c)) = AliasKey(c.auth)
    BY DEF Key, JaasObject, AliasKey
  <2>3. DocOf(s, c.fn) = Security
    BY <1>4 DEF DocOf
  <2> QED BY <1>1, <2>1, <2>2, <2>3 DEF Delivers, View
<1>5. ASSUME c.auth # None, c.fn \notin LinkedLater PROVE AliasKey(c.auth) \in Seen2
  <2>1. PICK j \in 1..(pos[s] - 1) : Calls[s][j].fn = "configjaas" /\ Calls[s][j].auth = c.auth
    BY <1>3, <1>5 DEF AliasesGiven
  <2> DEFINE b == Calls[s][j]
  <2>2. j \in 1..Len(Calls[s]) /\ j < pos[s]
    BY <1>3, <2>1
  <2>3. b \in Call
    BY <2>2, CallsAssumption
  <2>4. Key(JaasObject(b)) \in Promised(b) /\ Key(JaasObject(b)) = AliasKey(c.auth)
    BY <1>5, <2>1, <2>3, PromisedLemma DEF Key, JaasObject, AliasKey
  <2>5. DocOf(s, b.fn) = Security
    BY <2>1 DEF DocOf
  <2>6. Security \in opened[s] /\ AliasKey(c.auth) \in KeysOf(ws[s][Security])
    BY <1>1, <2>2, <2>4, <2>5 DEF Done
  <2> QED BY <1>2, <2>6 DEF View
<1>6. ASSUME NEW d \in Scopes \intersect opened'[s], NEW i \in DOMAIN ws'[s][d]
      PROVE  ws'[s][d][i].auth = None \/ AliasKey(ws'[s][d][i].auth) \in Seen2
  <2> DEFINE q == View(s, d)
             r == ws'[s][d]
  <2>1. Edits(s, d, c, q, r)
    BY <1>6 DEF EditStep
  <2>2. CASE i \in DOMAIN q
    <3>1. q[i].auth = None \/ AliasKey(q[i].auth) \in Seen
      BY <1>6, <2>2 DEF View, AliasInv, KnownAlias
    <3>2. Alters(c, q[i], r[i])
      BY <2>1, <2>2 DEF Edits
    <3>3. CASE r[i].auth = q[i].auth
      BY <1>2, <3>1, <3>3
    <3>4. CASE r[i].auth # q[i].auth
      BY <1>4, <3>2, <3>4 DEF Alters
    <3> QED BY <3>3, <3>4
  <2>3. CASE i \notin DOMAIN q
    BY <1>5, <2>1, <2>3 DEF Edits, Makes
  <2> QED BY <2>2, <2>3
<1>7. \A t \in Servers \ {s} : View(t, Security)' = View(t, Security)
  BY <1>1 DEF View
<1> QED BY <1>1, <1>6, <1>7 DEF AliasInv, KnownAlias

\* A save publishes references only with, or after, the aliases they are to.
LEMMA AliasSave ==
  ASSUME CompleteInv, AliasInv, NEW s \in Servers, Save(s)
  PROVE  AliasInv'
<1>1. /\ TypeOK /\ Above(s) /\ Clean(s) /\ Discard(s) /\ opened'[s] = {}
  <2>1. TypeOK /\ Above(s) /\ Clean(s)
    BY DEF CompleteInv
  <2>2. Discard(s)
    BY <2>1, SaveLemma
  <2> QED BY <2>1, <2>2 DEF Discard, Fresh, TypeOK
<1>2. \A t \in Servers \ {s} : ws'[t] = ws[t] /\ opened'[t] = opened[t]
  BY <1>1, OtherRuns
<1>3. Security \in Docs /\ Scopes \subseteq Docs
  BY OwnDocs DEF Scopes
<1>4. KeysOf(master[Security]) \subseteq KeysOf(master'[Security])
  BY <1>3, SaveAdds
<1>5. KeysOf(View(s, Security)) \subseteq KeysOf(master'[Security])
  <2>1. CASE Security \in dirty[s]
    BY <1>1, <2>1, SaveLemma DEF View
  <2>2. CASE Security \notin dirty[s]
    BY <1>1, <1>3, <2>2, SaveLemma DEF View, Clean
  <2> QED BY <2>1, <2>2
<1>6. ASSUME NEW d \in Scopes, NEW i \in DOMAIN master'[d]
      PROVE  master'[d][i].auth = None
               \/ AliasKey(master'[d][i].auth) \in KeysOf(master'[Security])
  <2>1. CASE d \in dirty[s]
    <3>1. d \in opened[s] /\ master'[d] = ws[s][d]
      BY <1>1, <2>1, SaveLemma
    <3>2. KnownAlias(s, ws[s][d][i].auth)
      BY <1>6, <3>1 DEF AliasInv
    <3> QED BY <1>4, <1>5, <3>1, <3>2 DEF KnownAlias
  <2>2. CASE d \notin dirty[s]
    <3>1. master'[d] = master[d]
      BY <1>1, <1>3, <2>2, SaveLemma
    <3> QED BY <1>4, <1>6, <3>1 DEF AliasInv
  <2> QED BY <2>1, <2>2
<1>7. ASSUME NEW t \in Servers \ {s}, NEW a, KnownAlias(t, a) PROVE KnownAlias(t, a)'
  <2>1. View(t, Security)' = View(t, Security) \/ View(t, Security)' = master'[Security]
    BY <1>2 DEF View
  <2>2. CASE Security \in opened[t]
    <3>1. View(t, Security)' = View(t, Security)
      BY <1>2, <2>2 DEF View
    <3> QED BY <1>4, <1>7, <3>1 DEF KnownAlias
  <2>3. CASE Security \notin opened[t]
    <3>1. View(t, Security) = master[Security]
      BY <2>3 DEF View
    <3> QED BY <1>4, <1>7, <3>1 DEF KnownAlias
  <2> QED BY <2>2, <2>3
<1>8. ASSUME NEW t \in Servers, NEW d \in Scopes \intersect opened'[t], NEW i \in DOMAIN ws'[t][d]
      PROVE  KnownAlias(t, ws[t][d][i].auth)'
  <2>1. t \in Servers \ {s} /\ ws'[t] = ws[t] /\ d \in Scopes \intersect opened[t]
    BY <1>1, <1>2, <1>8
  <2>2. KnownAlias(t, ws[t][d][i].auth)
    BY <1>8, <2>1 DEF AliasInv
  <2>3. PICK a : a = ws[t][d][i].auth
    OBVIOUS
  <2>4. KnownAlias(t, a)'
    BY <1>7, <2>1, <2>2, <2>3
  <2> QED BY <2>1, <2>3, <2>4 DEF KnownAlias
<1> QED BY <1>6, <1>8 DEF AliasInv

\* Every step keeps the aliases before the references.
LEMMA AliasStep ==
  ASSUME NoCollision, AliasesGiven, CompleteInv, AliasInv, [Next]_vars
  PROVE  AliasInv'
<1>1. TypeOK
  BY DEF CompleteInv
<1>2. ASSUME NEW s \in Servers, LaunchScript(s) \/ PushJar(s) PROVE AliasInv'
  <2>1. UNCHANGED <<master, ws, opened>>
    BY <1>2 DEF LaunchScript, PushJar
  <2> QED BY <2>1 DEF AliasInv, KnownAlias, View
<1>3. ASSUME NEW s \in Servers, Stop(s) PROVE AliasInv'
  <2>1. Discard(s) /\ master' = master
    BY <1>3 DEF Stop
  <2>2. opened'[s] = {}
    BY <1>1, <2>1 DEF Discard, Fresh, TypeOK
  <2>3. \A t \in Servers \ {s} : ws'[t] = ws[t] /\ opened'[t] = opened[t]
    BY <1>1, <2>1, OtherRuns
  <2> QED BY <2>1, <2>2, <2>3 DEF AliasInv, KnownAlias, View
<1>4. CASE UNCHANGED vars
  BY <1>4 DEF vars, AliasInv, KnownAlias, View
<1> QED BY <1>1, <1>2, <1>3, <1>4, StepEdits, AliasCall, AliasSave

\* What refers to a vhost or an alias finds it: the vhost was created by the
\* same script, and the alias is in what the script saves or was saved before.
THEOREM ReferencesStay ==
  ASSUME NoCollision, SettingsAgree, LinksOwnVhost, AliasesGiven
  PROVE  Spec => []ReferencesResolve
<1>1. Init => CompleteInv /\ SettingsInv /\ AliasInv
  BY CompleteInit, SettingsInit, AliasInit
<1>2. CompleteInv /\ SettingsInv /\ AliasInv /\ [Next]_vars
        => CompleteInv' /\ SettingsInv' /\ AliasInv'
  BY CompleteStep, SettingsStep, AliasStep
<1>3. ASSUME AliasInv PROVE AuthAliasDefined
  <2> SUFFICES ASSUME NEW a, AliasKey(a) \in KeysOf(master[Security])
               PROVE  Named(master[Security], "JAASAuthData", a) # {}
    BY <1>3 DEF AuthAliasDefined, AliasInv, Scopes
  <2>1. PICK i \in DOMAIN master[Security] : Key(master[Security][i]) = AliasKey(a)
    BY DEF KeysOf
  <2>2. master[Security][i].type = "JAASAuthData" /\ master[Security][i].name = a
    BY <2>1 DEF Key, AliasKey
  <2> QED BY <2>2 DEF Named, OfType
<1>4. ASSUME CompleteInv, SettingsInv PROVE LinkedVhostExists
  <2> SUFFICES ASSUME NEW s \in Servers, saves[s] > 0,
                      NEW i \in OfType(master[ServerDoc(s)], "WebContainer")
               PROVE  Named(master[VHosts], "VirtualHost",
                            master[ServerDoc(s)][i].value) # {}
    BY DEF LinkedVhostExists
  <2>1. PICK b \in CallsOf(s), c \in CallsOf(s) :
          b.fn = "get_or_create_vhost" /\ c.fn = "link_vhost" /\ c.value = b.name
    BY DEF LinksOwnVhost
  <2>2. /\ b.fn \in Functions /\ b \in Call
        /\ TypeOf["link_vhost"] = "WebContainer" /\ TypeOf["get_or_create_vhost"] = "VirtualHost"
    <3>1. b \in Call
      BY CallsAssumption DEF CallsOf
    <3> QED BY <3>1 DEF Call, TypeOf, Functions
  <2>3. master[ServerDoc(s)][i].value = b.name
    BY <1>4, <2>1, <2>2 DEF SettingsInv, HasValue, Setters, Target, OfType, Written
  <2>4. Key(NewObject(b)) \in Declared(s, VHosts)
    <3>1. b.fn \in PlainFunctions /\ DocOf(s, b.fn) = VHosts
      BY <2>1, <2>2 DEF PlainFunctions, SettingFunctions, DocOf
    <3> QED BY <2>2, <3>1, PromisedLemma DEF Declared, CallsOf
  <2>5. Key(NewObject(b)) \in KeysOf(master[VHosts])
    BY <1>4, <2>4, OwnDocs DEF CompleteInv, SavedRunIsComplete
  <2>6. PICK k \in DOMAIN master[VHosts] : Key(master[VHosts][k]) = Key(NewObject(b))
    BY <2>5 DEF KeysOf
  <2>7. master[VHosts][k].type = "VirtualHost" /\ master[VHosts][k].name = b.name
    BY <2>1, <2>2, <2>6 DEF Key, NewObject
  <2> QED BY <2>3, <2>7 DEF Named, OfType
<1>5. CompleteInv /\ SettingsInv /\ AliasInv => ReferencesResolve
  BY <1>3, <1>4 DEF ReferencesResolve
<1> QED BY <1>1, <1>2, <1>5, PTL DEF Spec

-----------------------------------------------------------------------------
(***************************************************************************)
(* The shared library.                                                      *)
(***************************************************************************)
LibraryInv ==
  \A s \in Servers :
    /\ status[s] # "running" => pos[s] = 1
    /\ status[s] = "running" /\ jar[s] =>
         \A j \in 1..Len(Calls[s]) :
           j < pos[s] /\ Calls[s][j].fn = "get_or_create_env_provider" =>
             ServerDoc(s) \in opened[s] /\ HasLibrary(ws[s][ServerDoc(s)])

\* The library: no script runs at the start.
LEMMA LibraryInit == Init => LibraryInv
BY DEF Init, LibraryInv

\* The call that asks for the provider finds the jar, and makes the library.
LEMMA LibraryCall ==
  ASSUME NoCollision, CompleteInv, LibraryInv, NEW s \in Servers, CallStep(s), EditStep(s)
  PROVE  LibraryInv'
<1>1. /\ TypeOK /\ master' = master /\ saves' = saves /\ jar' = jar /\ status' = status
      /\ status[s] = "running"
      /\ \A t \in Servers \ {s} : ws'[t] = ws[t] /\ opened'[t] = opened[t]
      /\ opened[s] \subseteq opened'[s] /\ Keeps(s)
  BY DEF CompleteInv, CallStep, Frame
<1>2. \A t \in Servers \ {s} : pos'[t] = pos[t]
  BY <1>1 DEF CallStep, Frame, TypeOK
<1>3. /\ pos[s] \in 1..Len(Calls[s]) /\ pos'[s] = pos[s] + 1
      /\ Current(s) = Calls[s][pos[s]]
  BY <1>1, CurrentCall
<1>4. ASSUME jar[s], NEW j \in 1..Len(Calls[s]), j < pos'[s],
             Calls[s][j].fn = "get_or_create_env_provider"
      PROVE  ServerDoc(s) \in opened'[s] /\ HasLibrary(ws'[s][ServerDoc(s)])
  <2>1. CASE j = pos[s]
    BY <1>3, <1>4, <2>1 DEF EditStep, Provides
  <2>2. CASE j < pos[s]
    <3>1. ServerDoc(s) \in opened[s] /\ HasLibrary(View(s, ServerDoc(s)))
      BY <1>1, <1>4, <2>2 DEF LibraryInv, View
    <3> QED BY <1>1, <3>1 DEF Keeps, HasLibrary
  <2> QED BY <1>3, <1>4, <2>1, <2>2
<1> QED BY <1>1, <1>2, <1>4 DEF LibraryInv

\* A script that has seen the jar saves the library, or finds it saved.
LEMMA LibrarySave ==
  ASSUME ProvidersAsked, CompleteInv, LibraryInv, NEW s \in Servers, Save(s)
  PROVE  /\ LibraryInv'
         /\ jar[s] => HasLibrary(master'[ServerDoc(s)])
         /\ \A t \in Servers \ {s} : saves'[t] = saves[t]
<1>1. TypeOK /\ Above(s) /\ Clean(s)
  BY DEF CompleteInv
<1>2. Discard(s) /\ jar' = jar /\ status[s] = "running"
  BY DEF Save, AtEnd
<1>3. /\ pos'[s] = 1 /\ status'[s] = "saved"
      /\ \A t \in Servers \ {s} : status'[t] = status[t] /\ saves'[t] = saves[t]
  BY <1>1, <1>2 DEF Save, Discard, Fresh, TypeOK
<1>4. \A t \in Servers \ {s} : /\ ws'[t] = ws[t] /\ opened'[t] = opened[t]
                               /\ pos'[t] = pos[t]
  BY <1>1, <1>2, OtherRuns
<1>5. LibraryInv'
  BY <1>2, <1>3, <1>4 DEF LibraryInv
<1>6. ASSUME jar[s] PROVE HasLibrary(master'[ServerDoc(s)])
  <2>1. PICK j \in 1..Len(Calls[s]) : Calls[s][j].fn = "get_or_create_env_provider"
    BY DEF ProvidersAsked, CallsOf
  <2>2. j < pos[s]
    BY <1>1, CallsAssumption DEF Save, AtEnd, TypeOK
  <2>3. ServerDoc(s) \in opened[s] /\ HasLibrary(ws[s][ServerDoc(s)])
    BY <1>2, <1>6, <2>1, <2>2 DEF LibraryInv
  <2>4. CASE ServerDoc(s) \in dirty[s]
    BY <1>1, <2>3, <2>4, SaveLemma
  <2>5. CASE ServerDoc(s) \notin dirty[s]
    <3>1. HasLibrary(master[ServerDoc(s)])
      BY <1>1, <2>3, <2>5 DEF Clean, HasLibrary
    <3> QED BY <3>1, SaveAdds, OwnDocs DEF HasLibrary
  <2> QED BY <2>4, <2>5
<1> QED BY <1>3, <1>5, <1>6

\* Every step keeps LibraryInv.
LEMMA LibraryStep ==
  ASSUME NoCollision, ProvidersAsked, CompleteInv, LibraryInv, [Next]_vars
  PROVE  LibraryInv'
<1>1. TypeOK
  BY DEF CompleteInv
<1>2. ASSUME NEW s \in Servers, LaunchScript(s) PROVE LibraryInv'
  <2>1. UNCHANGED <<master, ws, opened, pos, jar, saves>>
    BY <1>2 DEF LaunchScript
  <2>2. /\ status[s] \in {"idle", "failed"} /\ status'[s] = "running"
        /\ \A t \in Servers \ {s} : status'[t] = status[t]
    BY <1>1, <1>2 DEF LaunchScript, TypeOK
  <2> QED BY <2>1, <2>2 DEF LibraryInv
<1>3. ASSUME NEW s \in Servers, PushJar(s) PROVE LibraryInv'
  <2>1. UNCHANGED <<master, ws, opened, pos, saves>>
    BY <1>3 DEF PushJar
  <2>2. /\ status[s] = "saved" /\ status'[s] = "idle"
        /\ \A t \in Servers \ {s} : status'[t] = status[t] /\ jar'[t] = jar[t]
    BY <1>1, <1>3 DEF PushJar, TypeOK
  <2> QED BY <2>1, <2>2 DEF LibraryInv
<1>4. ASSUME NEW s \in Servers, status[s] = "running", Stop(s) PROVE LibraryInv'
  <2>1. Discard(s) /\ UNCHANGED <<master, jar, saves>>
    BY <1>4 DEF Stop
  <2>2. /\ pos'[s] = 1 /\ status'[s] = "failed"
        /\ \A t \in Servers \ {s} : status'[t] = status[t]
    BY <1>1, <1>4, <2>1 DEF Stop, Discard, Fresh, TypeOK
  <2>3. \A t \in Servers \ {s} : /\ ws'[t] = ws[t] /\ opened'[t] = opened[t]
                                 /\ pos'[t] = pos[t]
    BY <1>1, <2>1, OtherRuns
  <2>4. ASSUME NEW t \in Servers PROVE status'[t] # "running" => pos'[t] = 1
    BY <2>2, <2>3 DEF LibraryInv
  <2>5. ASSUME NEW t \in Servers, status'[t] = "running", jar'[t], NEW j \in 1..Len(Calls[t]),
               j < pos'[t], Calls[t][j].fn = "get_or_create_env_provider"
        PROVE  ServerDoc(t) \in opened'[t] /\ HasLibrary(ws'[t][ServerDoc(t)])
    <3>1. t \in Servers \ {s}
      BY <2>2, <2>5
    <3> QED BY <2>1, <2>2, <2>3, <2>5, <3>1 DEF LibraryInv
  <2> QED BY <2>4, <2>5 DEF LibraryInv
<1>5. CASE UNCHANGED vars
  BY <1>5 DEF vars, LibraryInv
<1> QED BY <1>1, <1>2, <1>3, <1>4, <1>5, StepEdits, LibraryCall, LibrarySave

\* Only a save adds to the saves of a server: its own.
LEMMA OwnSaves ==
  ASSUME TypeOK, NoCollision, ProvidersAsked, CompleteInv, LibraryInv, [Next]_vars,
         NEW s \in Servers, saves'[s] > saves[s]
  PROVE  Save(s)
<1>1. saves[s] \in Nat
  BY DEF TypeOK
<1>2. ASSUME NEW t \in Servers, \/ LaunchScript(t) \/ PushJar(t) \/ Stop(t)
                                \/ CallStep(t) \/ UNCHANGED vars
      PROVE  saves' = saves
  BY <1>2 DEF LaunchScript, PushJar, Stop, CallStep, Frame, vars
<1>3. \E t \in Servers : Save(t)
  BY <1>1, <1>2, StepEdits
<1> QED BY <1>1, <1>3, LibrarySave

\* The library follows the jar: however many plays a server had, whether the
\* jar was pushed after them or not, the first play that finds it in place and
\* reaches its save leaves the library in the repository, as do those after it.
THEOREM LibraryFollowsJar ==
  ASSUME NoCollision, ProvidersAsked
  PROVE  Spec => LibraryOnRepeatedPlay
<1>1. Init => CompleteInv /\ LibraryInv
  BY CompleteInit, LibraryInit
<1>2. CompleteInv /\ LibraryInv /\ [Next]_vars => CompleteInv' /\ LibraryInv'
  BY CompleteStep, LibraryStep
<1>3. ASSUME NEW q, HasLibrary(q) PROVE OfType(q, "Library") # {}
  BY <1>3 DEF HasLibrary, KeysOf, Key, OfType
<1>4. ASSUME CompleteInv, LibraryInv, [Next]_vars, NEW s \in Servers, jar[s],
             saves'[s] > saves[s]
      PROVE  OfType(master'[ServerDoc(s)], "Library") # {}
  <2>1. Save(s)
    BY <1>4, OwnSaves DEF CompleteInv
  <2> QED BY <1>3, <1>4, <2>1, LibrarySave
<1>5. CompleteInv /\ LibraryInv /\ [Next]_vars =>
        [\A s \in Servers : jar[s] /\ saves'[s] > saves[s] =>
           OfType(master'[ServerDoc(s)], "Library") # {}]_vars
  BY <1>4
<1> QED BY <1>1, <1>2, <1>5, PTL DEF Spec, LibraryOnRepeatedPlay

-----------------------------------------------------------------------------
(***************************************************************************)
(* No script raises of itself.                                              *)
(***************************************************************************)
Fits(d, q) == Matched(d, q) /\ KeysOf(Installed[d]) \subseteq KeysOf(q)

FitInv ==
  /\ \A d \in Docs : Fits(d, master[d])
  /\ \A s \in Servers : \A d \in opened[s] : Fits(d, ws[s][d])

\* A call leaves what was installed, and makes resources that fit the YAML files.
LEMMA EditsKeepFits ==
  ASSUME ResourcesMatch, NEW s \in Servers, NEW d, NEW c \in CallsOf(s), NEW q, NEW r,
         Fits(d, q), Edits(s, d, c, q, r)
  PROVE  Fits(d, r)
<1>1. ASSUME NEW i \in DOMAIN q
      PROVE  /\ Key(r[i]) = Key(q[i]) /\ r[i].type = q[i].type /\ r[i].name = q[i].name
             /\ q[i].type \in {"DataSource", "MQQueue"} => r[i].qual = q[i].qual
  BY DEF Edits, Alters, Key
<1>2. KeysOf(q) \subseteq KeysOf(r)
  BY <1>1 DEF KeysOf, Edits
<1>3. ASSUME NEW t \in Servers, NEW b \in CallsOf(t), NEW i \in DOMAIN r, ScopeDoc(t) = d,
             b.fn = "get_or_create_jmsQueue", r[i].type = "MQQueue", r[i].name = b.name
      PROVE  r[i].qual = b.qual
  <2>1. CASE i \in DOMAIN q
    BY <1>1, <1>3, <2>1 DEF Fits, Matched
  <2>2. CASE i \notin DOMAIN q
    <3>1. /\ d = ScopeDoc(s) /\ c.fn = "get_or_create_jmsQueue"
          /\ r[i].name = c.name /\ r[i].qual = c.qual
      BY <1>3, <2>2 DEF Edits, Makes
    <3>2. ScopeDoc(t) = ScopeDoc(s) /\ b.name = c.name /\ b.fn = c.fn
      BY <1>3, <3>1
    <3>3. b.qual = c.qual
      BY <1>3, <3>2, Zenon DEF ResourcesMatch
    <3> QED BY <3>1, <3>3
  <2> QED BY <2>1, <2>2
<1>4. ASSUME NEW t \in Servers, NEW b \in CallsOf(t), NEW i \in DOMAIN r, ScopeDoc(t) = d,
             b.fn = "get_or_create_datasources", r[i].type = "DataSource", r[i].qual = b.qual
      PROVE  r[i].name = b.name
  <2>1. CASE i \in DOMAIN q
    BY <1>1, <1>4, <2>1 DEF Fits, Matched
  <2>2. CASE i \notin DOMAIN q
    <3>1. /\ d = ScopeDoc(s) /\ c.fn = "get_or_create_datasources"
          /\ r[i].name = c.name /\ r[i].qual = c.qual
      BY <1>4, <2>2 DEF Edits, Makes
    <3>2. ScopeDoc(t) = ScopeDoc(s) /\ b.qual = c.qual /\ b.fn = c.fn
      BY <1>4, <3>1
    <3>3. b.name = c.name
      BY <1>4, <3>2, Zenon DEF ResourcesMatch
    <3> QED BY <3>1, <3>3
  <2> QED BY <2>1, <2>2
<1>5. Matched(d, r)
  BY <1>3, <1>4, Zenon DEF Matched
<1> QED BY <1>2, <1>5 DEF Fits

\* The documents fit the YAML files at the start ...
LEMMA FitInit ==
  ASSUME ResourcesMatch, Init
  PROVE  FitInv
BY DEF ResourcesMatch, Init, FitInv, Fits

\* ... and after any step.
LEMMA FitStep ==
  ASSUME NoCollision, ResourcesMatch, CompleteInv, FitInv, [Next]_vars
  PROVE  FitInv'
<1>1. TypeOK /\ \A s \in Servers : Above(s)
  BY DEF CompleteInv
<1>2. ASSUME NEW s \in Servers, LaunchScript(s) \/ PushJar(s) PROVE FitInv'
  <2>1. UNCHANGED <<master, ws, opened>>
    BY <1>2 DEF LaunchScript, PushJar
  <2> QED BY <2>1 DEF FitInv
<1>3. ASSUME NEW s \in Servers, Stop(s) PROVE FitInv'
  <2>1. Discard(s) /\ master' = master
    BY <1>3 DEF Stop
  <2>2. opened'[s] = {}
    BY <1>1, <2>1 DEF Discard, Fresh, TypeOK
  <2> QED BY <1>1, <2>1, <2>2, OtherRuns DEF FitInv
<1>4. ASSUME NEW s \in Servers, CallStep(s), EditStep(s) PROVE FitInv'
  <2>1. master' = master
    BY <1>4 DEF CallStep, Frame
  <2>2. \A t \in Servers \ {s} : ws'[t] = ws[t] /\ opened'[t] = opened[t]
    BY <1>4 DEF CallStep, Frame
  <2>3. ASSUME NEW d \in opened'[s] PROVE Fits(d, ws'[s][d])
    <3>1. d \in Docs
      BY <1>4, OwnDocs, <1>1 DEF EditStep, OwnSet, TypeOK
    <3>2. Fits(d, View(s, d))
      BY <3>1 DEF View, FitInv
    <3>3. Edits(s, d, Current(s), View(s, d), ws'[s][d])
      BY <1>4 DEF EditStep
    <3> QED BY <1>1, <1>4, <3>2, <3>3, CurrentCall, EditsKeepFits
  <2> QED BY <2>1, <2>2, <2>3 DEF FitInv
<1>5. ASSUME NEW s \in Servers, Save(s) PROVE FitInv'
  <2>1. Discard(s) /\ opened'[s] = {}
    BY <1>1, <1>5, SaveLemma DEF Discard, Fresh, TypeOK
  <2>2. ASSUME NEW d \in Docs PROVE Fits(d, master'[d])
    BY <1>1, <1>5, SaveLemma DEF FitInv
  <2>3. \A t \in Servers \ {s} : ws'[t] = ws[t] /\ opened'[t] = opened[t]
    BY <1>1, <2>1, OtherRuns
  <2> QED BY <2>1, <2>2, <2>3 DEF FitInv
<1>6. CASE UNCHANGED vars
  BY <1>6 DEF vars, FitInv
<1> QED BY <1>1, <1>2, <1>3, <1>4, <1>5, <1>6, StepEdits

\* A call that reads or writes leaves the plays what they are doing.
LEMMA GoesOn ==
  ASSUME NEW s, NEW d, NEW i
  PROVE  /\ Read(s, d, i) => status' = status
         /\ \A q : Write(s, d, q, i) => status' = status
BY DEF Read, Write

\* An object that was installed can be looked up in what a run sees.
LEMMA InstalledSeen ==
  ASSUME TypeOK, FitInv, NEW s \in Servers, NEW d \in Docs, NEW t,
         OfType(Installed[d], t) # {}
  PROVE  OfType(View(s, d), t) # {}
<1>1. Fits(d, View(s, d))
  BY DEF View, FitInv
<1>2. PICK i \in OfType(Installed[d], t) : TRUE
  OBVIOUS
<1>3. i \in DOMAIN Installed[d] /\ Installed[d][i].type = t
  BY <1>2 DEF OfType
<1>4. PICK j \in DOMAIN View(s, d) : Key(View(s, d)[j]) = Key(Installed[d][i])
  BY <1>1, <1>3 DEF Fits, KeysOf
<1>5. View(s, d)[j].type = t
  BY <1>3, <1>4 DEF Key
<1> QED BY <1>5 DEF OfType

LEMMA ModifySettingGoesOn ==
  ASSUME TypeOK, FitInv, SettingsInstalled, NEW s \in Servers, ModifySetting(s)
  PROVE  status' = status
<1>1. Calling(s, SettingFunctions)
  BY DEF ModifySetting, SettingFunctions
<1>2. Current(s).fn \in SettingFunctions
  BY <1>1, CurrentLemma
<1>3. OfType(View(s, ServerDoc(s)), TypeOf[Current(s).fn]) # {}
  BY <1>2, OwnDocs, InstalledSeen DEF SettingsInstalled
<1> QED BY <1>3, GoesOn DEF ModifySetting

\* When no name is part of another, what find() finds starts with the name.
LEMMA GetOrCreateListedGoesOn ==
  ASSUME TypeOK, NoCollision, NEW s \in Servers, GetOrCreateListed(s)
  PROVE  status' = status
<1> DEFINE c == Current(s)
           q == View(s, DocOf(s, c.fn))
           t == TypeOf[c.fn]
<1>1. Calling(s, ListedFunctions)
  BY DEF GetOrCreateListed
<1>2. c \in Call
  BY <1>1, CurrentLemma
<1>3. <<c.name, c.name>> \in PrefixOf
  BY <1>2, NamesAssumption DEF Call
<1>4. Found(q, t, c.name) # {} => Starting(q, t, c.name) # {}
  BY <1>3 DEF Found, Starting, NoCollision
<1> QED BY <1>4, GoesOn DEF GetOrCreateListed

\* The vhost of an alias was created by an earlier call of the same script.
LEMMA CreateAliasGoesOn ==
  ASSUME CompleteInv, VhostsFirst, NEW s \in Servers, CreateAlias(s)
  PROVE  status' = status
<1> DEFINE c == Current(s)
           q == View(s, VHosts)
<1>1. TypeOK /\ Done(s)
  BY DEF CompleteInv
<1>2. Calling(s, {"create_alias"})
  BY DEF CreateAlias
<1>3. /\ c.fn = "create_alias" /\ c = Calls[s][pos[s]]
      /\ pos[s] \in 1..Len(Calls[s])
  BY <1>1, <1>2, CurrentLemma DEF Current
<1>4. PICK j \in 1..(pos[s] - 1) :
        Calls[s][j].fn = "get_or_create_vhost" /\ Calls[s][j].name = c.qual
  BY <1>3 DEF VhostsFirst, Homed
<1>5. j \in 1..Len(Calls[s]) /\ j < pos[s]
  BY <1>3
<1> DEFINE b == Calls[s][j]
<1>6. b \in Call
  BY <1>5, CallsAssumption
<1>7. b.fn = "get_or_create_vhost" /\ b.name = c.qual
  BY <1>4
<1>8. TypeOf["get_or_create_vhost"] = "VirtualHost" /\ b.fn \in PlainFunctions
  BY <1>7 DEF TypeOf, Functions, PlainFunctions, SettingFunctions
<1>9. Promised(b) = {Key(NewObject(b))}
  BY <1>6, <1>8, PromisedLemma
<1>10. /\ VHosts \in opened[s]
       /\ Key(NewObject(b)) \in KeysOf(ws[s][VHosts])
  <2>1. DocOf(s, b.fn) = VHosts
    BY <1>7 DEF DocOf
  <2> QED BY <1>1, <1>5, <1>9, <2>1 DEF Done
<1> HIDE DEF b, c
<1>11. PICK i \in DOMAIN q : Key(q[i]) = Key(NewObject(b))
  BY <1>10 DEF KeysOf, View
<1>12. q[i].type = "VirtualHost" /\ q[i].name = c.qual
  BY <1>7, <1>8, <1>11 DEF Key, NewObject
<1>13. Named(q, "VirtualHost", c.qual) # {}
  BY <1>12 DEF Named, OfType
<1> QED BY <1>13, GoesOn DEF CreateAlias, c

LEMMA JmsCFGoesOn ==
  ASSUME TypeOK, FactoriesSecured, NEW s \in Servers, JmsCF(s)
  PROVE  status' = status
<1>1. Calling(s, {"get_or_create_jmsCF"})
  BY DEF JmsCF
<1>2. Current(s).fn = "get_or_create_jmsCF" /\ pos[s] \in 1..Len(Calls[s])
  BY <1>1, CurrentLemma
<1>3. Current(s).auth # None
  BY <1>2 DEF FactoriesSecured, CallsOf, Current
<1> QED BY <1>3, GoesOn DEF JmsCF

\* A queue with the name of the call has its jndiName.
LEMMA JmsQueueGoesOn ==
  ASSUME TypeOK, FitInv, NEW s \in Servers, JmsQueue(s)
  PROVE  status' = status
<1> DEFINE c == Current(s)
           q == View(s, ScopeDoc(s))
           I == Named(q, TypeOf[c.fn], c.name)
           Same == {i \in I : q[i].qual = c.qual}
<1>1. Calling(s, {"get_or_create_jmsQueue"})
  BY DEF JmsQueue
<1>2. c.fn = "get_or_create_jmsQueue" /\ pos[s] \in 1..Len(Calls[s])
  BY <1>1, CurrentLemma
<1>3. c \in CallsOf(s) /\ TypeOf[c.fn] = "MQQueue"
  BY <1>2, CreatedTypes DEF CallsOf, Current, Functions
<1>4. Matched(ScopeDoc(s), q)
  BY OwnDocs DEF View, FitInv, Fits
<1>5. \A i \in I : q[i].qual = c.qual
  BY <1>2, <1>3, <1>4 DEF Matched, Named, OfType
<1>6. I # {} => Same # {}
  BY <1>5
<1> QED BY <1>6, GoesOn DEF JmsQueue

\* A data source with the jndiName of the call has its name.
LEMMA DataSourceGoesOn ==
  ASSUME TypeOK, FitInv, NEW s \in Servers, DataSource(s)
  PROVE  status' = status
<1> DEFINE c == Current(s)
           q == View(s, ScopeDoc(s))
           Taken == {i \in OfType(q, TypeOf[c.fn]) : q[i].qual = c.qual}
           Same == {i \in Taken : q[i].name = c.name}
<1>1. Calling(s, {"get_or_create_datasources"})
  BY DEF DataSource
<1>2. c.fn = "get_or_create_datasources" /\ pos[s] \in 1..Len(Calls[s])
  BY <1>1, CurrentLemma
<1>3. c \in CallsOf(s) /\ TypeOf[c.fn] = "DataSource"
  BY <1>2, CreatedTypes DEF CallsOf, Current, Functions
<1>4. Matched(ScopeDoc(s), q)
  BY OwnDocs DEF View, FitInv, Fits
<1>5. \A i \in Taken : q[i].name = c.name
  BY <1>2, <1>3, <1>4 DEF Matched, OfType
<1>6. Taken # {} => Same # {}
  BY <1>5
<1> QED BY <1>6, GoesOn DEF DataSource

\* The calls that never raise.
LEMMA OthersGoOn ==
  ASSUME NEW s \in Servers,
         \/ EnvProvider(s) \/ GetOrCreateFound(s) \/ CustomProp(s) \/ JvmProp(s)
         \/ ConfigJaas(s) \/ CreateMqJms(s) \/ SetAuth(s)
  PROVE  status' = status
<1>1. EnvProvider(s) => status' = status
  BY GoesOn DEF EnvProvider
<1>2. GetOrCreateFound(s) \/ CustomProp(s) \/ JvmProp(s) => status' = status
  BY GoesOn DEF GetOrCreateFound, CustomProp, JvmProp
<1>3. ConfigJaas(s) \/ CreateMqJms(s) => status' = status
  BY GoesOn DEF ConfigJaas, CreateMqJms
<1>4. SetAuth(s) => status' = status
  BY DEF SetAuth
<1> QED BY <1>1, <1>2, <1>3, <1>4

\* A script goes on, or has come to its save().
LEMMA ScriptGoesOn ==
  ASSUME NoCollision, SettingsInstalled, FactoriesSecured, VhostsFirst, ArgumentsGiven,
         CompleteInv, FitInv, NEW s \in Servers, Script(s)
  PROVE  status' = status \/ Save(s) \/ SaveConflict(s)
<1>1. TypeOK
  BY DEF CompleteInv
<1>2. ASSUME InMain(s) PROVE Current(s) \in CallsOf(s)
  BY <1>1, <1>2, CallsAssumption DEF InMain, TypeOK, Current, CallsOf
<1>3. ~ArgumentError(s)
  BY <1>2 DEF ArgumentError, ArgumentsGiven
<1> QED
  BY <1>1, <1>3, ModifySettingGoesOn, GetOrCreateListedGoesOn, CreateAliasGoesOn, JmsCFGoesOn,
     JmsQueueGoesOn, DataSourceGoesOn, OthersGoOn DEF Script

\* The play of s fails in this step for a reason that is not in its script: a
\* call was refused from outside, or another play saved a document first.
Fails(s) == status[s] = "running" /\ status'[s] = "failed"
FailsFromOutside == \A s \in Servers : Fails(s) => Fault(s) \/ SaveConflict(s)

\* No script raises of itself: each way in which the model lets a call raise is
\* excluded by a condition on the YAML files and the cell at the start, whatever
\* other plays of the cluster create meanwhile. An exception for any other
\* reason, a value that wsadmin refuses, say, is a Fault of the model.
THEOREM NoScriptRaises ==
  ASSUME NoCollision, SettingsInstalled, FactoriesSecured, VhostsFirst, ArgumentsGiven,
         ResourcesMatch
  PROVE  Spec => [][FailsFromOutside]_vars
<1>1. Init => CompleteInv /\ FitInv
  BY CompleteInit, FitInit
<1>2. CompleteInv /\ FitInv /\ [Next]_vars => CompleteInv' /\ FitInv'
  BY CompleteStep, FitStep
<1>3. ASSUME CompleteInv, FitInv, Next, NEW s \in Servers, Fails(s)
      PROVE  Fault(s) \/ SaveConflict(s)
  <2>1. TypeOK /\ status \in [Servers -> Statuses]
    BY <1>3 DEF CompleteInv, TypeOK
  <2>2. PICK t \in Servers : LaunchScript(t) \/ Script(t) \/ PushJar(t) \/ Fault(t)
    BY <1>3 DEF Next
  <2>3. CASE LaunchScript(t)
    BY <1>3, <2>1, <2>3 DEF LaunchScript, Fails
  <2>4. CASE PushJar(t)
    BY <1>3, <2>1, <2>4 DEF PushJar, Fails
  <2>5. CASE Fault(t)
    BY <1>3, <2>1, <2>5 DEF Fault, Stop, Fails
  <2>6. CASE Script(t)
    <3>1. CASE status' = status
      BY <1>3, <3>1 DEF Fails
    <3>2. CASE Save(t)
      BY <1>3, <2>1, <3>2 DEF Save, Fails
    <3>3. CASE SaveConflict(t)
      BY <1>3, <2>1, <3>3 DEF SaveConflict, Raise, Stop, Fails
    <3> QED BY <1>3, <2>6, <3>1, <3>2, <3>3, ScriptGoesOn
  <2> QED BY <2>2, <2>3, <2>4, <2>5, <2>6
<1>4. CompleteInv /\ FitInv /\ [Next]_vars => [FailsFromOutside]_vars
  BY <1>3 DEF FailsFromOutside
<1> QED BY <1>1, <1>2, <1>4, PTL DEF Spec

-----------------------------------------------------------------------------
(***************************************************************************)
(* The calls that main() makes of a YAML: induction over its lists by the   *)
(* least position that goes wrong (Least), FlattenSeq unfolded into the     *)
(* recursive function that it is.                                           *)
(***************************************************************************)
IsItem(el) == /\ el.name \in Names /\ el.jndiName \in Names \union {None}
              /\ el.value \in Values \union {None} /\ el.lacks \in SUBSET Lacks
IsSecured(el) == IsItem(el) /\ el.password \in Values \union {None} /\ el.auth \in Names \union {None}
IsList(q) == \E n \in Nat : DOMAIN q = 1..n /\ q = [k \in 1..n |-> q[k]]
IsItemList(q) == IsList(q) /\ \A k \in DOMAIN q : IsItem(q[k])
IsSecuredList(q) == IsList(q) /\ \A k \in DOMAIN q : IsSecured(q[k])

IsYaml(y) ==
  /\ {y.name, y.resourceEnvProvider, y.vhost} \subseteq Names
  /\ y.vhost \in Values /\ {y.owner, y.httponlycookie} \subseteq Values \union {None}
  /\ IsItemList(y.resourceEnvEntries)
  /\ \A k \in DOMAIN y.resourceEnvEntries :
       "customprop" \notin y.resourceEnvEntries[k].lacks =>
         IsItemList(y.resourceEnvEntries[k].customprop)
  /\ IsList(y.aliases) /\ \A k \in DOMAIN y.aliases : y.aliases[k] \in Names
  /\ IsItemList(y.systemProperties) /\ IsItemList(y.jmsq)
  /\ IsSecuredList(y.mqjms) /\ IsSecuredList(y.jmscf) /\ IsSecuredList(y.dataSources)
  /\ \A k \in DOMAIN y.dataSources : y.dataSources[k].typeds \in Names
  /\ IsItemList(y.namespaceBindings) /\ IsItemList(y.webcntr_prop)
  /\ IsItemList(y.timerManager) /\ IsItemList(y.workManager) /\ IsItemList(y.scheduler)

\* No element lacks what the script takes for granted. A user may be left out.
Full(q) == \A k \in DOMAIN q : q[k].lacks \subseteq {"user"}
FileComplete(y) ==
  /\ Full(y.resourceEnvEntries)
  /\ \A k \in DOMAIN y.resourceEnvEntries : Full(y.resourceEnvEntries[k].customprop)
  /\ Full(y.systemProperties) /\ Full(y.mqjms) /\ Full(y.jmscf) /\ Full(y.jmsq)
  /\ Full(y.dataSources) /\ Full(y.namespaceBindings) /\ Full(y.webcntr_prop)
  /\ Full(y.timerManager) /\ Full(y.workManager) /\ Full(y.scheduler)

In(c, q) == \E k \in DOMAIN q : q[k] = c
Preceded(q) ==
  \A k \in 1..Len(q) :
    \/ q[k].auth = None \/ q[k].fn \in LinkedLater
    \/ \E j \in 1..(k - 1) : q[j].fn = "configjaas" /\ q[j].auth = q[k].auth
Sound(q) ==
  /\ q \in Seq(Call) /\ Preceded(q) /\ Homed(q)
  /\ \A k \in 1..Len(q) : q[k].fn = "configjaas" => q[k].auth # None

\* A set of natural numbers has a least element.
LEMMA Least ==
  ASSUME NEW T \in SUBSET Nat, T # {}
  PROVE  \E m \in T : \A k \in T : m <= k
<1> DEFINE R == OpToRel(<, Nat)
<1>1. IsWellFoundedOn(R, Nat)
  BY NatLessThanWellFounded
<1>2. \A x, y \in Nat : x < y => <<x, y>> \in R
  BY DEF OpToRel
<1> HIDE DEF R
<1>3. PICK m \in T : \A k \in T : ~(<<k, m>> \in R)
  BY <1>1, WFMin
<1>4. ASSUME NEW k \in T PROVE m <= k
  <2>1. k \in Nat /\ m \in Nat
    OBVIOUS
  <2>2. ~(k < m)
    BY <1>2, <1>3, <2>1, Zenon
  <2> QED BY <2>1, <2>2
<1> QED BY <1>4

\* Two sequences of calls, one after the other.
LEMMA JoinedCalls ==
  ASSUME NEW q, NEW r, Sound(q), Sound(r)
  PROVE  /\ Sound(q \o r)
         /\ \A c : In(c, q \o r) <=> In(c, q) \/ In(c, r)
<1> DEFINE qr == q \o r
<1>1. /\ q \in Seq(Call) /\ r \in Seq(Call) /\ qr \in Seq(Call)
      /\ Len(q) \in Nat /\ Len(r) \in Nat /\ Len(qr) = Len(q) + Len(r)
      /\ DOMAIN q = 1..Len(q) /\ DOMAIN r = 1..Len(r) /\ DOMAIN qr = 1..Len(qr)
  BY ConcatProperties, LenProperties DEF Sound
<1>2. \A k \in 1..Len(q) : k \in 1..Len(qr) /\ qr[k] = q[k]
  BY <1>1
<1>3. \A k \in 1..Len(r) : k + Len(q) \in 1..Len(qr) /\ qr[k + Len(q)] = r[k]
  BY <1>1
<1>4. \A k \in 1..Len(qr) : k \in 1..Len(q) \/ (k - Len(q) \in 1..Len(r) /\ qr[k] = r[k - Len(q)])
  BY <1>1
<1> HIDE DEF qr
<1>5. ASSUME NEW c PROVE In(c, qr) <=> In(c, q) \/ In(c, r)
  BY <1>1, <1>2, <1>3, <1>4 DEF In
<1>6. ASSUME NEW k \in 1..Len(qr), qr[k].auth # None, qr[k].fn \notin LinkedLater
      PROVE  \E j \in 1..(k - 1) : qr[j].fn = "configjaas" /\ qr[j].auth = qr[k].auth
  <2>1. CASE k \in 1..Len(q)
    <3>1. PICK j \in 1..(k - 1) : q[j].fn = "configjaas" /\ q[j].auth = q[k].auth
      BY <1>2, <1>6, <2>1 DEF Sound, Preceded
    <3>2. j \in 1..Len(q)
      BY <1>1, <2>1
    <3> QED BY <1>2, <2>1, <3>1, <3>2
  <2>2. CASE k \notin 1..Len(q)
    <3>1. k - Len(q) \in 1..Len(r) /\ qr[k] = r[k - Len(q)]
      BY <1>4, <2>2
    <3>2. PICK j \in 1..(k - Len(q) - 1) : r[j].fn = "configjaas" /\ r[j].auth = qr[k].auth
      BY <1>6, <3>1 DEF Sound, Preceded
    <3>3. j \in 1..Len(r) /\ j + Len(q) \in 1..(k - 1)
      BY <1>1, <3>1
    <3> QED BY <1>3, <3>2, <3>3
  <2> QED BY <2>1, <2>2
<1>7. Preceded(qr)
  BY <1>6 DEF Preceded
<1>8. \A k \in 1..Len(qr) : qr[k].fn = "configjaas" => qr[k].auth # None
  BY <1>2, <1>4 DEF Sound
<1>9. ASSUME NEW k \in 1..Len(qr), qr[k].fn = "create_alias"
      PROVE  \E j \in 1..(k - 1) : qr[j].fn = "get_or_create_vhost" /\ qr[j].name = qr[k].qual
  <2>1. CASE k \in 1..Len(q)
    <3>1. PICK j \in 1..(k - 1) : q[j].fn = "get_or_create_vhost" /\ q[j].name = q[k].qual
      BY <1>2, <1>9, <2>1 DEF Sound, Homed
    <3>2. j \in 1..Len(q)
      BY <1>1, <2>1
    <3> QED BY <1>2, <2>1, <3>1, <3>2
  <2>2. CASE k \notin 1..Len(q)
    <3>1. k - Len(q) \in 1..Len(r) /\ qr[k] = r[k - Len(q)]
      BY <1>4, <2>2
    <3>2. PICK j \in 1..(k - Len(q) - 1) :
            r[j].fn = "get_or_create_vhost" /\ r[j].name = qr[k].qual
      BY <1>9, <3>1 DEF Sound, Homed
    <3>3. j \in 1..Len(r) /\ j + Len(q) \in 1..(k - 1)
      BY <1>1, <3>1
    <3> QED BY <1>3, <3>2, <3>3
  <2> QED BY <2>1, <2>2
<1>10. Homed(qr)
  BY <1>9 DEF Homed
<1> QED BY <1>1, <1>5, <1>7, <1>8, <1>10 DEF qr, Sound

\* Any number of them, one after the other.
LEMMA FlattenedCalls ==
  ASSUME NEW n \in Nat, NEW q, DOMAIN q = 1..n, q = [k \in 1..n |-> q[k]],
         \A k \in 1..n : Sound(q[k])
  PROVE  /\ Sound(FlattenSeq(q))
         /\ \A c : In(c, FlattenSeq(q)) <=> \E k \in 1..n : In(c, q[k])
<1>1. Len(q) = n
  OBVIOUS
<1>2. CASE n = 0
  <2>1. q = <<>> /\ FlattenSeq(q) = q
    BY <1>1, <1>2 DEF FlattenSeq
  <2>2. Sound(<<>>)
    BY DEF Sound, Preceded, Homed
  <2> QED BY <1>2, <2>1, <2>2 DEF In
<1>3. CASE n # 0
  <2> DEFINE Is(f, m) == f = [i \in 1..m |-> IF i = 1 THEN q[i] ELSE f[i - 1] \o q[i]]
             Bad == {m \in 1..n : ~ \E f : Is(f, m)}
             F == CHOOSE f : Is(f, n)
             Right(m) == /\ Sound(F[m])
                         /\ \A c : In(c, F[m]) <=> \E k \in 1..m : In(c, q[k])
             Wrong == {m \in 1..n : ~Right(m)}
  <2>1. \A m : m \in 1..n /\ m # 1 => m - 1 \in 1..n /\ m \in Nat /\ ~(m <= m - 1)
    OBVIOUS
  <2>2. Bad = {}
    <3> SUFFICES ASSUME Bad # {} PROVE FALSE
      OBVIOUS
    <3>1. \A m : m \in Bad <=> m \in 1..n /\ ~ \E f : Is(f, m)
      OBVIOUS
    <3> HIDE DEF Bad, Is
    <3>2. Bad \subseteq Nat
      BY <3>1
    <3>3. PICK m \in Bad : \A l \in Bad : m <= l
      BY <3>2, Least
    <3>4. m \in 1..n /\ ~ \E f : Is(f, m)
      BY <3>1, <3>3
    <3>5. m # 1
      <4>1. Is([i \in 1..1 |-> q[1]], 1)
        BY DEF Is
      <4> QED BY <3>4, <4>1
    <3>6. m - 1 \in 1..n /\ m \in Nat /\ ~(m <= m - 1)
      BY <2>1, <3>4, <3>5
    <3>7. PICK f : Is(f, m - 1)
      BY <3>1, <3>3, <3>6
    <3> DEFINE g == [i \in 1..m |-> IF i = m THEN f[m - 1] \o q[m] ELSE f[i]]
    <3>8. f = [i \in 1..(m - 1) |-> IF i = 1 THEN q[i] ELSE f[i - 1] \o q[i]]
      BY <3>7 DEF Is
    <3>9. ASSUME NEW i \in 1..m PROVE g[i] = IF i = 1 THEN q[i] ELSE g[i - 1] \o q[i]
      <4>1. CASE i = m
        <5>1. m # 1 /\ m - 1 \in 1..m /\ m - 1 # m
          BY <3>4, <3>5
        <5> QED BY <4>1, <5>1
      <4>2. CASE i # m
        <5>1. i \in 1..(m - 1) /\ (i # 1 => i - 1 \in 1..m /\ i - 1 # m)
          BY <3>4, <4>2
        <5>2. g[i] = f[i] /\ (i # 1 => g[i - 1] = f[i - 1])
          BY <4>2, <5>1
        <5>3. f[i] = IF i = 1 THEN q[i] ELSE f[i - 1] \o q[i]
          BY <3>8, <5>1
        <5> QED BY <5>2, <5>3
      <4> QED BY <4>1, <4>2
    <3>10. g = [i \in 1..m |-> g[i]]
      OBVIOUS
    <3> HIDE DEF g
    <3>11. Is(g, m)
      BY <3>9, <3>10 DEF Is
    <3> QED BY <3>4, <3>11
  <2>3. Is(F, n)
    <3>1. n \in 1..n
      BY <1>3
    <3>2. \E f : Is(f, n)
      BY <2>2, <3>1
    <3> QED BY <3>2, Zenon
  <2>4. FlattenSeq(q) = F[n]
    BY <1>1, <1>3, Zenon DEF FlattenSeq
  <2>5. \A m \in 1..n : F[m] = IF m = 1 THEN q[m] ELSE F[m - 1] \o q[m]
    BY <2>3
  <2> HIDE DEF F
  <2>6. Wrong = {}
    <3> SUFFICES ASSUME Wrong # {} PROVE FALSE
      OBVIOUS
    <3>1. \A m : m \in Wrong <=> m \in 1..n /\ ~Right(m)
      OBVIOUS
    <3> HIDE DEF Wrong, Right
    <3>2. Wrong \subseteq Nat
      BY <3>1
    <3>3. PICK m \in Wrong : \A l \in Wrong : m <= l
      BY <3>2, Least
    <3>4. m \in 1..n /\ ~Right(m)
      BY <3>1, <3>3
    <3>5. m # 1
      <4>1. 1 \in 1..n /\ \A k : k \in 1..1 <=> k = 1
        BY <1>3
      <4>2. F[1] = q[1]
        BY <2>5, <4>1
      <4>3. Right(1)
        BY <4>1, <4>2 DEF Right
      <4> QED BY <3>4, <4>3
    <3>6. m - 1 \in 1..n /\ F[m] = F[m - 1] \o q[m] /\ ~(m <= m - 1)
      BY <2>1, <2>5, <3>4, <3>5
    <3>7. Right(m - 1)
      BY <3>1, <3>3, <3>6
    <3>8. /\ Sound(F[m])
          /\ \A c : In(c, F[m]) <=> In(c, F[m - 1]) \/ In(c, q[m])
      BY <3>4, <3>6, <3>7, JoinedCalls DEF Right
    <3>9. \A k : k \in 1..m <=> k \in 1..(m - 1) \/ k = m
      BY <3>4
    <3>10. Right(m)
      BY <3>7, <3>8, <3>9, Zenon DEF Right
    <3> QED BY <3>4, <3>10
  <2>7. Right(n)
    <3>1. n \in 1..n
      BY <1>3
    <3> QED BY <2>6, <3>1
  <2> QED BY <2>4, <2>7
<1> QED BY <1>2, <1>3

\* A call that needs no other before it.
Alone(c) ==
  /\ c \in Call /\ c.fn # "create_alias"
  /\ c.auth = None \/ c.fn \in LinkedLater
  /\ c.fn = "configjaas" => c.auth # None

LEMMA AloneCalls ==
  ASSUME NEW n \in Nat, NEW q, DOMAIN q = 1..n, q = [k \in 1..n |-> q[k]],
         \A k \in 1..n : Alone(q[k])
  PROVE  Sound(q)
<1>1. q \in Seq(Call)
  <2>1. \A k \in 1..n : q[k] \in Call
    BY DEF Alone
  <2> QED BY <2>1, IsASeq
<1>2. Len(q) = n
  OBVIOUS
<1> QED BY <1>1, <1>2 DEF Alone, Sound, Preceded, Homed

LEMMA OneCall ==
  ASSUME NEW c, Alone(c)
  PROVE  Sound(<<c>>) /\ \A e : In(e, <<c>>) <=> e = c
<1>1. DOMAIN <<c>> = 1..1 /\ <<c>> = [k \in 1..1 |-> <<c>>[k]] /\ <<c>>[1] = c
  OBVIOUS
<1>2. \A k \in 1..1 : k = 1
  OBVIOUS
<1>3. Sound(<<c>>)
  BY <1>1, <1>2, AloneCalls
<1> QED BY <1>1, <1>2, <1>3 DEF In

LEMMA TwoCalls ==
  ASSUME NEW b, NEW c, Alone(b), Alone(c)
  PROVE  Sound(<<b, c>>) /\ \A e : In(e, <<b, c>>) <=> e = b \/ e = c
<1>1. b \in Call /\ c \in Call
  BY DEF Alone
<1>2. <<b>> \o <<c>> = <<b, c>>
  BY <1>1, ShortSequences
<1>3. /\ Sound(<<b>>) /\ \A e : In(e, <<b>>) <=> e = b
      /\ Sound(<<c>>) /\ \A e : In(e, <<c>>) <=> e = c
  BY OneCall
<1>4. /\ Sound(<<b>> \o <<c>>)
      /\ \A e : In(e, <<b>> \o <<c>>) <=> In(e, <<b>>) \/ In(e, <<c>>)
  BY <1>3, JoinedCalls
<1> QED BY <1>2, <1>3, <1>4

ItemCall(f, el) ==
  CallTo(f, el.name, el.jndiName, el.value, None, "key" \notin el.lacks)

\* CallPerItem makes one call per element of the list.
LEMMA ItemCalls ==
  ASSUME NEW f \in Functions \ {"configjaas", "create_alias"}, NEW list, IsItemList(list)
  PROVE  /\ Sound(CallPerItem(f, list))
         /\ \A c : In(c, CallPerItem(f, list)) <=> \E k \in DOMAIN list : c = ItemCall(f, list[k])
         /\ Full(list) => \A c : In(c, CallPerItem(f, list)) => c.ok
<1>1. PICK n \in Nat : DOMAIN list = 1..n
  BY DEF IsItemList, IsList
<1> DEFINE q == [k \in 1..n |-> ItemCall(f, list[k])]
<1>2. CallPerItem(f, list) = q
  BY <1>1 DEF CallPerItem, ItemCall
<1>3. \A k \in 1..n : Alone(ItemCall(f, list[k]))
  BY <1>1 DEF IsItemList, IsItem, ItemCall, CallTo, Call, Alone
<1>4. DOMAIN q = 1..n /\ q = [k \in 1..n |-> q[k]] /\ \A k \in 1..n : q[k] = ItemCall(f, list[k])
  OBVIOUS
<1> HIDE DEF q
<1>5. Sound(q)
  BY <1>3, <1>4, AloneCalls
<1>6. \A k \in DOMAIN list : Full(list) => ItemCall(f, list[k]).ok
  BY DEF Full, ItemCall, CallTo
<1> QED BY <1>1, <1>2, <1>4, <1>5, <1>6 DEF In

\* The calls of one element are joined: what a set_ function of the script makes of a list.
LEMMA ListCalls ==
  ASSUME NEW list, IsList(list), NEW q, q = [k \in DOMAIN list |-> q[k]],
         \A k \in DOMAIN list : Sound(q[k])
  PROVE  /\ Sound(FlattenSeq(q))
         /\ \A c : In(c, FlattenSeq(q)) <=> \E k \in DOMAIN list : In(c, q[k])
<1>1. PICK n \in Nat : DOMAIN list = 1..n
  BY DEF IsList
<1>2. DOMAIN q = 1..n /\ q = [k \in 1..n |-> q[k]]
  BY <1>1
<1> QED BY <1>1, <1>2, FlattenedCalls

EnvProviderCall(y) ==
  CallTo("get_or_create_env_provider", y.resourceEnvProvider, None, None, None, TRUE)
VHostCall(y) == CallTo("get_or_create_vhost", y.vhost, None, None, None, TRUE)
LinkCall(y) == CallTo("link_vhost", y.name, None, y.vhost, None, TRUE)

LEMMA ResourceEntriesCalls ==
  ASSUME NEW y, IsYaml(y)
  PROVE  /\ Sound(set_resource_entries(y))
         /\ In(EnvProviderCall(y), set_resource_entries(y))
         /\ \A c : In(c, set_resource_entries(y)) =>
              /\ c.fn \in {"get_or_create_env_provider", "get_or_create_env_entries",
                           "set_custom_prop_entry"}
              /\ FileComplete(y) => c.ok
<1> DEFINE list == y.resourceEnvEntries
           q == [i \in DOMAIN list |->
                   LET entry == list[i] IN
                     CallPerItem("get_or_create_env_entries", <<entry>>)
                       \o (IF "customprop" \in entry.lacks
                             THEN <<CustomPropMissing(entry)>>
                             ELSE CallPerItem("set_custom_prop_entry", entry.customprop))]
<1>1. /\ IsList(list) /\ \A k \in DOMAIN list : IsItem(list[k])
      /\ \A k \in DOMAIN list : "customprop" \notin list[k].lacks => IsItemList(list[k].customprop)
  BY DEF IsYaml, IsItemList
<1>2. ASSUME NEW k \in DOMAIN list
      PROVE  /\ Sound(q[k])
             /\ \A c : In(c, q[k]) =>
                  /\ c.fn \in {"get_or_create_env_entries", "set_custom_prop_entry"}
                  /\ FileComplete(y) => c.ok
  <2> DEFINE one == <<list[k]>>
             miss == CustomPropMissing(list[k])
             two == IF "customprop" \in list[k].lacks
                      THEN <<miss>> ELSE CallPerItem("set_custom_prop_entry", list[k].customprop)
  <2>1. IsItemList(one)
    <3>1. DOMAIN one = 1..1 /\ one = [j \in 1..1 |-> one[j]] /\ \A j \in 1..1 : one[j] = list[k]
      OBVIOUS
    <3> QED BY <1>1, <3>1 DEF IsItemList, IsList
  <2>2. q[k] = CallPerItem("get_or_create_env_entries", one) \o two
    OBVIOUS
  <2>3. {"get_or_create_env_entries", "set_custom_prop_entry"}
          \subseteq Functions \ {"configjaas", "create_alias"}
    BY DEF Functions
  <2>4. \A f, el : ItemCall(f, el).fn = f
    BY DEF ItemCall, CallTo
  <2>5. FileComplete(y) =>
          /\ "customprop" \notin list[k].lacks
          /\ Full(one) /\ Full(list[k].customprop)
    <3>1. \A j \in DOMAIN one : one[j] = list[k]
      OBVIOUS
    <3> QED BY <3>1 DEF FileComplete, Full
  <2>6. Alone(miss) /\ miss.fn = "set_custom_prop_entry"
    BY <1>1 DEF IsItem, CustomPropMissing, CallTo, Call, Functions, Alone
  <2>7. Sound(<<miss>>) /\ \A c : In(c, <<miss>>) <=> c = miss
    BY <2>6, OneCall
  <2> HIDE DEF one, q, list, miss
  <2>8. /\ Sound(two)
        /\ \A c : In(c, two) => c.fn = "set_custom_prop_entry" /\ (FileComplete(y) => c.ok)
    <3>1. CASE "customprop" \in list[k].lacks
      BY <2>5, <2>6, <2>7, <3>1
    <3>2. CASE "customprop" \notin list[k].lacks
      BY <1>1, <2>3, <2>4, <2>5, <3>2, ItemCalls
    <3> QED BY <3>1, <3>2
  <2> HIDE DEF two
  <2> QED BY <2>1, <2>2, <2>3, <2>4, <2>5, <2>8, ItemCalls, JoinedCalls
<1>3. q = [k \in DOMAIN list |-> q[k]]
  OBVIOUS
<1>4. set_resource_entries(y) = <<EnvProviderCall(y)>> \o FlattenSeq(q)
  BY DEF set_resource_entries, EnvProviderCall
<1>5. /\ Alone(EnvProviderCall(y)) /\ EnvProviderCall(y).fn = "get_or_create_env_provider"
      /\ EnvProviderCall(y).ok
  BY DEF IsYaml, EnvProviderCall, CallTo, Call, Functions, Alone
<1> HIDE DEF list, q
<1>6. Sound(FlattenSeq(q)) /\ \A c : In(c, FlattenSeq(q)) <=> \E k \in DOMAIN list : In(c, q[k])
  BY <1>1, <1>2, <1>3, ListCalls
<1>7. Sound(<<EnvProviderCall(y)>>) /\ \A c : In(c, <<EnvProviderCall(y)>>) <=> c = EnvProviderCall(y)
  BY <1>5, OneCall
<1> QED BY <1>2, <1>4, <1>5, <1>6, <1>7, JoinedCalls

LEMMA VHostCalls ==
  ASSUME NEW y, IsYaml(y)
  PROVE  /\ Sound(set_vhost_aliases(y))
         /\ In(VHostCall(y), set_vhost_aliases(y)) /\ In(LinkCall(y), set_vhost_aliases(y))
         /\ \A c : In(c, set_vhost_aliases(y)) =>
              /\ c.fn \in {"get_or_create_vhost", "create_alias"} \/ c = LinkCall(y)
              /\ c.ok
<1> DEFINE q == [i \in DOMAIN y.aliases |->
                   CallTo("create_alias", y.aliases[i], y.vhost, None, None, TRUE)]
<1> DEFINE r == <<VHostCall(y)>> \o q
<1>1. PICK n \in Nat : DOMAIN y.aliases = 1..n
  BY DEF IsYaml, IsList
<1>2. ASSUME NEW k \in 1..n
      PROVE  /\ q[k] \in Call /\ q[k].fn = "create_alias" /\ q[k].qual = y.vhost
             /\ q[k].auth = None /\ q[k].ok
  BY <1>1 DEF IsYaml, CallTo, Call, Functions
<1>3. q \in Seq(Call) /\ Len(q) = n
  <2>1. q = [k \in 1..n |-> q[k]]
    BY <1>1
  <2>2. \A k \in 1..n : q[k] \in Call
    BY <1>2
  <2> HIDE DEF q
  <2> QED BY <1>1, <2>1, <2>2, IsASeq
<1>4. set_vhost_aliases(y) = r \o <<LinkCall(y)>>
  BY DEF set_vhost_aliases, VHostCall, LinkCall
<1>5. /\ Alone(LinkCall(y)) /\ VHostCall(y) \in Call /\ VHostCall(y).auth = None
      /\ VHostCall(y).fn = "get_or_create_vhost" /\ VHostCall(y).name = y.vhost
      /\ VHostCall(y).ok /\ LinkCall(y).ok
  BY DEF IsYaml, VHostCall, LinkCall, CallTo, Call, Functions, Alone
<1> HIDE DEF q
<1>6. /\ r \in Seq(Call) /\ Len(r) = n + 1 /\ DOMAIN r = 1..(n + 1)
      /\ r[1] = VHostCall(y) /\ \A k \in 1..(n + 1) : k # 1 => k - 1 \in 1..n /\ r[k] = q[k - 1]
  BY <1>3, <1>5
<1> HIDE DEF r
<1>7. \A k \in 1..(n + 1) : k # 1 => 1 \in 1..(k - 1)
  OBVIOUS
<1>8. ASSUME NEW k \in 1..(n + 1)
      PROVE  /\ r[k].auth = None /\ r[k].fn # "configjaas" /\ r[k].ok
             /\ k # 1 => r[k].fn = "create_alias" /\ r[k].qual = y.vhost
  <2>1. CASE k = 1
    BY <1>5, <1>6, <2>1
  <2>2. CASE k # 1
    BY <1>2, <1>6, <2>2
  <2> QED BY <2>1, <2>2
<1>9. Homed(r) /\ Preceded(r)
  BY <1>5, <1>6, <1>7, <1>8 DEF Homed, Preceded
<1>10. /\ Sound(r) /\ In(VHostCall(y), r)
       /\ \A c : In(c, r) => c.fn \in {"get_or_create_vhost", "create_alias"} /\ c.ok
  <2>1. Sound(r)
    BY <1>6, <1>8, <1>9 DEF Sound
  <2>2. 1 \in 1..(n + 1)
    BY <1>1
  <2> QED BY <1>5, <1>6, <1>8, <2>1, <2>2 DEF In
<1>11. Sound(<<LinkCall(y)>>) /\ \A c : In(c, <<LinkCall(y)>>) <=> c = LinkCall(y)
  BY <1>5, OneCall
<1>12. /\ Sound(r \o <<LinkCall(y)>>)
       /\ \A c : In(c, r \o <<LinkCall(y)>>) <=> In(c, r) \/ In(c, <<LinkCall(y)>>)
  BY <1>10, <1>11, JoinedCalls
<1> QED BY <1>4, <1>5, <1>10, <1>11, <1>12

LEMMA MqCalls ==
  ASSUME NEW y, IsYaml(y)
  PROVE  /\ Sound(set_jms_mq(y))
         /\ \A c : In(c, set_jms_mq(y)) =>
              c.fn \in {"configjaas", "create_mqjms"} /\ (FileComplete(y) => c.ok)
<1> DEFINE list == y.mqjms
           ok(el) == ~SplitFails(el) /\ "key" \notin el.lacks
           jaas(el) == CallTo("configjaas", el.name, None, el.password, el.auth,
                              ok(el) /\ "slash" \notin el.lacks)
           mq(el) == CallTo("create_mqjms", el.name, el.jndiName, el.value, el.auth, ok(el))
           q == [i \in DOMAIN list |->
                   LET el == list[i]
                       fine == ~SplitFails(el) /\ "key" \notin el.lacks
                   IN IF el.auth = None
                        THEN <<CallTo("create_mqjms", el.name, el.jndiName, el.value, None, fine)>>
                        ELSE <<CallTo("configjaas", el.name, None, el.password, el.auth,
                                      fine /\ "slash" \notin el.lacks),
                               CallTo("create_mqjms", el.name, el.jndiName, el.value,
                                      el.auth, fine)>>]
<1>1. IsList(list) /\ \A k \in DOMAIN list : IsSecured(list[k])
  BY DEF IsYaml, IsSecuredList
<1>2. ASSUME NEW k \in DOMAIN list
      PROVE  /\ Sound(q[k])
             /\ \A c : In(c, q[k]) =>
                  c.fn \in {"configjaas", "create_mqjms"} /\ (FileComplete(y) => c.ok)
  <2> DEFINE a == jaas(list[k])
             b == mq(list[k])
  <2>1. /\ a \in Call /\ a.fn = "configjaas" /\ a.auth = list[k].auth
        /\ b \in Call /\ b.fn = "create_mqjms" /\ b.auth = list[k].auth
    BY <1>1 DEF IsSecured, IsItem, CallTo, Call, Functions
  <2>2. q[k] = IF list[k].auth = None THEN <<b>> ELSE <<a, b>>
    OBVIOUS
  <2>5. FileComplete(y) => a.ok /\ b.ok
    BY DEF FileComplete, Full, SplitFails, CallTo
  <2> HIDE DEF a, b, q
  <2>3. CASE list[k].auth = None
    <3>1. q[k] = <<b>>
      BY <2>2, <2>3
    <3>2. Alone(b)
      BY <2>1, <2>3 DEF Alone
    <3>3. Sound(<<b>>) /\ \A c : In(c, <<b>>) <=> c = b
      BY <3>2, OneCall
    <3> QED BY <2>1, <2>5, <3>1, <3>3
  <2>4. CASE list[k].auth # None
    <3>1. q[k] = <<a, b>>
      BY <2>2, <2>4
    <3>2. /\ Len(<<a, b>>) = 2 /\ DOMAIN <<a, b>> = 1..2
          /\ <<a, b>>[1] = a /\ <<a, b>>[2] = b /\ <<a, b>> \in Seq(Call)
      BY <2>1
    <3>3. \A i \in 1..2 : i = 1 \/ i = 2
      OBVIOUS
    <3>4. 1 \in 1..(2 - 1)
      OBVIOUS
    <3>5. Preceded(<<a, b>>)
      BY <2>1, <3>2, <3>3, <3>4 DEF Preceded, LinkedLater
    <3>6. Homed(<<a, b>>)
      BY <2>1, <3>2, <3>3 DEF Homed
    <3> QED BY <2>1, <2>4, <2>5, <3>1, <3>2, <3>3, <3>5, <3>6 DEF Sound, In
  <2> QED BY <2>3, <2>4
<1>3. q = [k \in DOMAIN list |-> q[k]]
  OBVIOUS
<1>4. set_jms_mq(y) = FlattenSeq(q)
  BY DEF set_jms_mq
<1> HIDE DEF list, q
<1>5. Sound(FlattenSeq(q)) /\ \A c : In(c, FlattenSeq(q)) <=> \E k \in DOMAIN list : In(c, q[k])
  BY <1>1, <1>2, <1>3, ListCalls
<1> QED BY <1>2, <1>4, <1>5

CfCall(el) == CallTo("get_or_create_jmsCF", el.name, el.jndiName, el.value, el.auth,
                     ~SplitFails(el) /\ "key" \notin el.lacks)

LEMMA CfCalls ==
  ASSUME NEW y, IsYaml(y)
  PROVE  /\ Sound(set_jms_cf(y))
         /\ \A c : In(c, set_jms_cf(y)) =>
              /\ c.fn = "set_auth" \/ \E k \in DOMAIN y.jmscf : c = CfCall(y.jmscf[k])
              /\ FileComplete(y) => c.ok
<1> DEFINE list == y.jmscf
           q == [i \in DOMAIN list |->
                   LET el == list[i] IN
                     <<CallTo("get_or_create_jmsCF", el.name, el.jndiName, el.value, el.auth,
                              ~SplitFails(el) /\ "key" \notin el.lacks),
                       CallTo("set_auth", el.name, None, el.password, el.auth, TRUE)>>]
<1>1. IsList(list) /\ \A k \in DOMAIN list : IsSecured(list[k])
  BY DEF IsYaml, IsSecuredList
<1>2. ASSUME NEW k \in DOMAIN list
      PROVE  /\ Sound(q[k])
             /\ \A c : In(c, q[k]) => /\ c.fn = "set_auth" \/ c = CfCall(list[k])
                                      /\ FileComplete(y) => c.ok
  <2> DEFINE el == list[k]
             a == CfCall(el)
             b == CallTo("set_auth", el.name, None, el.password, el.auth, TRUE)
  <2>1. Alone(a) /\ Alone(b) /\ b.fn = "set_auth"
    BY <1>1 DEF IsSecured, IsItem, CfCall, CallTo, Call, Functions, Alone, LinkedLater
  <2>2. q[k] = <<a, b>>
    BY DEF CfCall
  <2>3. a = CfCall(list[k])
    OBVIOUS
  <2>4. b.ok /\ (FileComplete(y) => a.ok)
    BY DEF FileComplete, Full, SplitFails, CfCall, CallTo
  <2> HIDE DEF a, b, q
  <2> QED BY <2>1, <2>2, <2>3, <2>4, TwoCalls
<1>3. q = [k \in DOMAIN list |-> q[k]]
  OBVIOUS
<1>4. set_jms_cf(y) = FlattenSeq(q)
  BY DEF set_jms_cf
<1>5. list = y.jmscf
  OBVIOUS
<1> HIDE DEF list, q
<1>6. Sound(FlattenSeq(q)) /\ \A c : In(c, FlattenSeq(q)) <=> \E k \in DOMAIN list : In(c, q[k])
  BY <1>1, <1>2, <1>3, ListCalls
<1> QED BY <1>2, <1>4, <1>5, <1>6

SourceCall(el) == CallTo("get_or_create_datasources", el.name, el.jndiName, el.value, None,
                         "key" \notin el.lacks)

LEMMA SourceCalls ==
  ASSUME NEW y, IsYaml(y)
  PROVE  /\ Sound(set_dataSources(y))
         /\ \A c : In(c, set_dataSources(y)) =>
              /\ \/ c.fn \in {"get_or_create_jdbc_prov", "set_auth"}
                 \/ \E k \in DOMAIN y.dataSources : c = SourceCall(y.dataSources[k])
              /\ FileComplete(y) => c.ok
<1> DEFINE list == y.dataSources
           q == [i \in DOMAIN list |->
                   LET el == list[i] IN
                     <<CallTo("get_or_create_jdbc_prov", el.typeds, None, None, None,
                              ~SplitFails(el) /\ "type" \notin el.lacks),
                       CallTo("get_or_create_datasources", el.name, el.jndiName, el.value, None,
                              "key" \notin el.lacks),
                       CallTo("set_auth", el.name, None, el.password, el.auth, TRUE)>>]
<1>1. IsList(list) /\ \A k \in DOMAIN list : IsSecured(list[k]) /\ list[k].typeds \in Names
  BY DEF IsYaml, IsSecuredList
<1>2. ASSUME NEW k \in DOMAIN list
      PROVE  /\ Sound(q[k])
             /\ \A c : In(c, q[k]) => /\ \/ c.fn \in {"get_or_create_jdbc_prov", "set_auth"}
                                         \/ c = SourceCall(list[k])
                                      /\ FileComplete(y) => c.ok
  <2> DEFINE el == list[k]
             a == CallTo("get_or_create_jdbc_prov", el.typeds, None, None, None,
                         ~SplitFails(el) /\ "type" \notin el.lacks)
             b == SourceCall(el)
             e == CallTo("set_auth", el.name, None, el.password, el.auth, TRUE)
  <2>1. Alone(a) /\ a.fn = "get_or_create_jdbc_prov" /\ Alone(b) /\ Alone(e) /\ e.fn = "set_auth"
    BY <1>1 DEF IsSecured, IsItem, SourceCall, CallTo, Call, Functions, Alone, LinkedLater
  <2>2. q[k] = <<a, b, e>>
    BY DEF SourceCall
  <2>7. a \in Call /\ b \in Call /\ e \in Call
    BY <2>1 DEF Alone
  <2>3. b = SourceCall(list[k])
    OBVIOUS
  <2>9. e.ok /\ (FileComplete(y) => a.ok /\ b.ok)
    BY DEF FileComplete, Full, SplitFails, SourceCall, CallTo
  <2> HIDE DEF a, b, e, q
  <2>4. Sound(<<a>>) /\ \A c : In(c, <<a>>) <=> c = a
    BY <2>1, OneCall
  <2>5. Sound(<<b, e>>) /\ \A c : In(c, <<b, e>>) <=> c = b \/ c = e
    BY <2>1, TwoCalls
  <2>8. q[k] = <<a>> \o <<b, e>>
    BY <2>2, <2>7
  <2>6. Sound(q[k]) /\ \A c : In(c, q[k]) <=> In(c, <<a>>) \/ In(c, <<b, e>>)
    BY <2>4, <2>5, <2>8, JoinedCalls
  <2> QED BY <2>1, <2>3, <2>4, <2>5, <2>6, <2>9
<1>3. q = [k \in DOMAIN list |-> q[k]]
  OBVIOUS
<1>4. set_dataSources(y) = FlattenSeq(q)
  BY DEF set_dataSources
<1>5. list = y.dataSources
  OBVIOUS
<1> HIDE DEF list, q
<1>6. Sound(FlattenSeq(q)) /\ \A c : In(c, FlattenSeq(q)) <=> \E k \in DOMAIN list : In(c, q[k])
  BY <1>1, <1>2, <1>3, ListCalls
<1> QED BY <1>2, <1>4, <1>5, <1>6

\* main(): what it calls the functions with whose calls have to agree, and
\* what precedes what.
LEMMA ScriptCalls ==
  ASSUME NEW y, IsYaml(y)
  PROVE  /\ Sound(main(y))
         /\ In(EnvProviderCall(y), main(y))
         /\ In(VHostCall(y), main(y)) /\ In(LinkCall(y), main(y))
         /\ \A c : In(c, main(y)) =>
              /\ FileComplete(y) => c.ok
              /\ c.fn = "link_vhost" => c = LinkCall(y)
              /\ c.fn = "set_jvm_prop" =>
                   \E k \in DOMAIN y.systemProperties :
                     c = ItemCall("set_jvm_prop", y.systemProperties[k])
              /\ c.fn = "get_or_create_datasources" =>
                   \E k \in DOMAIN y.dataSources : c = SourceCall(y.dataSources[k])
              /\ c.fn = "get_or_create_jmsCF" =>
                   \E k \in DOMAIN y.jmscf : c = CfCall(y.jmscf[k])
              /\ c.fn = "get_or_create_jmsQueue" =>
                   \E k \in DOMAIN y.jmsq : c = ItemCall("get_or_create_jmsQueue", y.jmsq[k])
<1> DEFINE Others == Functions \ {"link_vhost", "set_jvm_prop", "get_or_create_datasources",
                                  "get_or_create_jmsCF", "get_or_create_jmsQueue"}
           Fine(c) == FileComplete(y) => c.ok
           Part(q) == Sound(q) /\ \A c : In(c, q) => c.fn \in Others /\ Fine(c)
           Join(q, r) ==
             Sound(q \o r) /\ \A c : In(c, q \o r) <=> In(c, q) \/ In(c, r)
<1>1. Part(set_process_exec(y)) /\ Part(set_httponlycookie(y))
  <2> DEFINE b == CallTo("set_process_exec_opts", y.name, None, y.owner, None, TRUE)
             c == CallTo("set_or_unset_httponlycookie", y.name, None, y.httponlycookie, None, TRUE)
  <2>1. Alone(b) /\ Alone(c) /\ b.fn \in Others /\ c.fn \in Others /\ b.ok /\ c.ok
    BY DEF IsYaml, CallTo, Call, Functions, Alone
  <2>2. set_process_exec(y) = <<b>> /\ set_httponlycookie(y) = <<c>>
    BY DEF set_process_exec, set_httponlycookie
  <2> HIDE DEF b, c, Others
  <2> QED BY <2>1, <2>2, OneCall
<1>2. \A f \in Others \ {"configjaas", "create_alias"} : \A list :
        IsItemList(list) /\ (FileComplete(y) => Full(list)) => Part(CallPerItem(f, list))
  <2>1. \A f, el : ItemCall(f, el).fn = f
    BY DEF ItemCall, CallTo
  <2>2. Others \subseteq Functions
    OBVIOUS
  <2> HIDE DEF Others
  <2> QED BY <2>1, <2>2, ItemCalls
<1>3. /\ Part(CallPerItem("get_or_create_nameSpaceBinding", y.namespaceBindings))
      /\ Part(CallPerItem("get_or_create_webcntr", y.webcntr_prop))
      /\ Part(CallPerItem("get_or_create_timeManager", y.timerManager))
      /\ Part(CallPerItem("get_or_create_workManager", y.workManager))
      /\ Part(CallPerItem("get_or_create_scheduler", y.scheduler))
  <2>1. {"get_or_create_nameSpaceBinding", "get_or_create_webcntr",
         "get_or_create_timeManager", "get_or_create_workManager", "get_or_create_scheduler"}
          \subseteq Others \ {"configjaas", "create_alias"}
    BY DEF Functions
  <2>2. /\ IsItemList(y.namespaceBindings) /\ IsItemList(y.webcntr_prop)
        /\ IsItemList(y.timerManager) /\ IsItemList(y.workManager) /\ IsItemList(y.scheduler)
    BY DEF IsYaml
  <2>3. FileComplete(y) => /\ Full(y.namespaceBindings) /\ Full(y.webcntr_prop)
                           /\ Full(y.timerManager) /\ Full(y.workManager) /\ Full(y.scheduler)
    BY DEF FileComplete
  <2> HIDE DEF Others, Part
  <2> QED BY <1>2, <2>1, <2>2, <2>3
<1>4. /\ Sound(set_jvm_system_properties(y))
      /\ \A c : In(c, set_jvm_system_properties(y)) =>
           /\ c.fn = "set_jvm_prop" /\ Fine(c)
           /\ \E k \in DOMAIN y.systemProperties :
                c = ItemCall("set_jvm_prop", y.systemProperties[k])
  <2>1. /\ "set_jvm_prop" \in Functions \ {"configjaas", "create_alias"}
        /\ IsItemList(y.systemProperties)
    BY DEF Functions, IsYaml
  <2>2. \A f, el : ItemCall(f, el).fn = f
    BY DEF ItemCall, CallTo
  <2>3. FileComplete(y) => Full(y.systemProperties)
    BY DEF FileComplete
  <2> QED BY <2>1, <2>2, <2>3, ItemCalls DEF set_jvm_system_properties
<1>queues. /\ Sound(set_jms_q(y))
       /\ \A c : In(c, set_jms_q(y)) => Fine(c) /\
            \E k \in DOMAIN y.jmsq : c = ItemCall("get_or_create_jmsQueue", y.jmsq[k])
  <2>1. /\ "get_or_create_jmsQueue" \in Functions \ {"configjaas", "create_alias"}
        /\ IsItemList(y.jmsq)
    BY DEF Functions, IsYaml
  <2>2. FileComplete(y) => Full(y.jmsq)
    BY DEF FileComplete
  <2> QED BY <2>1, <2>2, ItemCalls DEF set_jms_q
<1>factories. /\ Sound(set_jms_cf(y))
       /\ \A c : In(c, set_jms_cf(y)) =>
            /\ c.fn \in Others \/ \E k \in DOMAIN y.jmscf : c = CfCall(y.jmscf[k])
            /\ Fine(c)
  <2>1. "set_auth" \in Others
    BY DEF Functions
  <2> HIDE DEF Others
  <2> QED BY <2>1, CfCalls
<1>5. /\ Part(set_resource_entries(y)) /\ In(EnvProviderCall(y), set_resource_entries(y))
      /\ Part(set_jms_mq(y))
  <2>1. {"get_or_create_env_provider", "get_or_create_env_entries", "set_custom_prop_entry",
         "configjaas", "create_mqjms"} \subseteq Others
    BY DEF Functions
  <2> HIDE DEF Others
  <2> QED BY <2>1, ResourceEntriesCalls, MqCalls
<1>6. /\ Sound(set_vhost_aliases(y))
      /\ In(VHostCall(y), set_vhost_aliases(y)) /\ In(LinkCall(y), set_vhost_aliases(y))
      /\ \A c : In(c, set_vhost_aliases(y)) => Fine(c) /\ (c.fn \in Others \/ c = LinkCall(y))
  <2>1. {"get_or_create_vhost", "create_alias"} \subseteq Others
    BY DEF Functions
  <2> HIDE DEF Others
  <2> QED BY <2>1, VHostCalls
<1>7. /\ Sound(set_dataSources(y))
      /\ \A c : In(c, set_dataSources(y)) =>
           /\ \/ c.fn \in Others
              \/ \E k \in DOMAIN y.dataSources : c = SourceCall(y.dataSources[k])
           /\ Fine(c)
  <2>1. {"get_or_create_jdbc_prov", "set_auth"} \subseteq Others
    BY DEF Functions
  <2> HIDE DEF Others
  <2> QED BY <2>1, SourceCalls
<1>8. /\ LinkCall(y).fn = "link_vhost"
      /\ \A el : /\ SourceCall(el).fn = "get_or_create_datasources"
                 /\ CfCall(el).fn = "get_or_create_jmsCF"
                 /\ ItemCall("get_or_create_jmsQueue", el).fn = "get_or_create_jmsQueue"
  BY DEF LinkCall, SourceCall, CfCall, ItemCall, CallTo
<1>9. \A f \in Others :
        f \notin {"link_vhost", "set_jvm_prop", "get_or_create_datasources",
                  "get_or_create_jmsCF", "get_or_create_jmsQueue"}
  OBVIOUS
<1>10. \A q, r : Sound(q) /\ Sound(r) => Join(q, r)
  BY JoinedCalls
<1> DEFINE a1 == set_process_exec(y) \o set_resource_entries(y)
           a2 == a1 \o set_jvm_system_properties(y)
           a3 == a2 \o set_vhost_aliases(y)
           a4 == a3 \o set_jms_mq(y)
           a5 == a4 \o set_jms_cf(y)
           a6 == a5 \o set_jms_q(y)
           a7 == a6 \o set_dataSources(y)
           a8 == a7 \o set_httponlycookie(y)
           a9 == a8 \o CallPerItem("get_or_create_nameSpaceBinding", y.namespaceBindings)
           a10 == a9 \o CallPerItem("get_or_create_webcntr", y.webcntr_prop)
           a11 == a10 \o CallPerItem("get_or_create_timeManager", y.timerManager)
           a12 == a11 \o CallPerItem("get_or_create_workManager", y.workManager)
           a13 == a12 \o CallPerItem("get_or_create_scheduler", y.scheduler)
           Kind(c) == \/ c.fn \in Others \/ c = LinkCall(y)
                      \/ /\ c.fn = "set_jvm_prop"
                         /\ \E k \in DOMAIN y.systemProperties :
                              c = ItemCall("set_jvm_prop", y.systemProperties[k])
                      \/ \E k \in DOMAIN y.dataSources : c = SourceCall(y.dataSources[k])
                      \/ \E k \in DOMAIN y.jmscf : c = CfCall(y.jmscf[k])
                      \/ \E k \in DOMAIN y.jmsq :
                           c = ItemCall("get_or_create_jmsQueue", y.jmsq[k])
           Good(c) == Fine(c) /\ Kind(c)
           Has(q) == /\ Sound(q) /\ \A c : In(c, q) => Good(c)
                     /\ In(EnvProviderCall(y), q)
                     /\ In(VHostCall(y), q) /\ In(LinkCall(y), q)
<1>11. main(y) = a13
  BY DEF main
<1>12. Has(a3)
  <2>1. \A c : c.fn \in Others /\ Fine(c) => Good(c)
    OBVIOUS
  <2>2. \A c : In(c, set_jvm_system_properties(y)) => Good(c)
    BY <1>4
  <2>3. \A c : In(c, set_vhost_aliases(y)) => Good(c)
    BY <1>6
  <2> HIDE DEF Others, Fine, Good
  <2>4. Join(set_process_exec(y), set_resource_entries(y))
    BY <1>1, <1>5, <1>10
  <2>5. Join(a1, set_jvm_system_properties(y))
    BY <1>4, <1>10, <2>4
  <2>6. Join(a2, set_vhost_aliases(y))
    BY <1>6, <1>10, <2>5
  <2> QED BY <1>1, <1>5, <1>6, <2>1, <2>2, <2>3, <2>4, <2>5, <2>6
<1>13. \A q, r : Has(q) /\ Sound(r) /\ (\A c : In(c, r) => Good(c)) => Has(q \o r)
  <2> HIDE DEF Good
  <2> QED BY <1>10
<1>14. \A q : Part(q) => Sound(q) /\ \A c : In(c, q) => Good(c)
  OBVIOUS
<1>15. /\ \A c : In(c, set_dataSources(y)) => Good(c)
       /\ \A c : In(c, set_jms_cf(y)) => Good(c)
       /\ \A c : In(c, set_jms_q(y)) => Good(c)
  <2> HIDE DEF Others
  <2> QED BY <1>7, <1>queues, <1>factories
<1>16. \A q, r : Has(q) /\ Part(r) => Has(q \o r)
  <2> HIDE DEF Good, Has, Part
  <2> QED BY <1>13, <1>14
<1>17. Has(a4)
  <2> HIDE DEF Has, Part
  <2> QED BY <1>5, <1>12, <1>16
<1>18. Has(a7)
  <2> HIDE DEF Has, Good, a4
  <2>1. Has(a5)
    BY <1>13, <1>15, <1>17, <1>factories
  <2> HIDE DEF a5
  <2>2. Has(a6)
    BY <1>13, <1>15, <1>queues, <2>1
  <2> HIDE DEF a6
  <2> QED BY <1>7, <1>13, <1>15, <2>2
<1>19. Has(a13)
  <2> HIDE DEF Has, Part, a7
  <2> QED BY <1>1, <1>3, <1>16, <1>18
<1>20. \A c : Good(c) =>
         /\ FileComplete(y) => c.ok
         /\ c.fn = "link_vhost" => c = LinkCall(y)
         /\ c.fn = "set_jvm_prop" =>
              \E k \in DOMAIN y.systemProperties :
                c = ItemCall("set_jvm_prop", y.systemProperties[k])
         /\ c.fn = "get_or_create_datasources" =>
              \E k \in DOMAIN y.dataSources : c = SourceCall(y.dataSources[k])
         /\ c.fn = "get_or_create_jmsCF" =>
              \E k \in DOMAIN y.jmscf : c = CfCall(y.jmscf[k])
         /\ c.fn = "get_or_create_jmsQueue" =>
              \E k \in DOMAIN y.jmsq : c = ItemCall("get_or_create_jmsQueue", y.jmsq[k])
  <2> HIDE DEF Others
  <2> QED BY <1>8, <1>9
<1> HIDE DEF Good, a13
<1> QED BY <1>11, <1>19, <1>20

(***************************************************************************)
(* The hypotheses of this module, from the YAML files of the servers.       *)
(***************************************************************************)
\* The calls of each server are those of the script rendered from its YAML.
Rendered(yaml) ==
  \A s \in Servers : IsYaml(yaml[s]) /\ Calls[s] = main(yaml[s])

\* A YAML that gives a system property twice gives it the same value.
PropertiesAgree(yaml) ==
  \A s \in Servers : LET list == yaml[s].systemProperties IN
    \A j, k \in DOMAIN list : list[j].name = list[k].name => list[j].value = list[k].value

\* The YAML files of a cluster give a data source one jndiName, the one that a
\* data source of this name had before.
SourcesAgree(yaml) ==
  /\ \A d \in Docs : Distinct(Installed[d])
  /\ \A s \in Servers : \A j \in DOMAIN yaml[s].dataSources :
       LET el == yaml[s].dataSources[j] IN
         /\ \A i \in OfType(Installed[ScopeDoc(s)], "DataSource") :
              LET o == Installed[ScopeDoc(s)][i] IN
                o.name = el.name => o.qual = el.jndiName
         /\ \A t \in Servers : \A k \in DOMAIN yaml[t].dataSources :
              (ScopeDoc(t) = ScopeDoc(s) /\ yaml[t].dataSources[k].name = el.name) =>
                yaml[t].dataSources[k].jndiName = el.jndiName

\* What was installed before the first play refers to aliases that are there.
AliasesInstalled ==
  \A d \in Scopes : \A i \in DOMAIN Installed[d] :
    Installed[d][i].auth = None \/ AliasKey(Installed[d][i].auth) \in KeysOf(Installed[Security])

\* The YAML files of a cluster give a queue one jndiName and the jndiName of a
\* data source one name, those that the cluster had before.
ResourcesAgree(yaml) ==
  \A s \in Servers :
    /\ \A j \in DOMAIN yaml[s].jmsq :
         LET el == yaml[s].jmsq[j] IN
           /\ \A i \in OfType(Installed[ScopeDoc(s)], "MQQueue") :
                LET o == Installed[ScopeDoc(s)][i] IN
                  o.name = el.name => o.qual = el.jndiName
           /\ \A t \in Servers : \A k \in DOMAIN yaml[t].jmsq :
                (ScopeDoc(t) = ScopeDoc(s) /\ yaml[t].jmsq[k].name = el.name) =>
                  yaml[t].jmsq[k].jndiName = el.jndiName
    /\ \A j \in DOMAIN yaml[s].dataSources :
         LET el == yaml[s].dataSources[j] IN
           /\ \A i \in OfType(Installed[ScopeDoc(s)], "DataSource") :
                LET o == Installed[ScopeDoc(s)][i] IN
                  o.qual = el.jndiName => o.name = el.name
           /\ \A t \in Servers : \A k \in DOMAIN yaml[t].dataSources :
                (ScopeDoc(t) = ScopeDoc(s) /\ yaml[t].dataSources[k].jndiName = el.jndiName) =>
                  yaml[t].dataSources[k].name = el.name

\* The YAML files give what the script takes for granted.
FilesComplete(yaml) == \A s \in Servers : FileComplete(yaml[s])

\* The YAML gives every connection factory its alias.
FactoriesGiven(yaml) ==
  \A s \in Servers : \A k \in DOMAIN yaml[s].jmscf : yaml[s].jmscf[k].auth # None

LEMMA CallsRendered ==
  ASSUME NEW yaml, Rendered(yaml), NEW s \in Servers
  PROVE  /\ IsYaml(yaml[s]) /\ Sound(Calls[s])
         /\ \A c : c \in CallsOf(s) <=> In(c, main(yaml[s]))
<1>1. IsYaml(yaml[s]) /\ Calls[s] = main(yaml[s])
  BY DEF Rendered
<1>2. Sound(Calls[s])
  BY <1>1, ScriptCalls
<1>3. DOMAIN Calls[s] = 1..Len(Calls[s])
  BY <1>2, LenProperties DEF Sound
<1> QED BY <1>1, <1>2, <1>3 DEF CallsOf, In

\* The order of main() and of the set_ functions of was_script.py: whatever the
\* YAML files hold, the provider is asked for, the vhost is created by the
\* script that links it, and what create_mqjms gives an alias to comes after
\* the configjaas of this alias, which is never called without one; the values
\* and jndiNames agree when those of the YAML files do.
THEOREM ScriptsMeetHypotheses ==
  ASSUME NEW yaml, Rendered(yaml)
  PROVE  /\ \A s \in Servers : \A c \in CallsOf(s) :
              c \in Call /\ (c.fn = "configjaas" => c.auth # None)
         /\ ProvidersAsked
         /\ LinksOwnVhost
         /\ AliasesInstalled => AliasesGiven
         /\ PropertiesAgree(yaml) => SettingsAgree
         /\ SourcesAgree(yaml) => SourcesApart
         /\ VhostsFirst
         /\ FactoriesGiven(yaml) => FactoriesSecured
         /\ ResourcesAgree(yaml) => ResourcesMatch
         /\ FilesComplete(yaml) => ArgumentsGiven
<1>1. \A s \in Servers : \A c \in CallsOf(s) : c \in Call /\ (c.fn = "configjaas" => c.auth # None)
  <2>1. ASSUME NEW s \in Servers, NEW k \in 1..Len(Calls[s])
        PROVE  Calls[s][k] \in Call /\ (Calls[s][k].fn = "configjaas" => Calls[s][k].auth # None)
    <3>1. Sound(Calls[s])
      BY CallsRendered
    <3> QED BY <3>1 DEF Sound
  <2> QED BY <2>1 DEF CallsOf
<1>2. ProvidersAsked
  <2>1. ASSUME NEW s \in Servers
        PROVE  EnvProviderCall(yaml[s]) \in CallsOf(s)
    BY CallsRendered, ScriptCalls
  <2>2. \A y : EnvProviderCall(y).fn = "get_or_create_env_provider"
    BY DEF EnvProviderCall, CallTo
  <2> QED BY <2>1, <2>2 DEF ProvidersAsked
<1>3. LinksOwnVhost
  <2>1. ASSUME NEW s \in Servers
        PROVE  VHostCall(yaml[s]) \in CallsOf(s) /\ LinkCall(yaml[s]) \in CallsOf(s)
    BY CallsRendered, ScriptCalls
  <2>2. \A y : /\ VHostCall(y).fn = "get_or_create_vhost" /\ LinkCall(y).fn = "link_vhost"
               /\ LinkCall(y).value = VHostCall(y).name
    BY DEF VHostCall, LinkCall, CallTo
  <2> QED BY <2>1, <2>2 DEF LinksOwnVhost
<1>4. ASSUME AliasesInstalled PROVE AliasesGiven
  <2>1. \A s \in Servers : Preceded(Calls[s])
    BY CallsRendered DEF Sound
  <2> QED BY <1>4, <2>1, Zenon DEF AliasesInstalled, AliasesGiven, Preceded
<1>5. ASSUME PropertiesAgree(yaml) PROVE SettingsAgree
  <2> SUFFICES ASSUME NEW s \in Servers, NEW b \in CallsOf(s), NEW c \in CallsOf(s),
                      b.fn \in Setters, b.fn = c.fn, b.fn = "set_jvm_prop" => b.name = c.name
               PROVE  b.value = c.value
    BY DEF SettingsAgree
  <2>1. IsYaml(yaml[s]) /\ In(b, main(yaml[s])) /\ In(c, main(yaml[s]))
    BY CallsRendered
  <2>2. CASE b.fn = "link_vhost"
    <3>1. b = LinkCall(yaml[s]) /\ c = LinkCall(yaml[s])
      BY <2>1, <2>2, ScriptCalls
    <3> QED BY <3>1
  <2>3. CASE b.fn = "set_jvm_prop"
    <3> DEFINE list == yaml[s].systemProperties
    <3>1. PICK j \in DOMAIN list : b = ItemCall("set_jvm_prop", list[j])
      BY <2>1, <2>3, ScriptCalls
    <3>2. c.fn = "set_jvm_prop"
      BY <2>3
    <3>3. PICK k \in DOMAIN list : c = ItemCall("set_jvm_prop", list[k])
      BY <2>1, <3>2, ScriptCalls
    <3>4. \A f, el : ItemCall(f, el).name = el.name /\ ItemCall(f, el).value = el.value
      BY DEF ItemCall, CallTo
    <3>5. list[j].name = list[k].name
      BY <2>3, <3>1, <3>3, <3>4
    <3>6. list[j].value = list[k].value
      BY <1>5, <3>5 DEF PropertiesAgree
    <3> QED BY <3>1, <3>3, <3>4, <3>6
  <2> QED BY <2>2, <2>3 DEF Setters
<1>6. ASSUME SourcesAgree(yaml) PROVE SourcesApart
  <2>1. \A el : SourceCall(el).name = el.name /\ SourceCall(el).qual = el.jndiName
    BY DEF SourceCall, CallTo
  <2>2. ASSUME NEW s \in Servers, NEW c \in CallsOf(s), c.fn = "get_or_create_datasources"
        PROVE  \E k \in DOMAIN yaml[s].dataSources : c = SourceCall(yaml[s].dataSources[k])
    BY <2>2, CallsRendered, ScriptCalls
  <2>3. ASSUME NEW d \in Docs PROVE Sourced(d, Installed[d])
    <3> SUFFICES ASSUME NEW s \in Servers, NEW c \in CallsOf(s), NEW i \in DOMAIN Installed[d],
                        ScopeDoc(s) = d, c.fn = "get_or_create_datasources",
                        Installed[d][i].type = "DataSource", Installed[d][i].name = c.name
                 PROVE  Installed[d][i].qual = c.qual
      BY DEF Sourced
    <3>1. PICK k \in DOMAIN yaml[s].dataSources : c = SourceCall(yaml[s].dataSources[k])
      BY <2>2
    <3>2. i \in OfType(Installed[ScopeDoc(s)], "DataSource")
      BY DEF OfType
    <3> QED BY <1>6, <2>1, <3>1, <3>2 DEF SourcesAgree
  <2>4. ASSUME NEW s \in Servers, NEW t \in Servers, NEW b \in CallsOf(s), NEW c \in CallsOf(t),
               ScopeDoc(s) = ScopeDoc(t), b.name = c.name,
               b.fn = "get_or_create_datasources", c.fn = "get_or_create_datasources"
        PROVE  b.qual = c.qual
    <3>1. PICK j \in DOMAIN yaml[s].dataSources : b = SourceCall(yaml[s].dataSources[j])
      BY <2>2, <2>4
    <3>2. PICK k \in DOMAIN yaml[t].dataSources : c = SourceCall(yaml[t].dataSources[k])
      BY <2>2, <2>4
    <3> QED BY <1>6, <2>1, <2>4, <3>1, <3>2 DEF SourcesAgree
  <2> QED BY <1>6, <2>3, <2>4, Zenon DEF SourcesAgree, SourcesApart
<1>7. VhostsFirst
  BY CallsRendered DEF Sound, VhostsFirst
<1>8. ASSUME FactoriesGiven(yaml) PROVE FactoriesSecured
  <2>1. ASSUME NEW s \in Servers, NEW c \in CallsOf(s), c.fn = "get_or_create_jmsCF"
        PROVE  c.auth # None
    <3>1. PICK k \in DOMAIN yaml[s].jmscf : c = CfCall(yaml[s].jmscf[k])
      BY <2>1, CallsRendered, ScriptCalls
    <3>2. \A el : CfCall(el).auth = el.auth
      BY DEF CfCall, CallTo
    <3> QED BY <1>8, <3>1, <3>2 DEF FactoriesGiven
  <2> QED BY <2>1 DEF FactoriesSecured
<1>9. ASSUME ResourcesAgree(yaml) PROVE ResourcesMatch
  <2>1. \A f, el : /\ SourceCall(el).name = el.name /\ SourceCall(el).qual = el.jndiName
                   /\ ItemCall(f, el).name = el.name /\ ItemCall(f, el).qual = el.jndiName
    BY DEF SourceCall, ItemCall, CallTo
  <2>2. ASSUME NEW s \in Servers, NEW c \in CallsOf(s), c.fn = "get_or_create_datasources"
        PROVE  \E k \in DOMAIN yaml[s].dataSources :
                 c.name = yaml[s].dataSources[k].name /\ c.qual = yaml[s].dataSources[k].jndiName
    <3>1. IsYaml(yaml[s]) /\ In(c, main(yaml[s]))
      BY CallsRendered
    <3>2. PICK k \in DOMAIN yaml[s].dataSources : c = SourceCall(yaml[s].dataSources[k])
      BY <2>2, <3>1, ScriptCalls
    <3> QED BY <2>1, <3>2
  <2>3. ASSUME NEW s \in Servers, NEW c \in CallsOf(s), c.fn = "get_or_create_jmsQueue"
        PROVE  \E k \in DOMAIN yaml[s].jmsq :
                 c.name = yaml[s].jmsq[k].name /\ c.qual = yaml[s].jmsq[k].jndiName
    <3>1. IsYaml(yaml[s]) /\ In(c, main(yaml[s]))
      BY CallsRendered
    <3>2. PICK k \in DOMAIN yaml[s].jmsq : c = ItemCall("get_or_create_jmsQueue", yaml[s].jmsq[k])
      BY <2>3, <3>1, ScriptCalls
    <3> QED BY <2>1, <3>2
  <2>4. ASSUME NEW d \in Docs, NEW s \in Servers, NEW c \in CallsOf(s),
               NEW i \in DOMAIN Installed[d], ScopeDoc(s) = d
        PROVE  /\ /\ c.fn = "get_or_create_jmsQueue" /\ Installed[d][i].type = "MQQueue"
                  /\ Installed[d][i].name = c.name
                  => Installed[d][i].qual = c.qual
               /\ /\ c.fn = "get_or_create_datasources" /\ Installed[d][i].type = "DataSource"
                  /\ Installed[d][i].qual = c.qual
                  => Installed[d][i].name = c.name
    <3>1. \A t : Installed[d][i].type = t => i \in OfType(Installed[ScopeDoc(s)], t)
      BY <2>4 DEF OfType
    <3> QED BY <1>9, <2>2, <2>3, <2>4, <3>1 DEF ResourcesAgree
  <2>5. \A d \in Docs : Matched(d, Installed[d])
    BY <2>4, Zenon DEF Matched
  <2>6. ASSUME NEW s \in Servers, NEW t \in Servers, NEW b \in CallsOf(s), NEW c \in CallsOf(t),
               ScopeDoc(s) = ScopeDoc(t), b.fn = c.fn
        PROVE  /\ b.fn = "get_or_create_jmsQueue" /\ b.name = c.name => b.qual = c.qual
               /\ b.fn = "get_or_create_datasources" /\ b.qual = c.qual => b.name = c.name
    <3>1. ASSUME b.fn = "get_or_create_jmsQueue", b.name = c.name PROVE b.qual = c.qual
      <4>1. PICK j \in DOMAIN yaml[s].jmsq :
              b.name = yaml[s].jmsq[j].name /\ b.qual = yaml[s].jmsq[j].jndiName
        BY <2>3, <3>1
      <4>2. PICK k \in DOMAIN yaml[t].jmsq :
              c.name = yaml[t].jmsq[k].name /\ c.qual = yaml[t].jmsq[k].jndiName
        BY <2>3, <2>6, <3>1
      <4>3. yaml[s].jmsq[j].name = yaml[t].jmsq[k].name
        BY <3>1, <4>1, <4>2
      <4>4. yaml[s].jmsq[j].jndiName = yaml[t].jmsq[k].jndiName
        BY <1>9, <2>6, <4>3 DEF ResourcesAgree
      <4> QED BY <4>1, <4>2, <4>4
    <3>2. ASSUME b.fn = "get_or_create_datasources", b.qual = c.qual PROVE b.name = c.name
      <4>1. PICK j \in DOMAIN yaml[s].dataSources :
              /\ b.name = yaml[s].dataSources[j].name
              /\ b.qual = yaml[s].dataSources[j].jndiName
        BY <2>2, <3>2
      <4>2. PICK k \in DOMAIN yaml[t].dataSources :
              /\ c.name = yaml[t].dataSources[k].name
              /\ c.qual = yaml[t].dataSources[k].jndiName
        BY <2>2, <2>6, <3>2
      <4>3. yaml[s].dataSources[j].jndiName = yaml[t].dataSources[k].jndiName
        BY <3>2, <4>1, <4>2
      <4>4. yaml[s].dataSources[j].name = yaml[t].dataSources[k].name
        BY <1>9, <2>6, <4>3 DEF ResourcesAgree
      <4> QED BY <4>1, <4>2, <4>4
    <3> QED BY <3>1, <3>2
  <2> QED BY <2>5, <2>6, Zenon DEF ResourcesMatch
<1>10. ASSUME FilesComplete(yaml) PROVE ArgumentsGiven
  <2>1. ASSUME NEW s \in Servers, NEW c \in CallsOf(s) PROVE c.ok
    <3>1. IsYaml(yaml[s]) /\ In(c, main(yaml[s]))
      BY CallsRendered
    <3> QED BY <1>10, <3>1, ScriptCalls DEF FilesComplete
  <2> QED BY <2>1 DEF ArgumentsGiven
<1> QED BY <1>1, <1>2, <1>3, <1>4, <1>5, <1>6, <1>7, <1>8, <1>9, <1>10

\* The role, from YAML files to cell: whatever plays run, fail, meet and are
\* repeated, the cell holds what the files of the completed plays declare, once,
\* with the values and references that they give.
THEOREM DeployedAsDeclared ==
  ASSUME NEW yaml, Rendered(yaml), NoCollision,
         PropertiesAgree(yaml), SourcesAgree(yaml), AliasesInstalled
  PROVE  Spec => /\ [](/\ SavedRunIsComplete /\ NoDuplicate
                       /\ ReferencesResolve /\ JvmValuesAsDeclared)
                 /\ LibraryOnRepeatedPlay
<1>1. ProvidersAsked /\ LinksOwnVhost /\ AliasesGiven /\ SettingsAgree /\ SourcesApart
  BY ScriptsMeetHypotheses
<1>2. Spec => []SavedRunIsComplete
  BY SavedRunsComplete
<1>3. Spec => []NoDuplicate
  BY <1>1, NothingTwice
<1>4. Spec => []ReferencesResolve
  BY <1>1, ReferencesStay
<1>5. Spec => []JvmValuesAsDeclared
  BY <1>1, JvmValuesKept
<1>6. Spec => LibraryOnRepeatedPlay
  BY <1>1, LibraryFollowsJar
<1> QED BY <1>2, <1>3, <1>4, <1>5, <1>6, PTL

\* The role does not fail of itself: when no YAML file lacks what the script
\* takes for granted, and those of a cluster agree on its resources and give each
\* connection factory an alias, a play only fails because another play saved
\* first or for a reason that is not in the files: a Fault of the model.
THEOREM DeployedWithoutError ==
  ASSUME NEW yaml, Rendered(yaml), NoCollision, SettingsInstalled,
         FilesComplete(yaml), FactoriesGiven(yaml), ResourcesAgree(yaml)
  PROVE  Spec => [][FailsFromOutside]_vars
<1>1. VhostsFirst /\ FactoriesSecured /\ ArgumentsGiven /\ ResourcesMatch
  BY ScriptsMeetHypotheses
<1> QED BY <1>1, NoScriptRaises
===============================================================================
