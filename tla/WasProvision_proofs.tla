------------------------ MODULE WasProvision_proofs ------------------------
(***************************************************************************)
(* Proofs about WasProvision for any number of plays, calls, objects and    *)
(* documents.                                                               *)
(***************************************************************************)
EXTENDS WasProvision, TLAPS, WellFoundedInduction

-----------------------------------------------------------------------------
(***************************************************************************)
(* The operators on documents.                                              *)
(***************************************************************************)

\* A set of positions that is not empty has a first one.
LEMMA FirstLemma ==
  ASSUME NEW I \in SUBSET Nat, I # {}
  PROVE  First(I) \in I
<1>1. PICK m \in I : \A k \in I : <<k, m>> \notin OpToRel(<, Nat)
  BY NatLessThanWellFounded, WFMin, Zenon
<1>2. \A k \in I : ~(k < m)
  BY <1>1 DEF OpToRel
<1>3. \A k \in I : m <= k
  BY <1>2
<1> QED BY <1>3, Zenon DEF First

\* set_jvm_system_properties finds a server, its own at the latest.
LEMMA SelectedLemma ==
  ASSUME NEW s \in Servers
  PROVE  Selected(s) \in Servers
<1> DEFINE I == {i \in DOMAIN ServerList : <<s, ServerList[i]>> \in PrefixOf}
<1>1. I \in SUBSET Nat /\ I # {}
  BY ListAssumption, NamesAssumption
<1>2. First(I) \in I
  BY <1>1, FirstLemma
<1> QED BY <1>2, ListAssumption DEF Selected

\* Every call is about a document of the cell.
LEMMA DocOfLemma ==
  ASSUME NEW s \in Servers, NEW f
  PROVE  DocOf(s, f) \in Docs
<1>1. ServerDoc(Selected(s)) \in Docs
  BY SelectedLemma DEF Docs
<1> QED BY <1>1 DEF DocOf, Docs

\* The documents a server uses are documents of the cell.
LEMMA OwnDocs ==
  ASSUME NEW s \in Servers
  PROVE  /\ {ServerDoc(s), ScopeDoc(s), VHosts, Security} \subseteq Docs
         /\ ScopeDoc(s) # Security
BY DEF Docs, ServerDoc, ScopeDoc, VHosts, Security

\* What a call writes is its value, as the YAML has it or as Java does.
LEMMA WrittenLemma ==
  ASSUME NEW c \in Call
  PROVE  /\ Written(c) \in Values \union {None}
         /\ c.fn # "set_jvm_prop" => Written(c) = c.value
<1>1. c.value \in Values \union {None}
  BY DEF Call
<1>2. JvmValue(c.value) \in Values \union {None}
  BY <1>1, ValuesAssumption
<1> QED BY <1>1, <1>2 DEF Written

\* The objects that the calls create are objects.
LEMMA ObjectLemma ==
  ASSUME NEW c \in Call
  PROVE  /\ NewObject(c) \in Object
         /\ ProviderObject \in Object
         /\ LibraryObject(c) \in Object
         /\ c.auth # None => JaasObject(c) \in Object
<1>1. /\ "ResourceEnvironmentProvider" \in Types
      /\ "JAASAuthData" \in Types
      /\ "Library" \in Types
  <2>1. /\ TypeOf["get_or_create_env_provider"] = "ResourceEnvironmentProvider"
        /\ TypeOf["set_auth"] = "JAASAuthData"
        /\ {"get_or_create_env_provider", "set_auth"} \subseteq Functions
    BY DEF TypeOf, Functions
  <2> QED BY <2>1 DEF Types
<1>2. Written(c) \in Values \union {None}
  BY WrittenLemma
<1> QED BY <1>1, <1>2, NamesAssumption DEF NewObject, ProviderObject, LibraryObject,
             JaasObject, Object, Call, Types

\* The positions that the lookups return are positions of the document.
LEMMA Positions ==
  ASSUME NEW q \in Seq(Object), NEW t, NEW n
  PROVE  /\ OfType(q, t) \in SUBSET (DOMAIN q)
         /\ Named(q, t, n) \in SUBSET (DOMAIN q)
         /\ Found(q, t, n) \in SUBSET (DOMAIN q)
         /\ Starting(q, t, n) \in SUBSET (DOMAIN q)
         /\ DOMAIN q \in SUBSET Nat
         /\ Len(q) \in Nat
BY DEF OfType, Named, Found, Starting

\* Changing a value or an authentication alias leaves the keys alone.
LEMMA WithValueLemma ==
  ASSUME NEW q \in Seq(Object), NEW I, NEW v \in Values \union {None}
  PROVE  /\ WithValue(q, I, v) \in Seq(Object)
         /\ KeysOf(WithValue(q, I, v)) = KeysOf(q)
<1> DEFINE r == WithValue(q, I, v)
<1>1. ASSUME NEW o \in Object
      PROVE  [o EXCEPT !.value = v] \in Object /\ Key([o EXCEPT !.value = v]) = Key(o)
  BY DEF Object, Key
<1>2. /\ DOMAIN r = 1..Len(q)
      /\ \A i \in 1..Len(q) : r[i] \in Object /\ Key(r[i]) = Key(q[i])
  BY <1>1 DEF WithValue
<1>3. r \in Seq(Object)
  BY <1>2 DEF WithValue
<1> QED BY <1>2, <1>3 DEF KeysOf

\* The same for an authentication alias.
LEMMA WithAuthLemma ==
  ASSUME NEW q \in Seq(Object), NEW I, NEW a \in Names
  PROVE  /\ WithAuth(q, I, a) \in Seq(Object)
         /\ KeysOf(WithAuth(q, I, a)) = KeysOf(q)
<1> DEFINE r == WithAuth(q, I, a)
<1>1. ASSUME NEW o \in Object
      PROVE  [o EXCEPT !.auth = a] \in Object /\ Key([o EXCEPT !.auth = a]) = Key(o)
  BY DEF Object, Key
<1>2. /\ DOMAIN r = 1..Len(q)
      /\ \A i \in 1..Len(q) : r[i] \in Object /\ Key(r[i]) = Key(q[i])
  BY <1>1 DEF WithAuth
<1>3. r \in Seq(Object)
  BY <1>2 DEF WithAuth
<1> QED BY <1>2, <1>3 DEF KeysOf

\* Adding an object to a document adds its key and no other.
LEMMA AppendLemma ==
  ASSUME NEW q \in Seq(Object), NEW o \in Object
  PROVE  /\ Append(q, o) \in Seq(Object)
         /\ KeysOf(Append(q, o)) = KeysOf(q) \union {Key(o)}
<1>1. /\ Append(q, o) \in Seq(Object)
      /\ DOMAIN Append(q, o) = (1..Len(q)) \union {Len(q) + 1}
      /\ \A i \in 1..Len(q) : Append(q, o)[i] = q[i]
      /\ Append(q, o)[Len(q) + 1] = o
      /\ Len(q) \in Nat
      /\ DOMAIN q = 1..Len(q)
  OBVIOUS
<1> QED BY <1>1 DEF KeysOf

-----------------------------------------------------------------------------
(***************************************************************************)
(* What every call of main() has in common: it extends the run's view of    *)
(* the documents it opens by objects the YAML declares, keeps (when no name *)
(* is part of another) those that were there, and delivers the object it    *)
(* promises.                                                                *)
(***************************************************************************)
IsProvider(k) == k[1] = "ResourceEnvironmentProvider"

\* Every provider a run can see has the one name the code gives it.
OneProviderName ==
  \A s \in Servers : \A d \in Docs : \A k \in KeysOf(View(s, d)) :
    IsProvider(k) => k = Key(ProviderObject)

Frame(s) ==
  /\ UNCHANGED <<master, stale, status, jar, runs, saves, faults>>
  /\ status[s] = "running"
  /\ pos[s] \in 1..Len(Calls[s])
  /\ pos' = [pos EXCEPT ![s] = @ + 1]
  /\ ret' \in [Servers -> Nat]
  /\ ws' \in [Servers -> [Docs -> Seq(Object)]]
  /\ opened' \in [Servers -> SUBSET Docs]
  /\ dirty' \in [Servers -> SUBSET Docs]
  /\ \A t \in Servers \ {s} :
       ws'[t] = ws[t] /\ opened'[t] = opened[t] /\ dirty'[t] = dirty[t]
  /\ opened[s] \subseteq opened'[s]
  /\ dirty'[s] \subseteq dirty[s] \union opened'[s]
  /\ dirty[s] \subseteq dirty'[s]
  /\ \A d \in opened'[s] \ dirty'[s] : ws'[s][d] = View(s, d)

Adds(s) ==
  \A d \in opened'[s] :
    KeysOf(ws'[s][d]) \subseteq KeysOf(View(s, d)) \union Declared(s, d) \union LibraryOf(s, d)

Keeps(s) == \A d \in opened'[s] : KeysOf(View(s, d)) \subseteq KeysOf(ws'[s][d])

Delivers(s) ==
  \A k \in Promised(Current(s)) :
    /\ DocOf(s, Current(s).fn) \in opened'[s]
    /\ k \in KeysOf(ws'[s][DocOf(s, Current(s).fn)])

CallStep(s) ==
  /\ Frame(s)
  /\ Adds(s)
  /\ NoCollision => Keeps(s)
  /\ (NoCollision /\ OneProviderName) => Delivers(s)

\* The call a running script is about to make.
LEMMA CurrentLemma ==
  ASSUME TypeOK, NEW s \in Servers, NEW fs, Calling(s, fs)
  PROVE  /\ Current(s) \in Call
         /\ Current(s).fn \in fs
         /\ pos[s] \in 1..Len(Calls[s])
         /\ status[s] = "running"
         /\ Current(s).fn = "configjaas" => Current(s).auth # None
<1>1. pos[s] \in Nat \ {0} /\ Calls[s] \in Seq(Call)
  BY CallsAssumption DEF TypeOK
<1>2. pos[s] \in 1..Len(Calls[s]) /\ Current(s).fn \in fs /\ status[s] = "running"
  BY <1>1 DEF Calling, InMain
<1>3. pos[s] \in DOMAIN Calls[s]
  BY <1>1, <1>2
<1> QED BY <1>1, <1>2, <1>3, CallsAssumption DEF Current

\* What a run sees of a document is a sequence of objects.
LEMMA ViewLemma ==
  ASSUME TypeOK, NEW s \in Servers, NEW d \in Docs
  PROVE  View(s, d) \in Seq(Object)
BY DEF TypeOK, View

\* What the current call promises is declared by the YAML.
LEMMA PromisedDeclared ==
  ASSUME TypeOK, NEW s \in Servers, pos[s] \in 1..Len(Calls[s])
  PROVE  Promised(Current(s)) \subseteq Declared(s, DocOf(s, Current(s).fn))
BY DEF Declared, Current

\* A call that only reads, or whose object is there already.
LEMMA ReadStep ==
  ASSUME TypeOK, NEW s \in Servers, NEW fs, Calling(s, fs),
         NEW d \in Docs, NEW i \in Nat, Read(s, d, i),
         NoCollision /\ OneProviderName =>
           \A k \in Promised(Current(s)) :
             d = DocOf(s, Current(s).fn) /\ k \in KeysOf(View(s, d))
  PROVE  CallStep(s)
<1>1. View(s, d) \in Seq(Object)
  BY ViewLemma
<1>2. Frame(s)
  BY <1>1, CurrentLemma DEF Frame, Read, TypeOK, View
<1>3. /\ opened'[s] = opened[s] \union {d}
      /\ ws'[s][d] = View(s, d)
      /\ \A e \in Docs \ {d} : ws'[s][e] = ws[s][e]
      /\ opened[s] \subseteq Docs
  BY DEF Read, TypeOK
<1>4. \A e \in opened'[s] : ws'[s][e] = View(s, e)
  BY <1>3 DEF View
<1>5. Adds(s) /\ Keeps(s)
  BY <1>4 DEF Adds, Keeps
<1>6. (NoCollision /\ OneProviderName) => Delivers(s)
  BY <1>3 DEF Delivers
<1> QED BY <1>2, <1>5, <1>6 DEF CallStep

\* A call that replaces a document.
LEMMA WriteStep ==
  ASSUME TypeOK, NEW s \in Servers, NEW fs, Calling(s, fs),
         NEW d \in Docs, NEW q \in Seq(Object), NEW i \in Nat, Write(s, d, q, i),
         KeysOf(q) \subseteq KeysOf(View(s, d)) \union Declared(s, d) \union LibraryOf(s, d),
         NoCollision => KeysOf(View(s, d)) \subseteq KeysOf(q),
         NoCollision /\ OneProviderName =>
           \A k \in Promised(Current(s)) :
             d = DocOf(s, Current(s).fn) /\ k \in KeysOf(q)
  PROVE  CallStep(s)
<1>2. Frame(s)
  BY CurrentLemma DEF Frame, Write, TypeOK, View
<1>3. /\ opened'[s] = opened[s] \union {d}
      /\ ws'[s][d] = q
      /\ \A e \in Docs \ {d} : ws'[s][e] = ws[s][e]
      /\ opened[s] \subseteq Docs
  BY DEF Write, TypeOK
<1>4. \A e \in opened'[s] \ {d} : ws'[s][e] = View(s, e)
  BY <1>3 DEF View
<1>5. Adds(s) /\ (NoCollision => Keeps(s))
  BY <1>3, <1>4 DEF Adds, Keeps
<1>6. (NoCollision /\ OneProviderName) => Delivers(s)
  BY <1>3 DEF Delivers
<1> QED BY <1>2, <1>5, <1>6 DEF CallStep

\* The type each lookup is about, and the document it is in.
LEMMA TypeOfLemma ==
  ASSUME NEW f \in Functions
  PROVE  /\ TypeOf[f] = "HostAlias" <=> f = "create_alias"
         /\ TypeOf[f] = "ResourceEnvironmentProvider" <=> f = "get_or_create_env_provider"
         /\ f = "set_jvm_prop" => TypeOf[f] = "Property"
         /\ TypeOf[f] \in Types
BY DEF TypeOf, Functions, Types

\* The object a call looks up, when no name is part of another.
LEMMA LookupLemma ==
  ASSUME NEW c \in Call, NEW q \in Seq(Object), c.fn # "create_alias"
  PROVE  /\ Named(q, TypeOf[c.fn], c.name) # {} => Key(NewObject(c)) \in KeysOf(q)
         /\ \A i \in Named(q, TypeOf[c.fn], c.name) : Key(q[i]) = Key(NewObject(c))
         /\ NoCollision => /\ Found(q, TypeOf[c.fn], c.name) \subseteq
                                Named(q, TypeOf[c.fn], c.name)
                           /\ Starting(q, TypeOf[c.fn], c.name) \subseteq
                                Named(q, TypeOf[c.fn], c.name)
<1>1. c.fn \in Functions /\ TypeOf[c.fn] # "HostAlias"
  BY TypeOfLemma DEF Call
<1>2. \A i \in Named(q, TypeOf[c.fn], c.name) : Key(q[i]) = Key(NewObject(c))
  BY <1>1 DEF Named, OfType, Key, NewObject
<1>3. Named(q, TypeOf[c.fn], c.name) # {} => Key(NewObject(c)) \in KeysOf(q)
  BY <1>2 DEF KeysOf, Named, OfType
<1>4. NoCollision => /\ Found(q, TypeOf[c.fn], c.name) \subseteq Named(q, TypeOf[c.fn], c.name)
                     /\ Starting(q, TypeOf[c.fn], c.name) \subseteq
                          Named(q, TypeOf[c.fn], c.name)
  BY NamesAssumption DEF NoCollision, Found, Starting, Named
<1> QED BY <1>2, <1>3, <1>4

PlainFunctions ==
  Functions \ (SettingFunctions \union
                 {"configjaas", "set_auth", "get_or_create_env_provider"})

\* What the functions that create a new object promise is its key.
LEMMA PromisedLemma ==
  ASSUME NEW c \in Call
  PROVE  /\ c.fn \in PlainFunctions => Promised(c) = {Key(NewObject(c))}
         /\ c.fn \in SettingFunctions => Promised(c) = {}
         /\ c.fn = "get_or_create_env_provider" => Promised(c) = {Key(ProviderObject)}
         /\ c.fn \in {"configjaas", "set_auth"} =>
              Promised(c) = IF c.auth = None THEN {} ELSE {Key(JaasObject(c))}
BY DEF Promised, PlainFunctions, SettingFunctions, Call

\* A call that appends the object it promises.
LEMMA AppendStep ==
  ASSUME TypeOK, NEW s \in Servers, NEW fs, Calling(s, fs),
         NEW d \in Docs, d = DocOf(s, Current(s).fn),
         NEW o \in Object, Promised(Current(s)) = {Key(o)},
         NEW i \in Nat, Write(s, d, Append(View(s, d), o), i)
  PROVE  CallStep(s)
<1>1. View(s, d) \in Seq(Object)
  BY ViewLemma
<1>2. /\ Append(View(s, d), o) \in Seq(Object)
      /\ KeysOf(Append(View(s, d), o)) = KeysOf(View(s, d)) \union {Key(o)}
  BY <1>1, AppendLemma
<1>3. Key(o) \in Declared(s, d)
  BY PromisedDeclared, CurrentLemma
<1> QED BY <1>2, <1>3, WriteStep

\* A call that changes values of objects, of which one is what it promises.
LEMMA ValueStep ==
  ASSUME TypeOK, NEW s \in Servers, NEW fs, Calling(s, fs),
         NEW d \in Docs, NEW I, NEW v \in Values \union {None}, NEW i \in Nat,
         Write(s, d, WithValue(View(s, d), I, v), i),
         \A k \in Promised(Current(s)) :
           d = DocOf(s, Current(s).fn) /\ k \in KeysOf(View(s, d))
  PROVE  CallStep(s)
<1>1. View(s, d) \in Seq(Object)
  BY ViewLemma
<1>2. /\ WithValue(View(s, d), I, v) \in Seq(Object)
      /\ KeysOf(WithValue(View(s, d), I, v)) = KeysOf(View(s, d))
  BY <1>1, WithValueLemma
<1> QED BY <1>2, WriteStep

-----------------------------------------------------------------------------
(***************************************************************************)
(* One lemma per call: it is a CallStep, or the script raises.              *)
(***************************************************************************)
LEMMA ModifySettingStep ==
  ASSUME TypeOK, NEW s \in Servers, ModifySetting(s)
  PROVE  CallStep(s) \/ Raise(s)
<1> DEFINE c == Current(s)
           d == ServerDoc(s)
           q == View(s, d)
           I == OfType(q, TypeOf[c.fn])
<1>1. Calling(s, SettingFunctions)
  BY DEF ModifySetting, SettingFunctions
<1>2. c \in Call /\ c.fn \in SettingFunctions /\ Promised(c) = {}
  BY <1>1, CurrentLemma, PromisedLemma
<1>3. d \in Docs /\ q \in Seq(Object)
  BY OwnDocs, ViewLemma
<1>4. CASE I # {} /\ Write(s, d, WithValue(q, I, c.value), First(I))
  <2>1. First(I) \in Nat
    BY <1>3, <1>4, Positions, FirstLemma
  <2>2. c.value \in Values \union {None}
    BY <1>2 DEF Call
  <2> QED BY <1>1, <1>2, <1>3, <1>4, <2>1, <2>2, ValueStep
<1>5. CASE Raise(s)
  BY <1>5
<1> QED BY <1>4, <1>5 DEF ModifySetting

\* The lookups by find() and startswith() satisfy what every call does.
LEMMA GetOrCreateListedStep ==
  ASSUME TypeOK, NEW s \in Servers, GetOrCreateListed(s)
  PROVE  CallStep(s) \/ Raise(s)
<1> DEFINE c == Current(s)
           d == DocOf(s, c.fn)
           q == View(s, d)
           t == TypeOf[c.fn]
<1>1. Calling(s, ListedFunctions)
  BY DEF GetOrCreateListed
<1>2. c \in Call /\ c.fn \in PlainFunctions /\ c.fn # "create_alias"
  BY <1>1, CurrentLemma DEF ListedFunctions, PlainFunctions, Functions, SettingFunctions
<1>3. d \in Docs /\ q \in Seq(Object) /\ Promised(c) = {Key(NewObject(c))}
  BY <1>2, DocOfLemma, ViewLemma, PromisedLemma
<1>4. CASE Write(s, d, Append(q, NewObject(c)), Len(q) + 1)
  <2>1. NewObject(c) \in Object /\ Len(q) + 1 \in Nat
    BY <1>2, <1>3, ObjectLemma, Positions
  <2> QED BY <1>1, <1>3, <1>4, <2>1, AppendStep
<1>5. CASE Found(q, t, c.name) # {} /\ Starting(q, t, c.name) # {}
             /\ Read(s, d, First(Starting(q, t, c.name)))
  <2>1. First(Starting(q, t, c.name)) \in Nat
    BY <1>3, <1>5, Positions, FirstLemma
  <2>2. NoCollision => Key(NewObject(c)) \in KeysOf(q)
    BY <1>2, <1>3, <1>5, LookupLemma
  <2> QED BY <1>1, <1>3, <1>5, <2>1, <2>2, ReadStep
<1>6. CASE Raise(s)
  BY <1>6
<1> QED BY <1>4, <1>5, <1>6 DEF GetOrCreateListed

\* The same for the vhost and the JDBC provider.
LEMMA GetOrCreateFoundStep ==
  ASSUME TypeOK, NEW s \in Servers, GetOrCreateFound(s)
  PROVE  CallStep(s) \/ Raise(s)
<1> DEFINE c == Current(s)
           d == DocOf(s, c.fn)
           q == View(s, d)
           I == Found(q, TypeOf[c.fn], c.name)
           fs == {"get_or_create_jdbc_prov", "get_or_create_vhost"}
<1>1. Calling(s, fs)
  BY DEF GetOrCreateFound
<1>2. c \in Call /\ c.fn \in PlainFunctions /\ c.fn # "create_alias"
  BY <1>1, CurrentLemma DEF PlainFunctions, Functions, SettingFunctions
<1>3. d \in Docs /\ q \in Seq(Object) /\ Promised(c) = {Key(NewObject(c))}
  BY <1>2, DocOfLemma, ViewLemma, PromisedLemma
<1>4. CASE Write(s, d, Append(q, NewObject(c)), Len(q) + 1)
  <2>1. NewObject(c) \in Object /\ Len(q) + 1 \in Nat
    BY <1>2, <1>3, ObjectLemma, Positions
  <2> QED BY <1>1, <1>3, <1>4, <2>1, AppendStep
<1>5. CASE I # {} /\ Read(s, d, First(I))
  <2>1. First(I) \in Nat
    BY <1>3, <1>5, Positions, FirstLemma
  <2>2. NoCollision => Key(NewObject(c)) \in KeysOf(q)
    BY <1>2, <1>3, <1>5, LookupLemma
  <2> QED BY <1>1, <1>3, <1>5, <2>1, <2>2, ReadStep
<1> QED BY <1>4, <1>5 DEF GetOrCreateFound

\* The same for a property set of an entry.
LEMMA CustomPropStep ==
  ASSUME TypeOK, NEW s \in Servers, CustomProp(s)
  PROVE  CallStep(s)
<1> DEFINE c == Current(s)
           d == ServerDoc(s)
           q == View(s, d)
<1>1. Calling(s, {"set_custom_prop_entry"})
  BY DEF CustomProp
<1>2. c \in Call /\ c.fn \in PlainFunctions /\ DocOf(s, c.fn) = d
  BY <1>1, CurrentLemma DEF PlainFunctions, Functions, SettingFunctions, DocOf
<1>3. /\ d \in Docs /\ Promised(c) = {Key(NewObject(c))}
      /\ NewObject(c) \in Object /\ ret[s] \in Nat
  BY <1>2, OwnDocs, PromisedLemma, ObjectLemma DEF TypeOK
<1>4. Write(s, d, Append(q, NewObject(c)), ret[s])
  BY DEF CustomProp
<1> QED BY <1>1, <1>2, <1>3, <1>4, AppendStep

\* The same for a JVM property.
LEMMA JvmPropStep ==
  ASSUME TypeOK, NEW s \in Servers, JvmProp(s)
  PROVE  CallStep(s)
<1> DEFINE c == Current(s)
           d == DocOf(s, c.fn)
           q == View(s, d)
<1>1. Calling(s, {"set_jvm_prop"})
  BY DEF JvmProp
<1>2. c \in Call /\ c.fn \in PlainFunctions /\ c.fn = "set_jvm_prop"
  BY <1>1, CurrentLemma DEF PlainFunctions, Functions, SettingFunctions
<1>3. /\ d \in Docs /\ q \in Seq(Object) /\ Promised(c) = {Key(NewObject(c))}
      /\ NewObject(c) \in Object /\ ret[s] \in Nat
      /\ Written(c) \in Values \union {None}
      /\ TypeOf[c.fn] = "Property"
  BY <1>2, WrittenLemma, DocOfLemma, ViewLemma, PromisedLemma, ObjectLemma, TypeOfLemma DEF TypeOK, Call
<1>4. CASE Write(s, d, Append(q, NewObject(c)), ret[s])
  BY <1>1, <1>3, <1>4, AppendStep
<1>5. CASE /\ Named(q, "Property", c.name) # {}
           /\ Write(s, d, WithValue(q, Starting(q, "Property", c.name), Written(c)), ret[s])
  <2>1. Key(NewObject(c)) \in KeysOf(q)
    BY <1>2, <1>3, <1>5, LookupLemma
  <2> QED BY <1>1, <1>3, <1>5, <2>1, ValueStep
<1> QED BY <1>4, <1>5 DEF JvmProp

\* The same for a host alias.
LEMMA CreateAliasStep ==
  ASSUME TypeOK, NEW s \in Servers, CreateAlias(s)
  PROVE  CallStep(s) \/ Raise(s)
<1> DEFINE c == Current(s)
           q == View(s, VHosts)
<1>1. Calling(s, {"create_alias"})
  BY DEF CreateAlias
<1>2. /\ c \in Call /\ c.fn \in PlainFunctions /\ DocOf(s, c.fn) = VHosts
      /\ c.fn = "create_alias" /\ TypeOf[c.fn] = "HostAlias"
  <2>1. c \in Call /\ c.fn = "create_alias"
    BY <1>1, CurrentLemma
  <2> QED BY <2>1, TypeOfLemma DEF PlainFunctions, Functions, SettingFunctions, DocOf
<1>3. /\ VHosts \in Docs /\ Promised(c) = {Key(NewObject(c))} /\ q \in Seq(Object)
      /\ NewObject(c) \in Object /\ ret[s] \in Nat
  BY <1>2, OwnDocs, ViewLemma, PromisedLemma, ObjectLemma DEF TypeOK
<1>4. CASE KnownAliases(q, c) # {} /\ Read(s, VHosts, ret[s])
  <2>1. PICK i \in KnownAliases(q, c) : TRUE
    BY <1>4
  <2>2. i \in DOMAIN q /\ q[i].type = "HostAlias" /\ q[i].name = c.name /\ q[i].qual = c.qual
    BY <2>1 DEF KnownAliases, Named, OfType
  <2>3. Key(q[i]) = Key(NewObject(c))
    BY <1>2, <2>2 DEF Key, NewObject
  <2>4. Key(NewObject(c)) \in KeysOf(q)
    BY <2>2, <2>3 DEF KeysOf
  <2> QED BY <1>1, <1>2, <1>3, <1>4, <2>4, ReadStep
<1>5. CASE Write(s, VHosts, Append(q, NewObject(c)), ret[s])
  BY <1>1, <1>2, <1>3, <1>5, AppendStep
<1> QED BY <1>4, <1>5 DEF CreateAlias

\* The security document after create_jaas or configjaas.
LEMMA WithAliasLemma ==
  ASSUME NEW c \in Call, c.auth # None, NEW q \in Seq(Object)
  PROVE  /\ WithAlias(q, c) \in Seq(Object)
         /\ KeysOf(WithAlias(q, c)) = KeysOf(q) \union {Key(JaasObject(c))}
<1>1. JaasObject(c) \in Object
  BY ObjectLemma
<1>2. CASE Named(q, "JAASAuthData", c.auth) = {}
  BY <1>1, <1>2, AppendLemma DEF WithAlias
<1>3. CASE Named(q, "JAASAuthData", c.auth) # {}
  <2>1. PICK i \in DOMAIN q : q[i].type = "JAASAuthData" /\ q[i].name = c.auth
    BY <1>3 DEF Named, OfType
  <2>2. Key(q[i]) = Key(JaasObject(c))
    BY <2>1 DEF Key, JaasObject
  <2> QED BY <1>3, <2>2 DEF WithAlias, KeysOf
<1> QED BY <1>2, <1>3

\* The same for the alias of a messaging factory.
LEMMA ConfigJaasStep ==
  ASSUME TypeOK, NEW s \in Servers, ConfigJaas(s)
  PROVE  CallStep(s)
<1> DEFINE c == Current(s)
           q == View(s, Security)
<1>1. Calling(s, {"configjaas"})
  BY DEF ConfigJaas
<1>2. c \in Call /\ c.fn = "configjaas" /\ c.auth # None /\ DocOf(s, c.fn) = Security
  BY <1>1, CurrentLemma DEF DocOf
<1>3. /\ Security \in Docs /\ Promised(c) = {Key(JaasObject(c))} /\ q \in Seq(Object)
      /\ JaasObject(c) \in Object /\ ret[s] \in Nat
  BY <1>2, OwnDocs, ViewLemma, PromisedLemma, ObjectLemma DEF TypeOK
<1>4. KeysOf(WithAlias(q, c)) = KeysOf(q) \union {Key(JaasObject(c))}
  BY <1>2, <1>3, WithAliasLemma
<1>5. CASE Named(q, "JAASAuthData", c.auth) = {} /\ Write(s, Security, WithAlias(q, c), ret[s])
  <2>1. WithAlias(q, c) = Append(q, JaasObject(c))
    BY <1>5 DEF WithAlias
  <2> QED BY <1>1, <1>2, <1>3, <1>5, <2>1, AppendStep
<1>6. CASE Named(q, "JAASAuthData", c.auth) # {} /\ Read(s, Security, ret[s])
  <2>1. Key(JaasObject(c)) \in KeysOf(q)
    BY <1>4, <1>6 DEF WithAlias
  <2> QED BY <1>1, <1>2, <1>3, <1>6, <2>1, ReadStep
<1> QED BY <1>5, <1>6 DEF ConfigJaas

\* The same for an MQ queue connection factory.
LEMMA CreateMqJmsStep ==
  ASSUME TypeOK, NEW s \in Servers, CreateMqJms(s)
  PROVE  CallStep(s)
<1> DEFINE c == Current(s)
           d == ScopeDoc(s)
           q == View(s, d)
<1>1. Calling(s, {"create_mqjms"})
  BY DEF CreateMqJms
<1>2. /\ c \in Call /\ c.fn \in PlainFunctions /\ DocOf(s, c.fn) = d
      /\ c.fn # "create_alias"
  BY <1>1, CurrentLemma DEF PlainFunctions, Functions, SettingFunctions, DocOf
<1>3. /\ d \in Docs /\ Promised(c) = {Key(NewObject(c))} /\ q \in Seq(Object)
      /\ NewObject(c) \in Object /\ ret[s] \in Nat
  BY <1>2, OwnDocs, ViewLemma, PromisedLemma, ObjectLemma DEF TypeOK
<1>4. CASE Write(s, d, Append(q, NewObject(c)), ret[s])
  BY <1>1, <1>2, <1>3, <1>4, AppendStep
<1>5. CASE Named(q, TypeOf[c.fn], c.name) # {} /\ Read(s, d, ret[s])
  <2>1. Key(NewObject(c)) \in KeysOf(q)
    BY <1>2, <1>3, <1>5, LookupLemma
  <2> QED BY <1>1, <1>2, <1>3, <1>5, <2>1, ReadStep
<1> QED BY <1>4, <1>5 DEF CreateMqJms

\* The same for a queue.
LEMMA JmsQueueStep ==
  ASSUME TypeOK, NEW s \in Servers, JmsQueue(s)
  PROVE  CallStep(s) \/ Raise(s)
<1> DEFINE c == Current(s)
           d == ScopeDoc(s)
           q == View(s, d)
           I == Named(q, TypeOf[c.fn], c.name)
           Same == {i \in I : q[i].qual = c.qual}
<1>1. Calling(s, {"get_or_create_jmsQueue"})
  BY DEF JmsQueue
<1>2. /\ c \in Call /\ c.fn \in PlainFunctions /\ DocOf(s, c.fn) = d
      /\ c.fn # "create_alias"
  BY <1>1, CurrentLemma DEF PlainFunctions, Functions, SettingFunctions, DocOf
<1>3. /\ d \in Docs /\ Promised(c) = {Key(NewObject(c))} /\ q \in Seq(Object)
      /\ NewObject(c) \in Object /\ ret[s] \in Nat /\ c.value \in Values \union {None}
  BY <1>2, OwnDocs, ViewLemma, PromisedLemma, ObjectLemma DEF TypeOK, Call
<1>4. CASE Write(s, d, Append(q, NewObject(c)), ret[s])
  BY <1>1, <1>2, <1>3, <1>4, AppendStep
<1>5. Same # {} => Key(NewObject(c)) \in KeysOf(q)
  BY <1>2, <1>3, LookupLemma
<1>6. CASE Same # {} /\ Write(s, d, WithValue(q, {First(Same)}, c.value), ret[s])
  BY <1>1, <1>2, <1>3, <1>5, <1>6, ValueStep
<1>7. CASE Same # {} /\ Read(s, d, ret[s])
  BY <1>1, <1>2, <1>3, <1>5, <1>7, ReadStep
<1> QED BY <1>4, <1>6, <1>7 DEF JmsQueue

\* The same for a data source.
LEMMA DataSourceStep ==
  ASSUME TypeOK, NEW s \in Servers, DataSource(s)
  PROVE  CallStep(s) \/ Raise(s)
<1> DEFINE c == Current(s)
           d == ScopeDoc(s)
           q == View(s, d)
           Taken == {i \in OfType(q, TypeOf[c.fn]) : q[i].qual = c.qual}
           Same == {i \in Taken : q[i].name = c.name}
           new == [NewObject(c) EXCEPT !.auth = None]
<1>1. Calling(s, {"get_or_create_datasources"})
  BY DEF DataSource
<1>2. /\ c \in Call /\ c.fn \in PlainFunctions /\ DocOf(s, c.fn) = d
      /\ c.fn # "create_alias"
  BY <1>1, CurrentLemma DEF PlainFunctions, Functions, SettingFunctions, DocOf
<1>3. /\ d \in Docs /\ Promised(c) = {Key(NewObject(c))} /\ q \in Seq(Object)
      /\ NewObject(c) \in Object /\ c.value \in Values \union {None}
      /\ Len(q) + 1 \in Nat
  BY <1>2, OwnDocs, ViewLemma, PromisedLemma, ObjectLemma, Positions DEF Call
<1>4. new \in Object /\ Key(new) = Key(NewObject(c))
  BY <1>3 DEF Object, Key
<1>5. CASE Write(s, d, Append(q, new), Len(q) + 1)
  BY <1>1, <1>2, <1>3, <1>4, <1>5, AppendStep
<1>6. CASE Same # {} /\ Write(s, d, WithValue(q, {First(Same)}, c.value), First(Same))
  <2>1. Same \subseteq Named(q, TypeOf[c.fn], c.name)
    BY DEF Named
  <2>2. First(Same) \in Nat
    <3>1. Same \in SUBSET Nat
      BY <1>3, <2>1, Positions
    <3> QED BY <3>1, <1>6, FirstLemma
  <2>3. Key(NewObject(c)) \in KeysOf(q)
    BY <1>2, <1>3, <1>6, <2>1, LookupLemma
  <2> QED BY <1>1, <1>2, <1>3, <1>6, <2>2, <2>3, ValueStep
<1> QED BY <1>5, <1>6 DEF DataSource

\* One object of a document replaced: no key but its own is lost.
LEMMA ReplaceLemma ==
  ASSUME NEW q \in Seq(Object), NEW n \in DOMAIN q, NEW o \in Object
  PROVE  /\ [q EXCEPT ![n] = o] \in Seq(Object)
         /\ KeysOf([q EXCEPT ![n] = o]) \subseteq KeysOf(q) \union {Key(o)}
         /\ Key(o) \in KeysOf([q EXCEPT ![n] = o])
         /\ Key(o) = Key(q[n]) => KeysOf(q) \subseteq KeysOf([q EXCEPT ![n] = o])
<1> DEFINE r == [q EXCEPT ![n] = o]
<1>1. /\ r \in Seq(Object) /\ DOMAIN r = DOMAIN q /\ r[n] = o
      /\ \A k \in DOMAIN q \ {n} : r[k] = q[k]
  OBVIOUS
<1>2. KeysOf(r) \subseteq KeysOf(q) \union {Key(o)} /\ Key(o) \in KeysOf(r)
  BY <1>1 DEF KeysOf
<1>3. Key(o) = Key(q[n]) => KeysOf(q) \subseteq KeysOf(r)
  BY <1>1 DEF KeysOf
<1> QED BY <1>1, <1>2, <1>3

\* The same for a connection factory: renaming one to its own name adds no key.
LEMMA JmsCFStep ==
  ASSUME TypeOK, NEW s \in Servers, JmsCF(s)
  PROVE  CallStep(s) \/ Raise(s)
<1> DEFINE c == Current(s)
           d == ScopeDoc(s)
           q == View(s, d)
           first == First(Starting(q, TypeOf[c.fn], c.name))
           new == [NewObject(c) EXCEPT !.auth = None]
           changed == [new EXCEPT !.auth = q[first].auth]
<1>1. Calling(s, {"get_or_create_jmsCF"})
  BY DEF JmsCF
<1>2. /\ c \in Call /\ c.fn \in PlainFunctions /\ DocOf(s, c.fn) = d
      /\ c.fn # "create_alias"
  BY <1>1, CurrentLemma DEF PlainFunctions, Functions, SettingFunctions, DocOf
<1>3. /\ d \in Docs /\ Promised(c) = {Key(NewObject(c))} /\ q \in Seq(Object)
      /\ NewObject(c) \in Object /\ Len(q) + 1 \in Nat
  BY <1>2, OwnDocs, ViewLemma, PromisedLemma, ObjectLemma, Positions
<1>4. new \in Object /\ Key(new) = Key(NewObject(c))
  BY <1>3 DEF Object, Key
<1>5. CASE Write(s, d, Append(q, new), Len(q) + 1)
  BY <1>1, <1>2, <1>3, <1>4, <1>5, AppendStep
<1>6. CASE /\ Named(q, TypeOf[c.fn], c.name) # {}
           /\ Write(s, d, [q EXCEPT ![first] = changed], first)
  <2>1. Named(q, TypeOf[c.fn], c.name) \subseteq Starting(q, TypeOf[c.fn], c.name)
    BY <1>2, NamesAssumption DEF Named, Starting, Call
  <2>2. first \in Starting(q, TypeOf[c.fn], c.name) /\ first \in DOMAIN q /\ first \in Nat
    <3>1. Starting(q, TypeOf[c.fn], c.name) \in SUBSET Nat
      BY <1>3, Positions
    <3>2. first \in Starting(q, TypeOf[c.fn], c.name)
      BY <3>1, <2>1, <1>6, FirstLemma
    <3> QED BY <3>1, <3>2, <1>3, Positions
  <2>3. q[first] \in Object
    BY <1>3, <2>2
  <2>4. changed \in Object /\ Key(changed) = Key(NewObject(c))
    BY <1>4, <2>3 DEF Object, Key
  <2>5. NoCollision => Key(q[first]) = Key(changed)
    BY <1>2, <1>3, <2>2, <2>4, LookupLemma
  <2>6. Key(NewObject(c)) \in Declared(s, d)
    BY <1>1, <1>2, <1>3, CurrentLemma, PromisedDeclared
  <2> DEFINE r == [q EXCEPT ![first] = changed]
  <2>7. /\ r \in Seq(Object)
        /\ KeysOf(r) \subseteq KeysOf(q) \union {Key(changed)}
        /\ Key(changed) \in KeysOf(r)
        /\ Key(changed) = Key(q[first]) => KeysOf(q) \subseteq KeysOf(r)
    BY <1>3, <2>2, <2>4, ReplaceLemma
  <2>8. Write(s, d, r, first)
    BY <1>6
  <2> HIDE DEF r, changed, first
  <2> QED BY <1>1, <1>2, <1>3, <2>2, <2>4, <2>5, <2>6, <2>7, <2>8, WriteStep
<1> QED BY <1>5, <1>6 DEF JmsCF

\* The same for the environment provider and its library.
LEMMA EnvProviderStep ==
  ASSUME TypeOK, NEW s \in Servers, EnvProvider(s)
  PROVE  CallStep(s)
<1> DEFINE c == Current(s)
           d == ServerDoc(s)
           q == View(s, d)
           Providers == OfType(q, "ResourceEnvironmentProvider")
           new == (IF Providers = {} THEN <<ProviderObject>> ELSE <<>>)
                    \o MissingLibrary(s, c, q)
           provider == IF Providers = {} THEN Len(q) + 1 ELSE First(Providers)
<1>1. Calling(s, {"get_or_create_env_provider"})
  BY DEF EnvProvider
<1>2. c \in Call /\ c.fn = "get_or_create_env_provider" /\ DocOf(s, c.fn) = d
  BY <1>1, CurrentLemma DEF DocOf
<1>3. /\ d \in Docs /\ Promised(c) = {Key(ProviderObject)} /\ q \in Seq(Object)
      /\ ProviderObject \in Object /\ LibraryObject(c) \in Object /\ Len(q) + 1 \in Nat
  BY <1>2, OwnDocs, ViewLemma, PromisedLemma, ObjectLemma, Positions
<1>4. provider \in Nat
  <2>1. Providers \in SUBSET Nat
    BY <1>3, Positions
  <2> QED BY <1>3, <2>1, FirstLemma
<1>5. Key(ProviderObject) \in Declared(s, d) /\ Key(LibraryObject(c)) \in LibraryOf(s, d)
  <2>1. Key(ProviderObject) \in Declared(s, d)
    BY <1>1, <1>2, <1>3, CurrentLemma, PromisedDeclared
  <2>2. pos[s] \in 1..Len(Calls[s])
    BY <1>1, CurrentLemma
  <2> QED BY <2>1, <2>2, <1>2 DEF LibraryOf, Current
<1>6. (OneProviderName /\ Providers # {}) => Key(ProviderObject) \in KeysOf(q)
  <2> SUFFICES ASSUME OneProviderName, Providers # {}
               PROVE  Key(ProviderObject) \in KeysOf(q)
    OBVIOUS
  <2>1. PICK n \in DOMAIN q : q[n].type = "ResourceEnvironmentProvider"
    BY DEF OfType
  <2>2. Key(q[n]) \in KeysOf(q) /\ IsProvider(Key(q[n]))
    BY <2>1 DEF KeysOf, IsProvider, Key
  <2> QED BY <2>2, <1>3 DEF OneProviderName
<1>7. /\ new \in Seq(Object)
      /\ \A n \in DOMAIN new : new[n] = ProviderObject \/ new[n] = LibraryObject(c)
      /\ Providers = {} => Len(new) \in Nat \ {0} /\ new[1] = ProviderObject
  BY <1>3 DEF MissingLibrary
<1>8. CASE new = <<>> /\ Read(s, d, provider)
  <2>1. Providers # {}
    BY <1>7, <1>8
  <2> HIDE DEF new, provider
  <2> QED BY <1>1, <1>2, <1>3, <1>4, <1>6, <1>8, <2>1, ReadStep
<1>9. CASE Write(s, d, q \o new, provider)
  <2> DEFINE r == q \o new
  <2> HIDE DEF new, provider
  <2>1. /\ r \in Seq(Object) /\ Len(r) = Len(q) + Len(new)
        /\ \A n \in 1..Len(q) : r[n] = q[n]
        /\ \A n \in 1..Len(new) : r[Len(q) + n] = new[n]
        /\ \A n \in 1..Len(r) : n \in 1..Len(q) \/ n - Len(q) \in 1..Len(new)
    BY <1>3, <1>7
  <2>2. KeysOf(q) \subseteq KeysOf(r)
    BY <2>1, <1>3 DEF KeysOf
  <2>3. KeysOf(r) \subseteq KeysOf(q) \union {Key(ProviderObject), Key(LibraryObject(c))}
    <3> SUFFICES ASSUME NEW n \in 1..Len(r)
                 PROVE  Key(r[n]) \in KeysOf(q) \union
                          {Key(ProviderObject), Key(LibraryObject(c))}
      BY <2>1 DEF KeysOf
    <3>1. CASE n \in 1..Len(q)
      BY <3>1, <2>1, <1>3 DEF KeysOf
    <3>2. CASE n - Len(q) \in 1..Len(new)
      <4>1. r[n] = new[n - Len(q)]
        BY <3>2, <2>1, <1>3, <1>7
      <4>2. r[n] = ProviderObject \/ r[n] = LibraryObject(c)
        BY <4>1, <3>2, <1>7
      <4> QED BY <4>2
    <3> QED BY <3>1, <3>2, <2>1
  <2>4. Providers = {} => Key(ProviderObject) \in KeysOf(r)
    <3> SUFFICES ASSUME Providers = {} PROVE Key(ProviderObject) \in KeysOf(r)
      OBVIOUS
    <3>1. r[Len(q) + 1] = ProviderObject /\ Len(q) + 1 \in 1..Len(r)
      BY <1>3, <1>7, <2>1
    <3> QED BY <3>1, <2>1 DEF KeysOf
  <2>5. NoCollision /\ OneProviderName => Key(ProviderObject) \in KeysOf(r)
    BY <2>2, <2>4, <1>6
  <2>6. Write(s, d, r, provider)
    BY <1>9
  <2> HIDE DEF r
  <2> QED BY <1>1, <1>2, <1>3, <1>4, <1>5, <2>1, <2>2, <2>3, <2>5, <2>6, WriteStep
<1> QED BY <1>8, <1>9 DEF EnvProvider

\* The same for set_auth, which writes two documents.
LEMMA SetAuthStep ==
  ASSUME TypeOK, NEW s \in Servers, SetAuth(s)
  PROVE  CallStep(s)
<1> DEFINE c == Current(s)
           d == ScopeDoc(s)
           old == View(s, Security)
           new == WithAlias(old, c)
           linked == WithAuth(View(s, d), {ret[s]}, c.auth)
<1>1. Calling(s, {"set_auth"})
  BY DEF SetAuth
<1>2. c \in Call /\ c.fn = "set_auth" /\ DocOf(s, c.fn) = Security
  BY <1>1, CurrentLemma DEF DocOf
<1>3. /\ d \in Docs /\ Security \in Docs /\ d # Security
      /\ old \in Seq(Object) /\ View(s, d) \in Seq(Object)
      /\ Promised(c) = IF c.auth = None THEN {} ELSE {Key(JaasObject(c))}
  BY <1>2, OwnDocs, ViewLemma, PromisedLemma
<1>4. /\ UNCHANGED <<master, stale, ret, status, jar, runs, saves, faults>>
      /\ status[s] = "running" /\ pos[s] \in 1..Len(Calls[s])
      /\ pos' = [pos EXCEPT ![s] = @ + 1]
      /\ ret' \in [Servers -> Nat]
  BY <1>1, CurrentLemma DEF SetAuth, TypeOK
<1>5. CASE c.auth = None
  <2>1. UNCHANGED <<ws, opened, dirty>>
    BY <1>5 DEF SetAuth
  <2>2. \A e \in opened'[s] : ws'[s][e] = View(s, e)
    BY <2>1 DEF View
  <2>3. Frame(s)
    BY <1>4, <2>1, <2>2 DEF Frame, TypeOK
  <2>4. Adds(s) /\ Keeps(s)
    BY <2>2 DEF Adds, Keeps
  <2>5. Delivers(s)
    BY <1>3, <1>5 DEF Delivers
  <2> QED BY <2>3, <2>4, <2>5 DEF CallStep
<1>6. CASE c.auth # None
  <2>1. /\ ws' = [ws EXCEPT ![s] = [@ EXCEPT ![Security] = new, ![d] = linked]]
        /\ opened' = [opened EXCEPT ![s] = @ \union {Security, d}]
        /\ dirty' = [dirty EXCEPT ![s] =
                       @ \union {d} \union (IF new = old THEN {} ELSE {Security})]
    BY <1>6 DEF SetAuth
  <2>2. c.auth \in Names
    BY <1>2, <1>6 DEF Call
  <2>3. /\ new \in Seq(Object)
        /\ KeysOf(new) = KeysOf(old) \union {Key(JaasObject(c))}
    BY <1>2, <1>3, <1>6, WithAliasLemma
  <2>4. linked \in Seq(Object) /\ KeysOf(linked) = KeysOf(View(s, d))
    BY <1>3, <2>2, WithAuthLemma
  <2>5. Key(JaasObject(c)) \in Declared(s, Security)
    BY <1>2, <1>3, <1>4, <1>6, PromisedDeclared
  <2> HIDE DEF new, linked
  <2>6. /\ ws'[s][Security] = new /\ ws'[s][d] = linked
        /\ \A e \in Docs \ {Security, d} : ws'[s][e] = ws[s][e]
        /\ ws' \in [Servers -> [Docs -> Seq(Object)]]
        /\ \A t \in Servers \ {s} : ws'[t] = ws[t]
    BY <1>3, <2>1, <2>3, <2>4 DEF TypeOK
  <2>7. /\ opened'[s] = opened[s] \union {Security, d}
        /\ dirty'[s] = dirty[s] \union {d} \union (IF new = old THEN {} ELSE {Security})
        /\ opened' \in [Servers -> SUBSET Docs] /\ dirty' \in [Servers -> SUBSET Docs]
        /\ \A t \in Servers \ {s} : opened'[t] = opened[t] /\ dirty'[t] = dirty[t]
        /\ opened[s] \subseteq Docs
    BY <1>3, <2>1 DEF TypeOK
  <2>8. \A e \in opened'[s] \ {Security, d} : ws'[s][e] = View(s, e)
    BY <2>6, <2>7 DEF View
  <2>9. \A e \in opened'[s] \ dirty'[s] : ws'[s][e] = View(s, e)
    BY <2>6, <2>7, <2>8
  <2>10. Frame(s)
    BY <1>4, <2>6, <2>7, <2>9 DEF Frame
  <2>11. Adds(s) /\ Keeps(s)
    BY <2>3, <2>4, <2>5, <2>6, <2>8 DEF Adds, Keeps
  <2>12. Delivers(s)
    BY <1>2, <1>3, <1>6, <2>3, <2>6, <2>7 DEF Delivers
  <2> QED BY <2>10, <2>11, <2>12 DEF CallStep
<1> QED BY <1>5, <1>6

\* The steps of a script.
LEMMA ScriptStep ==
  ASSUME TypeOK, NEW s \in Servers, Script(s)
  PROVE  CallStep(s) \/ Raise(s) \/ Save(s)
<1>1. SaveConflict(s) \/ ArgumentError(s) => Raise(s)
  BY DEF SaveConflict, ArgumentError
<1> QED BY <1>1, ModifySettingStep, EnvProviderStep, GetOrCreateListedStep,
           GetOrCreateFoundStep, CustomPropStep, JvmPropStep, CreateAliasStep,
           ConfigJaasStep, CreateMqJmsStep, JmsCFStep, SetAuthStep, JmsQueueStep,
           DataSourceStep DEF Script

-----------------------------------------------------------------------------
(***************************************************************************)
(* Type correctness.                                                        *)
(***************************************************************************)
LEMMA StopType ==
  ASSUME TypeOK, NEW s \in Servers, Stop(s), faults' \in Nat
  PROVE  TypeOK'
<1>1. EmptyWorkspace \in [Docs -> Seq(Object)]
  BY DEF EmptyWorkspace
<1> QED BY <1>1 DEF Stop, Discard, Fresh, TypeOK, Statuses

\* A save keeps the types.
LEMMA SaveType ==
  ASSUME TypeOK, NEW s \in Servers, Save(s)
  PROVE  TypeOK'
<1>1. EmptyWorkspace \in [Docs -> Seq(Object)]
  BY DEF EmptyWorkspace
<1>2. Saved(s) \in [Docs -> Seq(Object)]
  BY DEF Saved, TypeOK
<1>3. master' \in [Docs -> Seq(Object)] /\ stale' \in [Servers -> SUBSET Docs]
  BY <1>2 DEF Save, TypeOK
<1>4. /\ ws' \in [Servers -> [Docs -> Seq(Object)]]
      /\ opened' \in [Servers -> SUBSET Docs] /\ dirty' \in [Servers -> SUBSET Docs]
      /\ pos' \in [Servers -> Nat \ {0}] /\ ret' \in [Servers -> Nat]
  BY <1>1 DEF Save, Discard, Fresh, TypeOK
<1>5. /\ status' \in [Servers -> Statuses] /\ saves' \in [Servers -> Nat]
      /\ UNCHANGED <<jar, runs, faults>>
  BY DEF Save, TypeOK, Statuses
<1> QED BY <1>3, <1>4, <1>5 DEF TypeOK

\* A step is the start or the end of a play, a call of a script, its save or
\* its failure.
LEMMA StepCases ==
  ASSUME TypeOK, [Next]_vars
  PROVE  \/ \E s \in Servers : \/ LaunchScript(s) \/ PushJar(s) \/ Stop(s)
                               \/ CallStep(s) \/ Save(s)
         \/ UNCHANGED vars
BY ScriptStep DEF Next, Fault, Raise

\* Every step keeps the types.
LEMMA TypeStep ==
  ASSUME TypeOK, [Next]_vars
  PROVE  TypeOK'
<1>1. ASSUME NEW s \in Servers, LaunchScript(s) PROVE TypeOK'
  BY <1>1 DEF LaunchScript, TypeOK, Statuses
<1>2. ASSUME NEW s \in Servers, PushJar(s) PROVE TypeOK'
  BY <1>2 DEF PushJar, TypeOK, Statuses
<1>3. ASSUME NEW s \in Servers, Fault(s) PROVE TypeOK'
  <2>1. Stop(s) /\ faults' \in Nat
    BY <1>3 DEF Fault, TypeOK
  <2> QED BY <2>1, StopType
<1>4. ASSUME NEW s \in Servers, Script(s) PROVE TypeOK'
  <2>1. CASE CallStep(s)
    BY <2>1 DEF CallStep, Frame, TypeOK
  <2>2. CASE Raise(s)
    <3>1. Stop(s) /\ faults' \in Nat
      BY <2>2 DEF Raise, TypeOK
    <3> QED BY <3>1, StopType
  <2>3. CASE Save(s)
    BY <2>3, SaveType
  <2> QED BY <1>4, <2>1, <2>2, <2>3, ScriptStep
<1>5. CASE UNCHANGED vars
  BY <1>5 DEF vars, TypeOK
<1> QED BY <1>1, <1>2, <1>3, <1>4, <1>5 DEF Next

\* The first state has the types.
LEMMA TypeInit == Init => TypeOK
BY InstalledAssumption DEF Init, TypeOK, EmptyWorkspace, Statuses

\* Every variable keeps its type, whatever the scripts declare and however
\* many plays run and fail.
THEOREM TypeCorrect == Spec => []TypeOK
BY TypeInit, TypeStep, PTL DEF Spec

-----------------------------------------------------------------------------
(***************************************************************************)
(* All or nothing. OnlySavedRuns is not inductive: it says nothing of the   *)
(* workspaces. What a run may still save is a document that no other run    *)
(* has saved since, and such a document has, beside the objects of the      *)
(* repository, only those that the run's YAML declares.                     *)
(***************************************************************************)
Above(s) ==
  /\ dirty[s] \subseteq opened[s]
  /\ \A d \in opened[s] \ stale[s] :
       KeysOf(ws[s][d]) \subseteq KeysOf(master[d]) \union Declared(s, d) \union LibraryOf(s, d)

AtomicInv == TypeOK /\ (\A s \in Servers : Above(s)) /\ OnlySavedRuns

\* A call keeps a workspace within what the YAML declares.
LEMMA AboveCall ==
  ASSUME TypeOK, NEW s \in Servers, CallStep(s), NEW t \in Servers, Above(t)
  PROVE  Above(t)'
<1>1. CASE t # s
  BY <1>1 DEF Above, CallStep, Frame
<1>2. CASE t = s
  <2>1. dirty'[s] \subseteq opened'[s]
    BY <1>2 DEF Above, CallStep, Frame
  <2>2. ASSUME NEW d \in opened'[s] \ stale'[s]
        PROVE  KeysOf(ws'[s][d]) \subseteq
                 KeysOf(master'[d]) \union Declared(s, d) \union LibraryOf(s, d)
    <3>1. KeysOf(View(s, d)) \subseteq
            KeysOf(master[d]) \union Declared(s, d) \union LibraryOf(s, d)
      BY <1>2 DEF View, Above, CallStep, Frame
    <3> QED BY <3>1 DEF CallStep, Adds, Frame
  <2> QED BY <1>2, <2>1, <2>2 DEF Above
<1> QED BY <1>1, <1>2

\* A run that has ended has no workspace.
LEMMA AboveEmpty ==
  ASSUME TypeOK, NEW s \in Servers, Discard(s)
  PROVE  Above(s)'
BY DEF Above, Discard, Fresh, TypeOK

\* A run that ends leaves the workspaces of the others alone.
LEMMA OtherRuns ==
  ASSUME TypeOK, NEW s \in Servers, Discard(s), NEW t \in Servers \ {s}
  PROVE  /\ ws'[t] = ws[t] /\ opened'[t] = opened[t] /\ dirty'[t] = dirty[t]
         /\ pos'[t] = pos[t]
BY DEF Discard, Fresh, TypeOK

\* A script that stops keeps every workspace within its YAML.
LEMMA AboveStop ==
  ASSUME TypeOK, NEW s \in Servers, Stop(s), NEW t \in Servers, Above(t)
  PROVE  Above(t)'
<1>1. CASE t = s
  BY <1>1, AboveEmpty DEF Stop
<1>2. CASE t # s
  <2>1. stale'[t] = stale[t] /\ master' = master /\ Discard(s)
    BY <1>2 DEF Stop, TypeOK
  <2> QED BY <1>2, <2>1, OtherRuns DEF Above
<1> QED BY <1>1, <1>2

\* What Save does to the documents and to the other runs.
LEMMA SaveLemma ==
  ASSUME TypeOK, NEW s \in Servers, Save(s), Above(s)
  PROVE  /\ \A d \in dirty[s] : /\ d \in opened[s] \ stale[s]
                                /\ d \in Docs
                                /\ master'[d] = ws[s][d]
         /\ \A d \in Docs \ dirty[s] : master'[d] = master[d]
         /\ Discard(s)
         /\ saves'[s] > 0
         /\ \A t \in Servers \ {s} :
              saves'[t] = saves[t] /\ stale'[t] = stale[t] \union (opened[t] \intersect dirty[s])
<1>1. dirty[s] \subseteq Docs /\ dirty[s] \subseteq opened[s]
  BY DEF TypeOK, Above
<1>2. dirty[s] \intersect stale[s] = {}
  BY DEF Save, Conflict
<1>3. master' = Saved(s)
  BY DEF Save
<1>4. /\ \A d \in dirty[s] : master'[d] = ws[s][d]
      /\ \A d \in Docs \ dirty[s] : master'[d] = master[d]
  BY <1>1, <1>3 DEF Saved
<1>5. /\ saves'[s] > 0 /\ Discard(s)
      /\ \A t \in Servers \ {s} :
           saves'[t] = saves[t] /\ stale'[t] = stale[t] \union (opened[t] \intersect dirty[s])
  BY DEF Save, TypeOK
<1> QED BY <1>1, <1>2, <1>4, <1>5

\* A save keeps every workspace within its YAML.
LEMMA AboveSave ==
  ASSUME TypeOK, NEW s \in Servers, Save(s), Above(s), NEW t \in Servers, Above(t)
  PROVE  Above(t)'
<1>1. CASE t = s
  BY <1>1, AboveEmpty, SaveLemma
<1>2. CASE t # s
  <2>1. ws'[t] = ws[t] /\ opened'[t] = opened[t] /\ dirty'[t] = dirty[t]
    BY <1>2, OtherRuns, SaveLemma
  <2>2. ASSUME NEW d \in opened'[t] \ stale'[t]
        PROVE  master'[d] = master[d] /\ d \in opened[t] \ stale[t]
    BY <1>2, <2>1, SaveLemma DEF TypeOK
  <2> QED BY <2>1, <2>2 DEF Above
<1> QED BY <1>1, <1>2

\* Only the calls that reached the repository with a save are ever seen in it.
THEOREM AllOrNothing == Spec => []OnlySavedRuns
<1>1. Init => AtomicInv
  BY TypeInit DEF Init, AtomicInv, Above, OnlySavedRuns
<1>2. AtomicInv /\ [Next]_vars => AtomicInv'
  <2> SUFFICES ASSUME AtomicInv, [Next]_vars, TypeOK' PROVE AtomicInv'
    BY TypeStep DEF AtomicInv
  <2> USE DEF AtomicInv
  <2>1. ASSUME NEW s \in Servers, LaunchScript(s) PROVE AtomicInv'
    BY <2>1 DEF LaunchScript, Above, OnlySavedRuns
  <2>2. ASSUME NEW s \in Servers, PushJar(s) PROVE AtomicInv'
    BY <2>2 DEF PushJar, Above, OnlySavedRuns
  <2>3. ASSUME NEW s \in Servers, Stop(s) PROVE AtomicInv'
    <3>1. \A t \in Servers : Above(t)'
      BY <2>3, AboveStop
    <3>2. OnlySavedRuns'
      BY <2>3 DEF Stop, OnlySavedRuns
    <3> QED BY <3>1, <3>2
  <2>4. ASSUME NEW s \in Servers, CallStep(s) PROVE AtomicInv'
    <3>1. \A t \in Servers : Above(t)'
      BY <2>4, AboveCall
    <3>2. OnlySavedRuns'
      BY <2>4 DEF CallStep, Frame, OnlySavedRuns
    <3> QED BY <3>1, <3>2
  <2>5. ASSUME NEW s \in Servers, Save(s) PROVE AtomicInv'
    <3>1. \A t \in Servers : Above(t)'
      BY <2>5, AboveSave
    <3>2. ASSUME NEW d \in Docs, NEW k \in KeysOf(master'[d])
          PROVE  \/ k \in KeysOf(Installed[d])
                 \/ \E t \in Servers : saves'[t] > 0 /\ (k \in Declared(t, d) \/ k[1] = "Library")
      <4>1. k \in KeysOf(master[d]) \/ k \in Declared(s, d) \/ k \in LibraryOf(s, d)
        BY <2>5, SaveLemma DEF Above
      <4>2. k \in LibraryOf(s, d) => k[1] = "Library"
        BY DEF LibraryOf, LibraryObject, Key
      <4>3. \A t \in Servers : saves[t] > 0 => saves'[t] > 0
        BY <2>5, SaveLemma
      <4>4. CASE k \in KeysOf(master[d])
        BY <4>3, <4>4 DEF OnlySavedRuns
      <4>5. CASE k \notin KeysOf(master[d])
        BY <2>5, <4>1, <4>2, <4>5, SaveLemma
      <4> QED BY <4>4, <4>5
    <3>3. OnlySavedRuns'
      BY <3>2 DEF OnlySavedRuns
    <3> QED BY <3>1, <3>3
  <2>6. CASE UNCHANGED vars
    BY <2>6 DEF vars, Above, OnlySavedRuns
  <2> QED BY <2>1, <2>2, <2>3, <2>4, <2>5, <2>6, StepCases
<1>3. AtomicInv => OnlySavedRuns
  BY DEF AtomicInv
<1> QED BY <1>1, <1>2, <1>3, PTL DEF Spec

-----------------------------------------------------------------------------
(***************************************************************************)
(* Completeness, when no name is part of another. To know that a save makes *)
(* the whole declaration visible, follow the calls already made (Done) in   *)
(* the workspace; that the documents the run only read are still as full as *)
(* it saw them (Clean); and that saving a changed document takes no object  *)
(* of another run away (Below).                                             *)
(***************************************************************************)
Below(s) ==
  \A d \in opened[s] \ stale[s] : KeysOf(master[d]) \subseteq KeysOf(ws[s][d])

Clean(s) ==
  \A d \in opened[s] \ dirty[s] : KeysOf(ws[s][d]) \subseteq KeysOf(master[d])

Done(s) ==
  \A j \in 1..Len(Calls[s]) : j < pos[s] =>
    \A k \in Promised(Calls[s][j]) :
      /\ DocOf(s, Calls[s][j].fn) \in opened[s]
      /\ k \in KeysOf(ws[s][DocOf(s, Calls[s][j].fn)])

ProvidersNamed ==
  \A d \in Docs : \A k \in KeysOf(master[d]) : IsProvider(k) => k = Key(ProviderObject)

CompleteInv ==
  /\ TypeOK
  /\ \A s \in Servers : Above(s) /\ Below(s) /\ Clean(s) /\ Done(s)
  /\ ProvidersNamed
  /\ OneProviderName
  /\ SavedRunIsComplete

\* No call but get_or_create_env_provider declares a provider.
LEMMA DeclaredProviders ==
  ASSUME NEW s \in Servers, NEW d,
         NEW k \in Declared(s, d) \union LibraryOf(s, d), IsProvider(k)
  PROVE  k = Key(ProviderObject)
<1>1. CASE k \in LibraryOf(s, d)
  BY <1>1 DEF LibraryOf, LibraryObject, Key, IsProvider
<1>2. CASE k \in Declared(s, d)
  <2>1. PICK i \in 1..Len(Calls[s]) : k \in Promised(Calls[s][i])
    BY <1>2 DEF Declared
  <2> DEFINE c == Calls[s][i]
  <2>2. c \in Call
    BY CallsAssumption
  <2> HIDE DEF c
  <2>3. k \in Promised(c)
    BY <2>1 DEF c
  <2>4. c.fn \in Functions
    BY <2>2 DEF Call
  <2>5. CASE c.fn \in PlainFunctions
    <3>1. k = Key(NewObject(c)) /\ k[1] = TypeOf[c.fn]
      BY <2>2, <2>3, <2>5, PromisedLemma DEF Key, NewObject
    <3>2. TypeOf[c.fn] # "ResourceEnvironmentProvider"
      BY <2>4, <2>5, TypeOfLemma DEF PlainFunctions
    <3> QED BY <3>1, <3>2 DEF IsProvider
  <2>6. CASE c.fn \in {"configjaas", "set_auth"}
    <3>1. k = Key(JaasObject(c))
      BY <2>2, <2>3, <2>6, PromisedLemma
    <3> QED BY <3>1 DEF IsProvider, Key, JaasObject
  <2>7. CASE c.fn \in SettingFunctions
    BY <2>2, <2>3, <2>7, PromisedLemma
  <2>8. CASE c.fn = "get_or_create_env_provider"
    BY <2>2, <2>3, <2>8, PromisedLemma
  <2> QED BY <2>4, <2>5, <2>6, <2>7, <2>8 DEF PlainFunctions
<1> QED BY <1>1, <1>2

\* The first state satisfies the inductive invariant.
LEMMA CompleteInit == Init => CompleteInv
<1> SUFFICES ASSUME Init PROVE CompleteInv
  OBVIOUS
<1>1. TypeOK
  BY TypeInit
<1>2. \A s \in Servers : Above(s) /\ Below(s) /\ Clean(s) /\ Done(s)
  BY DEF Init, Above, Below, Clean, Done
<1>3. ASSUME NEW d \in Docs, NEW k \in KeysOf(Installed[d]), IsProvider(k)
      PROVE  k = Key(ProviderObject)
  <2>1. PICK i \in DOMAIN Installed[d] : k = Key(Installed[d][i])
    BY DEF KeysOf
  <2> QED BY <1>3, <2>1, InstalledAssumption DEF Key, IsProvider, ProviderObject
<1>4. ProvidersNamed /\ OneProviderName
  BY <1>3 DEF Init, ProvidersNamed, OneProviderName, View
<1>5. SavedRunIsComplete
  BY DEF Init, SavedRunIsComplete
<1> QED BY <1>1, <1>2, <1>4, <1>5 DEF CompleteInv

\* A call of run s, seen from run t.
LEMMA CompleteCall ==
  ASSUME NoCollision, CompleteInv, TypeOK', NEW s \in Servers, CallStep(s)
  PROVE  CompleteInv'
<1> USE DEF CompleteInv
<1>1. Frame(s) /\ Adds(s) /\ Keeps(s) /\ Delivers(s)
  BY DEF CallStep
<1>2. \A t \in Servers : Above(t)'
  BY AboveCall
<1>3. ASSUME NEW t \in Servers \ {s} PROVE Below(t)' /\ Clean(t)' /\ Done(t)'
  <2>1. /\ ws'[t] = ws[t] /\ opened'[t] = opened[t] /\ dirty'[t] = dirty[t]
        /\ stale' = stale /\ master' = master /\ pos'[t] = pos[t]
    BY <1>1 DEF Frame, TypeOK
  <2> QED BY <2>1 DEF Below, Clean, Done
<1>4. Below(s)'
  <2>1. \A d \in opened'[s] \ stale[s] : KeysOf(master[d]) \subseteq KeysOf(View(s, d))
    BY DEF View, Below
  <2> QED BY <1>1, <2>1 DEF Below, Keeps, Frame
<1>5. Clean(s)'
  <2>1. \A d \in opened'[s] \ dirty'[s] : KeysOf(View(s, d)) \subseteq KeysOf(master[d])
    BY <1>1 DEF View, Clean, Frame
  <2> QED BY <1>1, <2>1 DEF Clean, Frame
<1>6. Done(s)'
  <2> SUFFICES ASSUME NEW j \in 1..Len(Calls[s]), j < pos'[s],
                      NEW k \in Promised(Calls[s][j])
               PROVE  /\ DocOf(s, Calls[s][j].fn) \in opened'[s]
                      /\ k \in KeysOf(ws'[s][DocOf(s, Calls[s][j].fn)])
    BY DEF Done
  <2>1. pos'[s] = pos[s] + 1 /\ pos[s] \in Nat
    BY <1>1 DEF Frame, TypeOK
  <2>2. CASE j = pos[s]
    BY <1>1, <2>2 DEF Delivers, Current
  <2>3. CASE j < pos[s]
    <3> DEFINE d == DocOf(s, Calls[s][j].fn)
    <3>1. d \in opened[s] /\ k \in KeysOf(ws[s][d])
      BY <2>3 DEF Done
    <3>2. d \in opened'[s] /\ KeysOf(ws[s][d]) \subseteq KeysOf(ws'[s][d])
      BY <1>1, <3>1 DEF Frame, Keeps, View
    <3> QED BY <3>1, <3>2
  <2> QED BY <2>1, <2>2, <2>3
<1>7. ProvidersNamed' /\ SavedRunIsComplete'
  BY <1>1 DEF Frame, ProvidersNamed, SavedRunIsComplete
<1>8. OneProviderName'
  <2> SUFFICES ASSUME NEW t \in Servers, NEW d \in Docs, NEW k \in KeysOf(View(t, d)'),
                      IsProvider(k)
               PROVE  k = Key(ProviderObject)
    BY DEF OneProviderName
  <2>1. CASE t # s
    BY <1>1, <2>1 DEF Frame, View, OneProviderName
  <2>2. CASE t = s /\ d \notin opened'[s]
    BY <1>1, <2>2 DEF Frame, View, ProvidersNamed
  <2>3. CASE t = s /\ d \in opened'[s]
    <3>1. k \in KeysOf(View(s, d)) \union Declared(s, d) \union LibraryOf(s, d)
      BY <1>1, <2>3 DEF Adds, View
    <3> QED BY <3>1, DeclaredProviders DEF OneProviderName
  <2> QED BY <2>1, <2>2, <2>3
<1> QED BY <1>2, <1>3, <1>4, <1>5, <1>6, <1>7, <1>8

\* A script that ends without a save.
LEMMA CompleteStop ==
  ASSUME NoCollision, CompleteInv, TypeOK', NEW s \in Servers, Stop(s)
  PROVE  CompleteInv'
<1> USE DEF CompleteInv
<1>1. \A t \in Servers : Above(t)'
  BY AboveStop
<1>2. /\ master' = master /\ saves' = saves /\ Discard(s)
      /\ \A t \in Servers \ {s} : stale'[t] = stale[t]
  BY DEF Stop, TypeOK
<1>3. opened'[s] = {} /\ pos'[s] = 1
  BY <1>2 DEF Discard, Fresh, TypeOK
<1>4. Below(s)' /\ Clean(s)' /\ Done(s)'
  BY <1>3 DEF Below, Clean, Done
<1>5. ASSUME NEW t \in Servers \ {s} PROVE Below(t)' /\ Clean(t)' /\ Done(t)'
  <2>1. /\ ws'[t] = ws[t] /\ opened'[t] = opened[t] /\ dirty'[t] = dirty[t]
        /\ pos'[t] = pos[t]
    BY <1>2, OtherRuns
  <2> QED BY <1>2, <2>1 DEF Below, Clean, Done
<1>6. ProvidersNamed' /\ SavedRunIsComplete'
  BY <1>2 DEF ProvidersNamed, SavedRunIsComplete
<1>7. OneProviderName'
  <2>1. \A d \in Docs : View(s, d)' = master[d]
    BY <1>2, <1>3 DEF View
  <2>2. \A t \in Servers \ {s} : \A d \in Docs : View(t, d)' = View(t, d)
    BY <1>2, OtherRuns DEF View
  <2> QED BY <2>1, <2>2 DEF OneProviderName, ProvidersNamed
<1> QED BY <1>1, <1>4, <1>5, <1>6, <1>7

\* What a save adds to each document of the repository: all that the YAML
\* declares, and nothing else but the library.
LEMMA SaveAdds ==
  ASSUME CompleteInv, NEW s \in Servers, Save(s), NEW d \in Docs
  PROVE  /\ KeysOf(master[d]) \subseteq KeysOf(master'[d])
         /\ Declared(s, d) \subseteq KeysOf(master'[d])
         /\ KeysOf(master'[d]) \subseteq
              KeysOf(master[d]) \union Declared(s, d) \union LibraryOf(s, d)
<1> USE DEF CompleteInv
<1>1. KeysOf(master[d]) \subseteq KeysOf(master'[d])
  BY SaveLemma DEF Below
<1>2. KeysOf(master'[d]) \subseteq
        KeysOf(master[d]) \union Declared(s, d) \union LibraryOf(s, d)
  BY SaveLemma DEF Above
<1>3. ASSUME NEW k \in Declared(s, d) PROVE k \in KeysOf(master'[d])
  <2>1. PICK j \in 1..Len(Calls[s]) :
          DocOf(s, Calls[s][j].fn) = d /\ k \in Promised(Calls[s][j])
    BY DEF Declared
  <2>2. j < pos[s]
    BY CallsAssumption DEF Save, AtEnd, TypeOK
  <2>3. d \in opened[s] /\ k \in KeysOf(ws[s][d])
    BY <2>1, <2>2 DEF Done
  <2>4. CASE d \in dirty[s]
    BY <2>3, <2>4, SaveLemma
  <2>5. CASE d \notin dirty[s]
    BY <2>3, <2>5, SaveLemma DEF Clean
  <2> QED BY <2>4, <2>5
<1> QED BY <1>1, <1>2, <1>3

\* A save keeps the inductive invariant.
LEMMA CompleteSave ==
  ASSUME NoCollision, CompleteInv, TypeOK', NEW s \in Servers, Save(s)
  PROVE  CompleteInv'
<1> USE DEF CompleteInv
<1>1. \A t \in Servers : Above(t)'
  BY AboveSave
<1>2. Discard(s) /\ opened'[s] = {} /\ pos'[s] = 1
  <2>1. Discard(s)
    BY DEF Save
  <2>2. opened \in [Servers -> SUBSET Docs] /\ pos \in [Servers -> Nat \ {0}]
    BY DEF TypeOK
  <2> QED BY <2>1, <2>2 DEF Discard, Fresh
<1>3. Below(s)' /\ Clean(s)' /\ Done(s)'
  BY <1>2 DEF Below, Clean, Done
<1>4. ASSUME NEW t \in Servers \ {s} PROVE Below(t)' /\ Clean(t)' /\ Done(t)'
  <2>1. /\ ws'[t] = ws[t] /\ opened'[t] = opened[t] /\ dirty'[t] = dirty[t]
        /\ pos'[t] = pos[t] /\ opened[t] \subseteq Docs
    BY <1>2, OtherRuns DEF TypeOK
  <2>2. Done(t)'
    BY <2>1 DEF Done
  <2>3. Clean(t)'
    BY <2>1, SaveAdds DEF Clean
  <2>4. ASSUME NEW d \in opened'[t] \ stale'[t]
        PROVE  master'[d] = master[d] /\ d \in opened[t] \ stale[t]
    BY <2>1, SaveLemma
  <2> QED BY <2>1, <2>2, <2>3, <2>4 DEF Below
<1>5. ASSUME NEW d \in Docs, NEW k \in KeysOf(master'[d]), IsProvider(k)
      PROVE  k = Key(ProviderObject)
  BY <1>5, SaveAdds, DeclaredProviders DEF ProvidersNamed
<1>6. ProvidersNamed'
  BY <1>5 DEF ProvidersNamed
<1>7. OneProviderName'
  <2>1. \A d \in Docs : View(s, d)' = master'[d]
    BY <1>2 DEF View
  <2>2. ASSUME NEW t \in Servers \ {s}, NEW d \in Docs
        PROVE  View(t, d)' = master'[d] \/ View(t, d)' = View(t, d)
    BY <1>2, OtherRuns DEF View
  <2> QED BY <1>6, <2>1, <2>2 DEF OneProviderName, ProvidersNamed
<1>8. SavedRunIsComplete'
  <2>1. ASSUME NEW t \in Servers, saves'[t] > 0, NEW d \in Docs
        PROVE  Declared(t, d) \subseteq KeysOf(master'[d])
    <3>1. CASE t = s
      BY <3>1, SaveAdds
    <3>2. CASE t # s
      BY <2>1, <3>2, SaveLemma, SaveAdds DEF SavedRunIsComplete
    <3> QED BY <3>1, <3>2
  <2> QED BY <2>1 DEF SavedRunIsComplete
<1> QED BY <1>1, <1>3, <1>4, <1>6, <1>7, <1>8

\* Every step keeps the inductive invariant.
LEMMA CompleteStep ==
  ASSUME NoCollision, CompleteInv, [Next]_vars
  PROVE  CompleteInv'
<1>1. TypeOK /\ TypeOK'
  BY TypeStep DEF CompleteInv
<1>2. ASSUME NEW s \in Servers, LaunchScript(s) \/ PushJar(s) PROVE CompleteInv'
  <2>1. UNCHANGED <<master, ws, opened, dirty, stale, pos, saves>>
    BY <1>2 DEF LaunchScript, PushJar
  <2> QED BY <1>1, <2>1 DEF CompleteInv, Above, Below, Clean, Done, ProvidersNamed,
                OneProviderName, View, SavedRunIsComplete
<1>3. CASE UNCHANGED vars
  BY <1>1, <1>3 DEF vars, CompleteInv, Above, Below, Clean, Done, ProvidersNamed,
       OneProviderName, View, SavedRunIsComplete
<1> QED BY <1>1, <1>2, <1>3, StepCases, CompleteCall, CompleteStop, CompleteSave

\* Nothing that a completed play declares is ever missing from the cell, if
\* no name is part of another: neither its own lookups nor the saves of other
\* plays can lose it.
THEOREM SavedRunsComplete ==
  ASSUME NoCollision
  PROVE  Spec => []SavedRunIsComplete
<1>1. CompleteInv => SavedRunIsComplete
  BY DEF CompleteInv
<1> QED BY <1>1, CompleteInit, CompleteStep, PTL DEF Spec

-----------------------------------------------------------------------------
(***************************************************************************)
(* The refinement.                                                          *)
(***************************************************************************)

\* A save is one step of DeclaredCell.
LEMMA SaveApplies ==
  ASSUME CompleteInv, NEW s \in Servers, Save(s)
  PROVE  Cell!Apply(s)
<1> DEFINE after == [d \in Docs |-> KeysOf(master'[d])]
<1>1. \A d \in Docs : /\ KeysOf(master[d]) \union Declared(s, d) \subseteq after[d]
                      /\ after[d] \subseteq
                           KeysOf(master[d]) \union Declared(s, d) \union LibraryOf(s, d)
  BY SaveAdds
<1> QED BY <1>1 DEF Cell!Apply

\* The plays implement DeclaredCell: whatever plays run at the same time and
\* however many fail, a play adds to the cell all it declares, in one step, or
\* nothing, if no name is part of another.
THEOREM PlaysImplementDeclaredCell ==
  ASSUME NoCollision
  PROVE  Spec => ImplementsDeclaredCell
<1>1. Init => Cell!Init
  BY DEF Init, Cell!Init
<1>2. ASSUME CompleteInv, [Next]_vars
      PROVE  [Cell!Next]_([d \in Docs |-> KeysOf(master[d])])
  <2>1. ASSUME NEW s \in Servers, Save(s) PROVE Cell!Next
    BY <1>2, <2>1, SaveApplies DEF Cell!Next
  <2>2. ASSUME NEW s \in Servers, LaunchScript(s) \/ PushJar(s) \/ Stop(s)
        PROVE  master' = master
    BY <2>2 DEF LaunchScript, PushJar, Stop
  <2>3. ASSUME NEW s \in Servers, CallStep(s)
        PROVE  master' = master
    BY <2>3 DEF CallStep, Frame
  <2>4. UNCHANGED vars => master' = master
    BY DEF vars
  <2>5. TypeOK
    BY <1>2 DEF CompleteInv
  <2>6. Cell!Next \/ master' = master
    BY <1>2, <2>1, <2>2, <2>3, <2>4, <2>5, StepCases
  <2> QED BY <2>6
<1> QED BY <1>1, <1>2, CompleteInit, CompleteStep, PTL DEF Spec, ImplementsDeclaredCell, Cell!Spec

=============================================================================
