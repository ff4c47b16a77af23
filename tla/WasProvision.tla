---------------------------- MODULE WasProvision ----------------------------
(***************************************************************************)
(* The core of the base_was Ansible role: plays that run, each on its own   *)
(* host and possibly at the same time, the wsadmin script rendered from     *)
(* templates/was_script.py with the functions of files/was_libraries.py     *)
(* against the one configuration repository of a WebSphere cell.            *)
(*                                                                         *)
(* A run reads and writes documents in a private workspace and publishes    *)
(* everything with the one AdminConfig.save() at the end of main().         *)
(* AdminConfig and AdminTask are not in the repository: the workspace is    *)
(* modelled as the code uses it (nothing is visible before save, a script   *)
(* that stops leaves nothing behind) and marked external in the map.        *)
(*                                                                         *)
(* Calls[s] is the sequence of was_libraries calls that main() makes for    *)
(* server s; module WasScript derives it from the YAML of the server.       *)
(***************************************************************************)
EXTENDS Naturals, Sequences, FiniteSets

CONSTANTS
  Servers,     \* was_app_name of each play; one play configures one server
  ServerList,  \* AdminConfig.list('Server'), in the order of the listing
  Scope,       \* Scope[s]: the cluster of s, or s itself when not clustered
  Names,       \* names of configuration objects, aliases and vhosts
  Values,      \* attribute values
  None,
  ProviderName,  \* "ResourcesProviderForJNDI"
  FoundIn,     \* <<n, m>>: the listing line of an object named m contains n
  PrefixOf,    \* <<n, m>>: the listing line of an object named m starts with n
  Calls,       \* Calls[s]: the calls of main() for s
  Installed,   \* the documents before the first play
  MaxRuns,     \* bound: plays per server
  MaxFaults    \* bound: calls that fail for a reason outside the script

Functions ==
  { "set_process_exec_opts", "get_or_create_env_provider",
    "get_or_create_env_entries", "set_custom_prop_entry", "set_jvm_prop",
    "get_or_create_vhost", "create_alias", "link_vhost", "configjaas",
    "create_mqjms", "get_or_create_jmsCF", "set_auth",
    "get_or_create_jmsQueue", "get_or_create_jdbc_prov",
    "get_or_create_datasources", "set_or_unset_httponlycookie",
    "get_or_create_nameSpaceBinding", "get_or_create_webcntr",
    "get_or_create_timeManager", "get_or_create_workManager",
    "get_or_create_scheduler" }

\* The functions that look an object up with find() and then startswith().
ListedFunctions ==
  { "get_or_create_nameSpaceBinding", "get_or_create_webcntr",
    "get_or_create_timeManager", "get_or_create_workManager",
    "get_or_create_scheduler", "get_or_create_env_entries" }

\* The configuration type each function lists, creates or modifies.
TypeOf ==
  [ f \in Functions |->
      CASE f = "set_process_exec_opts" -> "ProcessExecution"
        [] f = "get_or_create_env_provider" -> "ResourceEnvironmentProvider"
        [] f = "get_or_create_env_entries" -> "ResourceEnvEntry"
        [] f = "set_custom_prop_entry" -> "J2EEResourcePropertySet"
        [] f = "set_jvm_prop" -> "Property"
        [] f = "get_or_create_vhost" -> "VirtualHost"
        [] f = "create_alias" -> "HostAlias"
        [] f = "link_vhost" -> "WebContainer"
        [] f \in {"configjaas", "set_auth"} -> "JAASAuthData"
        [] f = "create_mqjms" -> "MQQueueConnectionFactory"
        [] f = "get_or_create_jmsCF" -> "MQConnectionFactory"
        [] f = "get_or_create_jmsQueue" -> "MQQueue"
        [] f = "get_or_create_jdbc_prov" -> "JDBCProvider"
        [] f = "get_or_create_datasources" -> "DataSource"
        [] f = "set_or_unset_httponlycookie" -> "Cookie"
        [] f = "get_or_create_nameSpaceBinding" -> "StringNameSpaceBinding"
        [] f = "get_or_create_webcntr" -> "WebContainerProperty"
        [] f = "get_or_create_timeManager" -> "TimerManagerInfo"
        [] f = "get_or_create_workManager" -> "WorkManagerInfo"
        [] f = "get_or_create_scheduler" -> "SchedulerConfiguration" ]

Types == {TypeOf[f] : f \in Functions} \union {"Library"}

\* A call and the object it is about: qual is the jndiName of a resource or
\* the vhost of an alias, auth the JAAS alias when alias and password are given.
\* ok is FALSE when the YAML makes the call raise before it has looked at the
\* cell: an argument it needs, or main() needs to make it, is missing or malformed.
Call == [fn: Functions, name: Names, qual: Names \union {None},
         value: Values \union {None}, auth: Names \union {None}, ok: BOOLEAN]
Object == [type: Types, name: Names, qual: Names \union {None},
           value: Values \union {None}, auth: Names \union {None}]

(***************************************************************************)
(* Documents: one per server, one per cluster (or server) for resources,    *)
(* and two of the cell.                                                     *)
(***************************************************************************)
ServerDoc(s) == <<"server", s>>
ScopeDoc(s) == <<"scope", Scope[s]>>
VHosts == <<"cell", "virtualhosts">>
Security == <<"cell", "security">>
Docs == {ServerDoc(s) : s \in Servers} \union {ScopeDoc(s) : s \in Servers}
          \union {VHosts, Security}

First(I) == CHOOSE i \in I : \A j \in I : i <= j

\* was_script.py: [ s for s in SERVERS if s.startswith(name) ][0]
Selected(s) ==
  ServerList[First({i \in DOMAIN ServerList : <<s, ServerList[i]>> \in PrefixOf})]

DocOf(s, f) ==
  CASE f \in {"get_or_create_vhost", "create_alias"} -> VHosts
    [] f \in {"configjaas", "set_auth"} -> Security
    [] f = "set_jvm_prop" -> ServerDoc(Selected(s))
    [] f \in {"set_process_exec_opts", "get_or_create_env_provider",
              "get_or_create_env_entries", "set_custom_prop_entry",
              "link_vhost", "set_or_unset_httponlycookie",
              "get_or_create_webcntr"} -> ServerDoc(s)
    [] OTHER -> ScopeDoc(s)

Key(o) == <<o.type, o.name, IF o.type = "HostAlias" THEN o.qual ELSE None>>
KeysOf(q) == {Key(q[i]) : i \in DOMAIN q}

\* set_jvm_prop writes the Booleans of a YAML the way Java does.
JvmValue(v) == CASE v = "True" -> "true" [] v = "False" -> "false" [] OTHER -> v

\* The value that call c gives its object.
Written(c) == IF c.fn = "set_jvm_prop" THEN JvmValue(c.value) ELSE c.value

NewObject(c) == [type |-> TypeOf[c.fn], name |-> c.name, qual |-> c.qual,
                 value |-> Written(c), auth |-> c.auth]

\* get_or_create_env_provider has one name for its provider; the name of the
\* call is that of the shared library.
ProviderObject == [type |-> "ResourceEnvironmentProvider", name |-> ProviderName,
                   qual |-> None, value |-> None, auth |-> None]
LibraryObject(c) == [type |-> "Library", name |-> c.name, qual |-> None,
                     value |-> None, auth |-> None]

\* Objects of document q of a type; those named n; those find(n) or
\* startswith(n) would pick from the listing.
OfType(q, t) == {i \in DOMAIN q : q[i].type = t}
Named(q, t, n) == {i \in OfType(q, t) : q[i].name = n}
Found(q, t, n) == {i \in OfType(q, t) : <<n, q[i].name>> \in FoundIn}
AnyOfType(q, t, n) == OfType(q, t)  \* mutant of Starting: no name test
Starting(q, t, n) == {i \in OfType(q, t) : <<n, q[i].name>> \in PrefixOf}

\* Document q with the given objects' value, or auth, set.
WithValue(q, I, v) ==
  [i \in DOMAIN q |-> IF i \in I THEN [q[i] EXCEPT !.value = v] ELSE q[i]]
WithAuth(q, I, a) ==
  [i \in DOMAIN q |-> IF i \in I THEN [q[i] EXCEPT !.auth = a] ELSE q[i]]

-----------------------------------------------------------------------------

VARIABLES
  master,  \* the saved repository: document -> sequence of objects
  ws,      \* ws[s]: the workspace of the run of s
  opened,  \* opened[s]: documents the run has extracted to its workspace
  dirty,   \* dirty[s]: documents the run has changed
  stale,   \* stale[s]: opened documents that another run has saved since
  pos,     \* pos[s]: the next call of the run
  ret,     \* ret[s]: the object the last get_or_create returned, as an index
  status,  \* status[s]: what the play of s is doing
  jar,     \* jar[s]: config_jndi.jar is in the lib directory of s
  runs,    \* runs[s]: plays started
  saves,   \* saves[s]: plays whose script reached the end of main()
  faults   \* calls failed so far for a reason outside the script

vars == <<master, ws, opened, dirty, stale, pos, ret, status, jar, runs, saves,
          faults>>

Statuses == {"idle", "running", "saved", "failed"}

\* create_mqjms calls configjaas only when the YAML gives the alias.
ASSUME CallsAssumption ==
  /\ Calls \in [Servers -> Seq(Call)]
  /\ \A s \in Servers : \A i \in DOMAIN Calls[s] :
       Calls[s][i].fn = "configjaas" => Calls[s][i].auth # None
ASSUME ListAssumption ==
  /\ ServerList \in Seq(Servers)
  /\ \A s \in Servers : \E i \in DOMAIN ServerList : ServerList[i] = s
ASSUME NamesAssumption ==
  /\ None \notin Names
  /\ None \notin Values
  /\ ProviderName \in Names
  /\ \A n \in Names \union Servers : <<n, n>> \in PrefixOf
  /\ PrefixOf \subseteq FoundIn
ASSUME ValuesAssumption ==
  \A v \in Values \union {None} : JvmValue(v) \in Values \union {None}
\* The providers of resource environments are those of this role.
ASSUME InstalledAssumption ==
  /\ Installed \in [Docs -> Seq(Object)]
  /\ \A d \in Docs : \A i \in DOMAIN Installed[d] :
       Installed[d][i].type = "ResourceEnvironmentProvider" =>
         Installed[d][i].name = ProviderName
ASSUME BoundsAssumption == MaxRuns \in Nat /\ MaxFaults \in Nat

TypeOK ==
  /\ master \in [Docs -> Seq(Object)]
  /\ ws \in [Servers -> [Docs -> Seq(Object)]]
  /\ opened \in [Servers -> SUBSET Docs]
  /\ dirty \in [Servers -> SUBSET Docs]
  /\ stale \in [Servers -> SUBSET Docs]
  /\ pos \in [Servers -> Nat \ {0}]
  /\ ret \in [Servers -> Nat]
  /\ status \in [Servers -> Statuses]
  /\ jar \in [Servers -> BOOLEAN]
  /\ runs \in [Servers -> Nat]
  /\ saves \in [Servers -> Nat]
  /\ faults \in Nat

EmptyWorkspace == [d \in Docs |-> <<>>]

Init ==
  /\ master = Installed
  /\ ws = [s \in Servers |-> EmptyWorkspace]
  /\ opened = [s \in Servers |-> {}]
  /\ dirty = [s \in Servers |-> {}]
  /\ stale = [s \in Servers |-> {}]
  /\ pos = [s \in Servers |-> 1]
  /\ ret = [s \in Servers |-> 0]
  /\ status = [s \in Servers |-> "idle"]
  /\ jar = [s \in Servers |-> FALSE]
  /\ runs = [s \in Servers |-> 0]
  /\ saves = [s \in Servers |-> 0]
  /\ faults = 0

(***************************************************************************)
(* The workspace of a run: a document is extracted when it is first used.   *)
(***************************************************************************)
View(s, d) == IF d \in opened[s] THEN ws[s][d] ELSE master[d]

\* The run reads document d and goes on to the next call with result i.
Read(s, d, i) ==
  /\ ws' = [ws EXCEPT ![s][d] = View(s, d)]
  /\ opened' = [opened EXCEPT ![s] = @ \union {d}]
  /\ ret' = [ret EXCEPT ![s] = i]
  /\ pos' = [pos EXCEPT ![s] = @ + 1]
  /\ UNCHANGED <<master, dirty, stale, status, jar, runs, saves, faults>>

\* The run replaces document d by q in its workspace.
Write(s, d, q, i) ==
  /\ ws' = [ws EXCEPT ![s][d] = q]
  /\ opened' = [opened EXCEPT ![s] = @ \union {d}]
  /\ dirty' = [dirty EXCEPT ![s] = @ \union {d}]
  /\ ret' = [ret EXCEPT ![s] = i]
  /\ pos' = [pos EXCEPT ![s] = @ + 1]
  /\ UNCHANGED <<master, stale, status, jar, runs, saves, faults>>

\* wsadmin ends: its workspace is discarded, the next process starts anew.
Fresh(s, call) ==
  /\ ws' = [ws EXCEPT ![s] = EmptyWorkspace]
  /\ opened' = [opened EXCEPT ![s] = {}]
  /\ dirty' = [dirty EXCEPT ![s] = {}]
  /\ ret' = [ret EXCEPT ![s] = 0]
  /\ pos' = [pos EXCEPT ![s] = call]

\* Mutant of Discard: the next process starts before its first call.
DiscardToZero(s) == Fresh(s, 0)
Discard(s) == Fresh(s, 1)

\* What AdminConfig.save() makes of the repository.
Saved(s) == [d \in Docs |-> IF d \in dirty[s] THEN ws[s][d] ELSE master[d]]

\* Mutant of Stop: the script saves on its way out, as a finally would.
StopSaving(s) ==
  /\ Discard(s)
  /\ master' = Saved(s)
  /\ stale' = [stale EXCEPT ![s] = {}]
  /\ status' = [status EXCEPT ![s] = "failed"]
  /\ UNCHANGED <<jar, runs, saves>>

\* The script and with it the play ends; nothing is saved.
Stop(s) ==
  /\ Discard(s)
  /\ stale' = [stale EXCEPT ![s] = {}]
  /\ status' = [status EXCEPT ![s] = "failed"]
  /\ UNCHANGED <<master, jar, runs, saves>>

\* An exception nobody catches.
Raise(s) == Stop(s) /\ UNCHANGED faults

Current(s) == Calls[s][pos[s]]

InMain(s) == status[s] = "running" /\ pos[s] <= Len(Calls[s])

Calling(s, fs) == InMain(s) /\ Current(s).ok /\ Current(s).fn \in fs

(***************************************************************************)
(* One play: tasks/was.yml of the role.                                     *)
(***************************************************************************)

\* "Push WAS script" and "Launch WAS script": a new wsadmin process.
LaunchScript(s) ==
  /\ status[s] \in {"idle", "failed"}
  /\ runs[s] < MaxRuns
  /\ runs' = [runs EXCEPT ![s] = @ + 1]
  /\ status' = [status EXCEPT ![s] = "running"]
  /\ UNCHANGED <<master, ws, opened, dirty, stale, pos, ret, jar, saves, faults>>

\* "Push share Libraries config_jndi jar": a task after the script, reached
\* only by a play whose script did not fail. The play ends without it when it
\* was started for other tags, or when the push or a directory task fails.
PushJar(s) ==
  /\ status[s] = "saved"
  /\ \E pushed \in BOOLEAN : jar' = [jar EXCEPT ![s] = @ \/ pushed]
  /\ status' = [status EXCEPT ![s] = "idle"]
  /\ UNCHANGED <<master, ws, opened, dirty, stale, pos, ret, runs, saves, faults>>

\* A wsadmin call fails for a reason outside the script (the connection to
\* the deployment manager, say): every except clause re-raises what it does
\* not know.
Fault(s) ==
  /\ status[s] = "running"
  /\ faults < MaxFaults
  /\ faults' = faults + 1
  /\ Stop(s)

(***************************************************************************)
(* The calls of main().                                                     *)
(***************************************************************************)

\* A TypeError, KeyError, ValueError or UnboundLocalError over what the YAML
\* gives the call, or does not.
ArgumentError(s) == InMain(s) /\ ~Current(s).ok /\ Raise(s)

\* Mutant of ModifySetting: the name for the value.
ModifyToName(s) ==
  LET c == Current(s)
      q == View(s, ServerDoc(s))
      I == OfType(q, TypeOf[c.fn])
  IN /\ Calling(s, {"set_process_exec_opts", "set_or_unset_httponlycookie",
                    "link_vhost"})
     /\ \/ I # {} /\ Write(s, ServerDoc(s), WithValue(q, I, c.name), First(I))
        \/ I = {} /\ Raise(s)

\* set_process_exec_opts, set_or_unset_httponlycookie, and the modify of the
\* web container at the end of set_vhost_aliases: one attribute of an object
\* that came with the server; AdminConfig.modify('') of a missing one raises.
ModifySetting(s) ==
  LET c == Current(s)
      q == View(s, ServerDoc(s))
      I == OfType(q, TypeOf[c.fn])
  IN /\ Calling(s, {"set_process_exec_opts", "set_or_unset_httponlycookie",
                    "link_vhost"})
     /\ \/ I # {} /\ Write(s, ServerDoc(s), WithValue(q, I, c.value), First(I))
        \/ I = {} /\ Raise(s)

\* createLibrary, when its jar is already on the host: one library per server.
\* Mutant: the library only comes with a new provider.
LibraryWithProvider(s, c, q) ==
  IF /\ jar[s]
     /\ OfType(q, "Library") \union OfType(q, "ResourceEnvironmentProvider") = {}
    THEN <<LibraryObject(c)>> ELSE <<>>
MissingLibrary(s, c, q) ==
  IF jar[s] /\ OfType(q, "Library") = {}
    THEN <<LibraryObject(c)>> ELSE <<>>

\* get_or_create_env_provider: any provider will do (a server has at most the
\* one this function creates), then createLibrary.
EnvProvider(s) ==
  LET c == Current(s)
      q == View(s, ServerDoc(s))
      Providers == OfType(q, "ResourceEnvironmentProvider")
      new == (IF Providers = {} THEN <<ProviderObject>> ELSE <<>>)
               \o MissingLibrary(s, c, q)
      provider == IF Providers = {} THEN Len(q) + 1 ELSE First(Providers)
  IN /\ Calling(s, {"get_or_create_env_provider"})
     /\ \/ new = <<>> /\ Read(s, ServerDoc(s), provider)
        \/ new # <<>> /\ Write(s, ServerDoc(s), q \o new, provider)

\* The lookups by find() and startswith(): created when no line contains the
\* name; otherwise the first line that starts with it, an IndexError if none.
GetOrCreateListed(s) ==
  LET c == Current(s)
      d == DocOf(s, c.fn)
      q == View(s, d)
      t == TypeOf[c.fn]
  IN /\ Calling(s, ListedFunctions)
     /\ \/ /\ Found(q, t, c.name) = {}
           /\ Write(s, d, Append(q, NewObject(c)), Len(q) + 1)
        \/ /\ Found(q, t, c.name) # {}
           /\ Starting(q, t, c.name) # {}
           /\ Read(s, d, First(Starting(q, t, c.name)))
        \/ /\ Found(q, t, c.name) # {}
           /\ Starting(q, t, c.name) = {}
           /\ Raise(s)

\* get_or_create_jdbc_prov and get_or_create_vhost: find() for the test and
\* find() for the choice.
GetOrCreateFound(s) ==
  LET c == Current(s)
      d == DocOf(s, c.fn)
      q == View(s, d)
      I == Found(q, TypeOf[c.fn], c.name)
  IN /\ Calling(s, {"get_or_create_jdbc_prov", "get_or_create_vhost"})
     /\ \/ I = {} /\ Write(s, d, Append(q, NewObject(c)), Len(q) + 1)
        \/ I # {} /\ Read(s, d, First(I))

\* set_custom_prop_entry: always a new property set, of the entry the last
\* call returned.
CustomProp(s) ==
  LET c == Current(s)
      q == View(s, ServerDoc(s))
  IN /\ Calling(s, {"set_custom_prop_entry"})
     /\ Write(s, ServerDoc(s), Append(q, NewObject(c)), ret[s])

\* set_jvm_prop, on the JVM of the server that set_jvm_system_properties
\* selected: created if no property has exactly the name, otherwise every
\* property that starts with it is modified.
JvmProp(s) ==
  LET c == Current(s)
      d == DocOf(s, c.fn)
      q == View(s, d)
  IN /\ Calling(s, {"set_jvm_prop"})
     /\ \/ /\ Named(q, "Property", c.name) = {}
           /\ Write(s, d, Append(q, NewObject(c)), ret[s])
        \/ /\ Named(q, "Property", c.name) # {}
           /\ Write(s, d, WithValue(q, Starting(q, "Property", c.name), Written(c)), ret[s])

\* The aliases of the vhost that are the alias of the call.
\* Mutant: compared with the name of the vhost.
AliasesNamedAsVHost(q, c) ==
  {i \in Named(q, "HostAlias", c.qual) : q[i].qual = c.qual}
KnownAliases(q, c) == {i \in Named(q, "HostAlias", c.name) : q[i].qual = c.qual}

\* create_alias: exact match among the aliases of the vhost. When the vhost
\* of that name does not exist its id is '' and the create raises.
CreateAlias(s) ==
  LET c == Current(s)
      q == View(s, VHosts)
      Known == KnownAliases(q, c)
  IN /\ Calling(s, {"create_alias"})
     /\ \/ /\ Known # {}
           /\ Read(s, VHosts, ret[s])
        \/ /\ Known = {}
           /\ Named(q, "VirtualHost", c.qual) # {}
           /\ Write(s, VHosts, Append(q, NewObject(c)), ret[s])
        \/ /\ Known = {}
           /\ Named(q, "VirtualHost", c.qual) = {}
           /\ Raise(s)

\* The JAAS alias of a call, added to the security document q when it has no
\* alias of exactly that name; an existing one keeps its user and password.
JaasObject(c) == [type |-> "JAASAuthData", name |-> c.auth, qual |-> None,
                  value |-> c.value, auth |-> None]
\* Mutant of WithAlias: the alias is taken to be there.
AliasAssumed(q, c) == q
WithAlias(q, c) ==
  IF Named(q, "JAASAuthData", c.auth) = {} THEN Append(q, JaasObject(c)) ELSE q

\* jaas.configjaas, called by create_mqjms before it creates the factory.
ConfigJaas(s) ==
  LET c == Current(s)
      q == View(s, Security)
  IN /\ Calling(s, {"configjaas"})
     /\ \/ /\ Named(q, "JAASAuthData", c.auth) = {}
           /\ Write(s, Security, WithAlias(q, c), ret[s])
        \/ /\ Named(q, "JAASAuthData", c.auth) # {}
           /\ Read(s, Security, ret[s])

\* create_mqjms: "already exists" is caught and leaves the factory as it is.
CreateMqJms(s) ==
  LET c == Current(s)
      d == ScopeDoc(s)
      q == View(s, d)
  IN /\ Calling(s, {"create_mqjms"})
     /\ \/ /\ Named(q, TypeOf[c.fn], c.name) = {}
           /\ Write(s, d, Append(q, NewObject(c)), ret[s])
        \/ /\ Named(q, TypeOf[c.fn], c.name) # {}
           /\ Read(s, d, ret[s])

\* get_or_create_jmsCF, which on "already exists" takes the first factory
\* whose line starts with the name, and set_props_jmscf, which gives the
\* result every key of the YAML, the name included, but the authentication
\* keys: deleting those is a KeyError when the YAML has none.
JmsCF(s) ==
  LET c == Current(s)
      d == ScopeDoc(s)
      q == View(s, d)
      first == First(Starting(q, TypeOf[c.fn], c.name))
      new == [NewObject(c) EXCEPT !.auth = None]
  IN /\ Calling(s, {"get_or_create_jmsCF"})
     /\ \/ c.auth = None /\ Raise(s)
        \/ /\ c.auth # None
           /\ Named(q, TypeOf[c.fn], c.name) = {}
           /\ Write(s, d, Append(q, new), Len(q) + 1)
        \/ /\ c.auth # None
           /\ Named(q, TypeOf[c.fn], c.name) # {}
           /\ Write(s, d, [q EXCEPT ![first] = [new EXCEPT !.auth = q[first].auth]],
                    first)

\* create_jaas and set_auth, on the object the call before returned; nothing
\* happens when the YAML gives no alias or no password.
SetAuth(s) ==
  LET c == Current(s)
      d == ScopeDoc(s)
      old == View(s, Security)
      new == WithAlias(old, c)
  IN /\ Calling(s, {"set_auth"})
     /\ IF c.auth = None
          THEN UNCHANGED <<ws, opened, dirty>>
          ELSE /\ ws' = [ws EXCEPT
                           ![s] = [@ EXCEPT
                                     ![Security] = new,
                                     ![d] = WithAuth(View(s, d), {ret[s]}, c.auth)]]
               /\ opened' = [opened EXCEPT ![s] = @ \union {Security, d}]
               /\ dirty' = [dirty EXCEPT ![s] =
                              @ \union {d} \union
                                (IF new = old THEN {} ELSE {Security})]
     /\ pos' = [pos EXCEPT ![s] = @ + 1]
     /\ UNCHANGED <<master, stale, ret, status, jar, runs, saves, faults>>

\* get_or_create_jmsQueue: exact match on name and jndiName, then the advanced
\* properties (the value), if any; createWMQQueue raises when the name is taken.
JmsQueue(s) ==
  LET c == Current(s)
      d == ScopeDoc(s)
      q == View(s, d)
      I == Named(q, TypeOf[c.fn], c.name)
      Same == {i \in I : q[i].qual = c.qual}
  IN /\ Calling(s, {"get_or_create_jmsQueue"})
     /\ \/ I = {} /\ Write(s, d, Append(q, NewObject(c)), ret[s])
        \/ /\ Same # {}
           /\ c.value # None
           /\ Write(s, d, WithValue(q, {First(Same)}, c.value), ret[s])
        \/ Same # {} /\ c.value = None /\ Read(s, d, ret[s])
        \/ I # {} /\ Same = {} /\ Raise(s)

\* get_or_create_datasources, which creates first and looks only when the
\* jndiName is taken, and update_ds_properties on the result.
DataSource(s) ==
  LET c == Current(s)
      d == ScopeDoc(s)
      q == View(s, d)
      Taken == {i \in OfType(q, TypeOf[c.fn]) : q[i].qual = c.qual}
      Same == {i \in Taken : q[i].name = c.name}
      new == [NewObject(c) EXCEPT !.auth = None]
  IN /\ Calling(s, {"get_or_create_datasources"})
     /\ \/ Taken = {} /\ Write(s, d, Append(q, new), Len(q) + 1)
        \/ Same # {} /\ Write(s, d, WithValue(q, {First(Same)}, c.value), First(Same))
        \/ Taken # {} /\ Same = {} /\ Raise(s)

(***************************************************************************)
(* AdminConfig.save(), the last statement of main(): all changed documents  *)
(* at once, or an exception when one of them was saved by another run after *)
(* this run had extracted it.                                               *)
(***************************************************************************)
\* Mutant of AtEnd: a run waits for the others that change its documents.
AtEndAlone(s) ==
  /\ status[s] = "running"
  /\ pos[s] > Len(Calls[s])
  /\ \A t \in Servers \ {s} : dirty[t] \intersect dirty[s] = {}
AtEnd(s) == status[s] = "running" /\ pos[s] > Len(Calls[s])

Conflict(s) == dirty[s] \intersect stale[s] # {}

Save(s) ==
  /\ AtEnd(s)
  /\ ~Conflict(s)
  /\ master' = Saved(s)
  /\ stale' = [t \in Servers |->
                 IF t = s THEN {} ELSE stale[t] \union (opened[t] \intersect dirty[s])]
  /\ Discard(s)
  /\ status' = [status EXCEPT ![s] = "saved"]
  /\ saves' = [saves EXCEPT ![s] = @ + 1]
  /\ UNCHANGED <<jar, runs, faults>>

SaveConflict(s) == AtEnd(s) /\ Conflict(s) /\ Raise(s)

Script(s) ==
  \/ ArgumentError(s) \/ ModifySetting(s) \/ EnvProvider(s) \/ GetOrCreateListed(s)
  \/ GetOrCreateFound(s) \/ CustomProp(s) \/ JvmProp(s) \/ CreateAlias(s)
  \/ ConfigJaas(s) \/ CreateMqJms(s) \/ JmsCF(s) \/ SetAuth(s) \/ JmsQueue(s)
  \/ DataSource(s) \/ Save(s) \/ SaveConflict(s)

Next == \E s \in Servers : LaunchScript(s) \/ Script(s) \/ PushJar(s) \/ Fault(s)

Spec == Init /\ [][Next]_vars

\* A started wsadmin process and a started play go on; nothing makes an
\* operator launch a play.
FairSpec == Spec /\ \A s \in Servers : WF_vars(Script(s)) /\ WF_vars(PushJar(s))

-----------------------------------------------------------------------------
(***************************************************************************)
(* Properties.                                                              *)
(***************************************************************************)

SettingFunctions ==
  {"set_process_exec_opts", "set_or_unset_httponlycookie", "link_vhost"}

\* The object that call c promises: none for a setting of an existing object
\* or for set_auth without an alias.
Promised(c) ==
  CASE c.fn \in SettingFunctions -> {}
    [] c.fn \in {"configjaas", "set_auth"} ->
         IF c.auth = None THEN {} ELSE {Key(JaasObject(c))}
    [] c.fn = "get_or_create_env_provider" -> {Key(ProviderObject)}
    [] OTHER -> {Key(NewObject(c))}

\* What the YAML of s declares, in document d.
Declared(s, d) ==
  UNION {Promised(Calls[s][i]) : i \in {j \in 1..Len(Calls[s]) :
                                          DocOf(s, Calls[s][j].fn) = d}}

\* No name is part of the listing line of another object, and no server
\* name is the beginning of another's.
NoCollision == \A pair \in FoundIn : pair[1] = pair[2]

\* What every play that reached the end of main() has declared is in the
\* repository, whatever other plays saved at the same time: get_or_create
\* returns or creates the named object, and save() loses no other run's work.
SavedRunIsComplete ==
  \A s \in Servers : saves[s] > 0 =>
    \A d \in Docs : Declared(s, d) \subseteq KeysOf(master[d])

\* All or nothing: every object of the repository was there before the first
\* play, or is declared by a play that reached its save(), or is the library
\* of such a play. A script that raises half way leaves nothing behind.
OnlySavedRuns ==
  \A d \in Docs : \A k \in KeysOf(master[d]) :
    \/ k \in KeysOf(Installed[d])
    \/ \E s \in Servers : saves[s] > 0 /\ (k \in Declared(s, d) \/ k[1] = "Library")

\* No play creates an object a second time, not even when two plays of the
\* same cluster create it at the same time or a play is repeated; property
\* sets, which set_custom_prop_entry creates without looking, excepted.
NoDuplicate ==
  \A d \in Docs : \A i, j \in DOMAIN master[d] :
    (i # j /\ Key(master[d][i]) = Key(master[d][j])) =>
      master[d][i].type = "J2EEResourcePropertySet"

\* The JAAS alias that a data source or a connection factory refers to is in
\* the security document: the two documents are saved together.
AuthAliasDefined ==
  \A s \in Servers : \A i \in DOMAIN master[ScopeDoc(s)] :
    LET o == master[ScopeDoc(s)][i]
    IN o.auth = None \/ Named(master[Security], "JAASAuthData", o.auth) # {}

\* The web container of a server whose play reached its end is linked to a
\* virtual host that exists.
LinkedVhostExists ==
  \A s \in Servers : saves[s] > 0 =>
    \A i \in OfType(master[ServerDoc(s)], "WebContainer") :
      Named(master[VHosts], "VirtualHost", master[ServerDoc(s)][i].value) # {}

\* What refers to another document by a name finds it there, although the two
\* documents are written by different calls, and by several plays.
ReferencesResolve == AuthAliasDefined /\ LinkedVhostExists

\* After a completed play the JVM properties are on the JVM of s, not on that of
\* another server, and have the values of its YAML: set_jvm_prop changes the
\* property it is given and no other.
JvmValuesAsDeclared ==
  \A s \in Servers : saves[s] > 0 =>
    \A n \in {k \in 1..Len(Calls[s]) : Calls[s][k].fn = "set_jvm_prop"} :
      \E i \in Named(master[ServerDoc(s)], "Property", Calls[s][n].name) :
        master[ServerDoc(s)][i].value = JvmValue(Calls[s][n].value)

\* A script that finds the jar of an earlier play in place leaves the server
\* with its shared library, although the play that pushed the jar could not make
\* one: whatever that play, or a later one without the jar, has already created.
LibraryOnRepeatedPlay ==
  [][\A s \in Servers : jar[s] /\ saves'[s] > saves[s] =>
       OfType(master'[ServerDoc(s)], "Library") # {}]_vars

\* A play only loses its work to one that succeeds: while nothing it has read
\* was saved by another, a running play saves, or another play does.
SavedRuns == {r \in Servers \X (1..MaxRuns) : r[2] <= saves[r[1]]}
ConflictMeansProgress ==
  \A s \in Servers : \A n \in 0..(MaxRuns * Cardinality(Servers) - 1) :
    (status[s] = "running" /\ stale[s] = {} /\ Cardinality(SavedRuns) = n)
      ~> Cardinality(SavedRuns) > n

(***************************************************************************)
(* The plays implement DeclaredCell: the saves alone change the repository, *)
(* each of them by the declared objects of its play and nothing else.       *)
(***************************************************************************)
LibraryOf(s, d) ==
  {Key(LibraryObject(Calls[s][i])) :
     i \in {j \in 1..Len(Calls[s]) : /\ Calls[s][j].fn = "get_or_create_env_provider"
                                     /\ DocOf(s, Calls[s][j].fn) = d}}

Cell == INSTANCE DeclaredCell WITH
  cell <- [d \in Docs |-> KeysOf(master[d])],
  Before <- [d \in Docs |-> KeysOf(Installed[d])],
  Declares <- [s \in Servers |-> [d \in Docs |-> Declared(s, d)]],
  Optional <- [s \in Servers |-> [d \in Docs |-> LibraryOf(s, d)]]

\* Every behaviour of the plays is one of DeclaredCell.
ImplementsDeclaredCell == Cell!Spec
=============================================================================
