---------------------------- MODULE MCWasRefused ----------------------------
(***************************************************************************)
(* A play that succeeds, PLAIN, beside five whose scripts raise: on a name  *)
(* that is part of another, on a jndiName or queue name already taken, on   *)
(* a connection factory without authentication, on a server that lacks its  *)
(* process settings, or on a data source of an unknown type. What the other *)
(* scripts had done by then must not reach the repository.                  *)
(***************************************************************************)
EXTENDS WasScript, TLC

MCServers == {"PLAIN", "ALIAS", "TAKEN", "ENTRY", "BROKEN", "TYPO"}
MCServerList == <<"PLAIN", "ALIAS", "TAKEN", "ENTRY", "BROKEN", "TYPO">>
MCScope == [s \in MCServers |-> IF s \in {"PLAIN", "TAKEN"} THEN "CLUSTER" ELSE s]
MCNames == {"ResourcesProviderForJNDI", "fwk2",
            "vh", "old_vh", "h1", "cf", "jms/cf", "q1", "jms/q1", "jms/q2",
            "ds1", "ds2", "jndi1", "jndi2", "toolbox", "alias1", "long", "pool_long", "settings"}
MCValues == {"v1", "v2", "vh", "old_vh", "default_host"}
Same == {<<n, n>> : n \in MCNames \union MCServers}
MCFoundIn == Same \union {<<"vh", "old_vh">>, <<"long", "pool_long">>}
MCPrefixOf == Same

Setting(type, value) ==
  [type |-> type, name |-> "settings", qual |-> None, value |-> value, auth |-> None]
NewCell ==
  [d \in Docs |->
     IF d = ServerDoc("BROKEN") \/ d[1] # "server" THEN <<>>
     ELSE <<Setting("ProcessExecution", "v1"), Setting("WebContainer", "default_host"),
            Setting("Cookie", "v1")>>]
MCInstalled == NewCell

Item(n, j, v) == [name |-> n, jndiName |-> j, value |-> v, lacks |-> {}]
Secured(n, j, a) == [name |-> n, jndiName |-> j, value |-> "v1", typeds |-> "toolbox",
                     password |-> "v1", auth |-> a, lacks |-> {"user"}]
Mistyped(n, j) == [Secured(n, j, None) EXCEPT !.lacks = {"user", "type"}]

Yaml(s) ==
  LET only(m, list) == IF s = m THEN list ELSE <<>> IN
  [name |-> "settings", owner |-> "v2", resourceEnvProvider |-> "fwk2",
   resourceEnvEntries |->
     only("ENTRY", << [name |-> "pool_long", jndiName |-> None, value |-> "v1",
                       lacks |-> {}, customprop |-> <<>>],
                      [name |-> "long", jndiName |-> None, value |-> "v1",
                       lacks |-> {}, customprop |-> <<>>] >>),
   systemProperties |-> <<>>,
   vhost |-> IF s = "ALIAS" THEN "vh" ELSE "old_vh",
   aliases |-> only("ALIAS", <<"h1">>),
   mqjms |-> <<>>,
   jmscf |-> only("ALIAS", <<Secured("cf", "jms/cf", None)>>),
   jmsq |-> only("PLAIN", <<Item("q1", "jms/q1", "v1")>>)
              \o only("TAKEN", <<Item("q1", "jms/q2", "v1")>>),
   dataSources |-> only("PLAIN", <<Secured("ds1", "jndi1", None)>>)
              \o only("TAKEN", <<Secured("ds1", "jndi1", "alias1"),
                                 Secured("ds2", "jndi1", "alias1")>>)
              \o only("TYPO", <<Secured("ds1", "jndi1", "alias1"), Mistyped("ds2", "jndi2")>>),
   httponlycookie |-> "v2", namespaceBindings |-> <<>>, webcntr_prop |-> <<>>,
   timerManager |-> <<>>, workManager |-> <<>>, scheduler |-> <<>>]

CallsOfYaml == [s \in MCServers |-> main(Yaml(s))]
MCCalls == CallsOfYaml
=============================================================================
