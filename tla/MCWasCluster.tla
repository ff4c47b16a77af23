--------------------------- MODULE MCWasCluster ---------------------------
(***************************************************************************)
(* Two members of one cluster, deployed at the same time from two YAML      *)
(* files that share the vhost and the resources of the cluster, as the      *)
(* MBR1 and MBR2 files of app_yml_config do, two plays for each. No name is *)
(* part of another, so that no script raises of itself and save conflicts   *)
(* are the only failures.                                                   *)
(***************************************************************************)
EXTENDS WasScript, TLC

MCServers == {"MBR1", "MBR2"}
MCServerList == <<"MBR1", "MBR2">>
MCScope == [s \in MCServers |-> "CLUSTER"]
MCNames == {"ResourcesProviderForJNDI", "fwk2",
            "entry", "path", "prop1", "prop2", "vh", "default_host",
            "h1", "h2", "qcf", "jms/qcf", "cf", "jms/cf", "q1", "jms/q1", "q2", "jms/q2",
            "mq/user", "ds", "jndi1", "toolbox", "alias1", "nsb", "filter", "tm",
            "wm1", "wm2", "sched", "settings"}
MCValues == {"v1", "v2", "True", "true", "vh", "default_host"}
SameNames == {<<n, n>> : n \in MCNames \union MCServers}
MCSame == SameNames

Setting(type, value) ==
  [type |-> type, name |-> "settings", qual |-> None, value |-> value, auth |-> None]

\* A new server has its settings and is linked to default_host.
NewServer == <<Setting("ProcessExecution", "v1"), Setting("WebContainer", "default_host"),
               Setting("Cookie", "v1")>>
DefaultVHost == [type |-> "VirtualHost", name |-> "default_host", qual |-> None,
                 value |-> None, auth |-> None]
NewCell ==
  [d \in Docs |-> CASE d[1] = "server" -> NewServer
                    [] d = VHosts -> <<DefaultVHost>>
                    [] OTHER -> <<>>]
MCInstalled == NewCell

Item(n, j, v) == [name |-> n, jndiName |-> j, value |-> v, lacks |-> {}]
Secured(n, j, v, a) == [name |-> n, jndiName |-> j, value |-> v, typeds |-> "toolbox",
                        password |-> "v1", auth |-> a, lacks |-> {"user"}]

\* The YAML of a member: its own alias, resource entry, JVM properties, managers
\* and bindings, and the messaging and data sources of the cluster.
Yaml(s) ==
  LET only(m, list) == IF s = m THEN list ELSE <<>> IN
  [name |-> "settings", owner |-> "v2", resourceEnvProvider |-> "fwk2",
   resourceEnvEntries |->
     only("MBR1", <<[name |-> "entry", jndiName |-> None, value |-> "v1",
                     lacks |-> {}, customprop |-> <<Item("path", None, "v1")>>]>>),
   systemProperties |-> <<Item("prop1", None, "True"), Item("prop2", None, "v2")>>,
   vhost |-> "vh",
   aliases |-> <<"h1">> \o only("MBR1", <<"h2">>),
   mqjms |-> only("MBR1", <<Secured("qcf", "jms/qcf", "v1", "mq/user")>>),
   jmscf |-> <<Secured("cf", "jms/cf", "v1", "mq/user")>>,
   jmsq |-> <<Item("q1", "jms/q1", "v1"), Item("q2", "jms/q2", None)>>,
   dataSources |-> <<Secured("ds", "jndi1", "v1", "alias1")>>,
   httponlycookie |-> "v2",
   namespaceBindings |-> only("MBR2", <<Item("nsb", None, "v1")>>),
   webcntr_prop |-> only("MBR2", <<Item("filter", None, "v1")>>),
   timerManager |-> only("MBR2", <<Item("tm", None, "v1")>>),
   workManager |-> <<Item(IF s = "MBR1" THEN "wm1" ELSE "wm2", None, "v1")>>,
   scheduler |-> only("MBR1", <<Item("sched", None, "v1")>>)]

\* TLC evaluates the value of a constant once per use, a definition only once.
CallsOfYaml == ("MBR1" :> main(Yaml("MBR1"))) @@ ("MBR2" :> main(Yaml("MBR2")))
MCCalls == CallsOfYaml
=============================================================================
