----------------------------- MODULE MCWasNames -----------------------------
(***************************************************************************)
(* Names that begin with other names, as the servers DPZ_200 and DPZ_20080  *)
(* of one cell do: two stand-alone servers of such names, each with two     *)
(* JVM properties and two work managers of which one name begins with the   *)
(* other. The longer one is declared first.                                 *)
(***************************************************************************)
EXTENDS WasScript, TLC

MCServers == {"DPZ_200", "DPZ_20080"}
MCServerList == <<"DPZ_200", "DPZ_20080">>
MCScope == [s \in MCServers |-> s]
MCNames == {"ResourcesProviderForJNDI", "fwk2",
            "vh", "config", "config_dir", "wm", "wm_batch", "settings"}
MCValues == {"v1", "v2", "vh"}
Same == {<<n, n>> : n \in MCNames \union MCServers}
Beginnings == Same \union
  {<<"DPZ_200", "DPZ_20080">>, <<"config", "config_dir">>, <<"wm", "wm_batch">>}

Setting(type, value) ==
  [type |-> type, name |-> "settings", qual |-> None, value |-> value, auth |-> None]
NewCell ==
  [d \in Docs |->
     IF d[1] = "server"
       THEN <<Setting("ProcessExecution", "v1"), Setting("WebContainer", "vh"),
              Setting("Cookie", "v1")>>
       ELSE <<>>]
MCInstalled == NewCell

Item(n, v) == [name |-> n, jndiName |-> None, value |-> v, lacks |-> {}]
Yaml(s) ==
  [name |-> "settings", owner |-> "v2", resourceEnvProvider |-> "fwk2",
   resourceEnvEntries |-> <<>>,
   systemProperties |-> <<Item("config_dir", "v1"), Item("config", "v2")>>,
   vhost |-> "vh", aliases |-> <<>>, mqjms |-> <<>>, jmscf |-> <<>>, jmsq |-> <<>>,
   dataSources |-> <<>>, httponlycookie |-> "v2", namespaceBindings |-> <<>>,
   webcntr_prop |-> <<>>, timerManager |-> <<>>,
   workManager |-> <<Item("wm_batch", "v1"), Item("wm", "v1")>>,
   scheduler |-> <<>>]

CallsOfYaml == [s \in MCServers |-> main(Yaml(s))]
MCCalls == CallsOfYaml
=============================================================================
