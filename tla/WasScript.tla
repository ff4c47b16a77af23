------------------------------ MODULE WasScript ------------------------------
(***************************************************************************)
(* The script that templates/was_script.py renders from the YAML of one     *)
(* server: the sequence of was_libraries calls that its main() makes.       *)
(* The YAML is a record with the keys of the template; its lists are        *)
(* sequences of records, empty when the key is missing. A name that the     *)
(* YAML leaves out is the last part of the jndiName (get_name), and the     *)
(* user the second part of the alias: both are resolved in the record.      *)
(* What an element lacks and the script takes for granted is in its field   *)
(* lacks; the call that then raises keeps its place, with ok = FALSE.       *)
(***************************************************************************)
EXTENDS WasProvision, SequencesExt

\* "key": an argument without default (jndiName, when there is no name either);
\* "customprop": that list of a resource entry; "type": one of the three typeds;
\* "slash": exactly one '/' in the alias; "user": a user beside the alias.
Lacks == {"key", "customprop", "type", "slash", "user"}

CallTo(f, name, qual, value, auth, ok) ==
  [fn |-> f, name |-> name, qual |-> qual, value |-> value, auth |-> auth, ok |-> ok]

\* "_, user = authDataAlias.split('/')", which is left out when there is a user.
SplitFails(el) == {"slash", "user"} \subseteq el.lacks

\* One call per element of a list of the YAML.
CallPerItem(f, list) ==
  [i \in DOMAIN list |->
     CallTo(f, list[i].name, list[i].jndiName, list[i].value, None,
            "key" \notin list[i].lacks)]

set_process_exec(y) ==
  <<CallTo("set_process_exec_opts", y.name, None, y.owner, None, TRUE)>>

\* entry['customprop'] is read before the first property is set.
CustomPropMissing(entry) ==
  CallTo("set_custom_prop_entry", entry.name, None, None, None, FALSE)

set_resource_entries(y) ==
  <<CallTo("get_or_create_env_provider", y.resourceEnvProvider, None, None, None, TRUE)>>
    \o FlattenSeq([i \in DOMAIN y.resourceEnvEntries |->
         LET entry == y.resourceEnvEntries[i] IN
           CallPerItem("get_or_create_env_entries", <<entry>>)
             \o (IF "customprop" \in entry.lacks
                   THEN <<CustomPropMissing(entry)>>
                   ELSE CallPerItem("set_custom_prop_entry", entry.customprop))])

set_jvm_system_properties(y) == CallPerItem("set_jvm_prop", y.systemProperties)

set_vhost_aliases(y) ==
  <<CallTo("get_or_create_vhost", y.vhost, None, None, None, TRUE)>>
    \o [i \in DOMAIN y.aliases |->
          CallTo("create_alias", y.aliases[i], y.vhost, None, None, TRUE)]
    \o <<CallTo("link_vhost", y.name, None, y.vhost, None, TRUE)>>

\* create_mqjms splits the alias again when it has a password for it.
set_jms_mq(y) ==
  FlattenSeq([i \in DOMAIN y.mqjms |->
    LET el == y.mqjms[i]
        ok == ~SplitFails(el) /\ "key" \notin el.lacks
    IN IF el.auth = None
         THEN <<CallTo("create_mqjms", el.name, el.jndiName, el.value, None, ok)>>
         ELSE <<CallTo("configjaas", el.name, None, el.password, el.auth,
                       ok /\ "slash" \notin el.lacks),
                CallTo("create_mqjms", el.name, el.jndiName, el.value, el.auth, ok)>>])

set_jms_cf(y) ==
  FlattenSeq([i \in DOMAIN y.jmscf |->
    LET el == y.jmscf[i] IN
      <<CallTo("get_or_create_jmsCF", el.name, el.jndiName, el.value, el.auth,
               ~SplitFails(el) /\ "key" \notin el.lacks),
        CallTo("set_auth", el.name, None, el.password, el.auth, TRUE)>>])

set_jms_q(y) == CallPerItem("get_or_create_jmsQueue", y.jmsq)

\* An unknown type makes get_or_create_jdbc_prov raise, so that the dsHelper of
\* get_or_create_datasources is bound whenever it is reached.
set_dataSources(y) ==
  FlattenSeq([i \in DOMAIN y.dataSources |->
    LET el == y.dataSources[i] IN
      <<CallTo("get_or_create_jdbc_prov", el.typeds, None, None, None,
               ~SplitFails(el) /\ "type" \notin el.lacks),
        CallTo("get_or_create_datasources", el.name, el.jndiName, el.value, None,
               "key" \notin el.lacks),
        CallTo("set_auth", el.name, None, el.password, el.auth, TRUE)>>])

set_httponlycookie(y) ==
  <<CallTo("set_or_unset_httponlycookie", y.name, None, y.httponlycookie, None, TRUE)>>

\* main(): everything but the save(), in this order.
main(y) ==
  set_process_exec(y) \o set_resource_entries(y) \o set_jvm_system_properties(y)
    \o set_vhost_aliases(y) \o set_jms_mq(y) \o set_jms_cf(y) \o set_jms_q(y)
    \o set_dataSources(y) \o set_httponlycookie(y)
    \o CallPerItem("get_or_create_nameSpaceBinding", y.namespaceBindings)
    \o CallPerItem("get_or_create_webcntr", y.webcntr_prop)
    \o CallPerItem("get_or_create_timeManager", y.timerManager)
    \o CallPerItem("get_or_create_workManager", y.workManager)
    \o CallPerItem("get_or_create_scheduler", y.scheduler)
=============================================================================
