------------------------------ MODULE Webhook ------------------------------
(***************************************************************************)
(* The admission webhook (bin/webhook.rs).  For a Pod CREATE it answers    *)
(* with a JSON patch, computed from the Pod as it was sent; the API server *)
(* (external) applies it, and may call the webhook again after others have *)
(* changed the Pod.                                                        *)
(*                                                                         *)
(* A Pod is its lists of named items; of an item's content only whose it   *)
(* is matters.                                                             *)
(***************************************************************************)
EXTENDS Integers, Sequences

LOCAL INSTANCE SequencesExt

CONSTANTS
    Absent,      \* a field the Pod does not have
    Submitted,   \* the Pods that are submitted
    MaxReviews,  \* bound: calls of the webhook for one Pod
    MaxOthers    \* bound: changes by other webhooks

ASSUME WebhookAssumption == MaxReviews \in Nat /\ MaxOthers \in Nat

VARIABLES
    whmode,   \* SYNTRIASS_WEBHOOK_MODE
    pod,      \* the Pod as the API server has it
    verdict,  \* the answer of the last review, "none" before
    fresh,    \* history: nothing has changed the Pod since
    reviews, others

webhookVars == <<whmode, pod, verdict, fresh, reviews, others>>

Ours == "syntriass"     \* VOLUME_NAME and INIT_CONTAINER_NAME, one per list
Preload == "LD_PRELOAD"
Key == "enforcement"    \* the label, and the annotation

item(name, whose) == [name |-> name, whose |-> whose]

WebhookInit ==
    /\ whmode \in {"interposer", "kernel-native"}
    /\ pod \in Submitted
    /\ verdict = "none" /\ fresh = FALSE
    /\ reviews = 0 /\ others = 0

-----------------------------------------------------------------------------
(* The patch.  An operation has a path, which names a list and a place in  *)
(* it: "list" for the list itself, "end", an "index", or the "key".        *)

add(list, place, value) == [op |-> "add", list |-> list, place |-> place, value |-> value]

replace(list, place, index, value) ==
    [op |-> "replace", list |-> list, place |-> place, index |-> index, value |-> value]

Named(items, name) == {i \in DOMAIN items : items[i].name = name}

named_item_index(items, name) == CHOOSE i \in Named(items, name) : \A j \in Named(items, name) : i <= j


push_always(list, items, new) ==
    IF items = Absent THEN <<add(list, "list", <<new>>)>> ELSE <<add(list, "end", new)>>

\* push_volume_patch, push_init_container_patch, and the mount of the target.
push_named(list, items, new) ==
    IF items = Absent THEN <<add(list, "list", <<new>>)>>
    ELSE IF Named(items, new.name) # {} THEN <<>>
    ELSE <<add(list, "end", new)>>

\* LD_PRELOAD of the target is replaced where it is, or added.
push_preload(envs) ==
    IF envs # Absent /\ Named(envs, Preload) # {}
    THEN <<replace("env", "index", named_item_index(envs, Preload), item(Preload, "ours"))>>
    ELSE push_named("env", envs, item(Preload, "ours"))

\* push_metadata_field.
push_metadata_field(map, fields) ==
    IF fields = Absent THEN <<add(map, "list", [k \in {Key} |-> "ours"])>>
    ELSE IF Key \notin DOMAIN fields THEN <<add(map, "key", "ours")>>
    ELSE IF fields[Key] = "ours" THEN <<>>
    ELSE <<replace(map, "key", Key, "ours")>>

\* For a Pod that has a container; the target is the first one.
build_patch(p) ==
    IF whmode = "kernel-native"
    THEN push_metadata_field("labels", p.labels) \o push_metadata_field("notes", p.notes)
    ELSE push_named("volumes", p.volumes, item(Ours, "ours"))
             \o push_named("inits", p.inits, item(Ours, "ours"))
             \o push_named("mounts", p.containers[1].mounts, item(Ours, "ours"))
             \o push_preload(p.containers[1].env)

-----------------------------------------------------------------------------
(* The API server.                                                         *)

\* One operation on a list or a map.
Edit(items, o) ==
    CASE o.place = "list"  -> o.value
      [] o.place = "end"   -> Append(items, o.value)
      [] o.place = "index" -> [items EXCEPT ![o.index] = o.value]
      [] o.place = "key"   -> [k \in DOMAIN items \cup {Key} |-> IF k = Key THEN o.value ELSE items[k]]

Apply(p, o) ==
    IF o.list \in {"mounts", "env"}
    THEN [p EXCEPT !.containers[1][o.list] = Edit(@, o)]
    ELSE [p EXCEPT ![o.list] = Edit(@, o)]

\* mutate: a Pod without containers is denied.
mutate ==
    /\ reviews < MaxReviews /\ reviews' = reviews + 1
    /\ verdict # "denied"
    /\ \/ pod.containers = <<>> /\ verdict' = "denied" /\ UNCHANGED <<pod, fresh>>
       \/ /\ pod.containers # <<>> /\ verdict' = "allowed" /\ fresh' = TRUE
          /\ pod' = FoldLeft(Apply, pod, build_patch(pod))
    /\ UNCHANGED <<whmode, others>>

\* Another webhook puts a container in front, or adds an item of its own.
Theirs(items, name) ==
    IF items = Absent THEN <<item(name, "theirs")>> ELSE Append(items, item(name, "theirs"))

OtherWebhook ==
    /\ others < MaxOthers /\ others' = others + 1
    /\ verdict = "allowed" /\ fresh' = FALSE
    /\ \/ pod' = [pod EXCEPT !.containers = <<[mounts |-> Absent, env |-> Absent]>> \o @]
       \/ pod' = [pod EXCEPT !.volumes = Theirs(@, "other")]
       \/ pod' = [pod EXCEPT !.containers[1].mounts = Theirs(@, "other")]
       \/ \E name \in {"other", Preload} : pod' = [pod EXCEPT !.containers[1].env = Theirs(@, name)]
    /\ UNCHANGED <<whmode, verdict, reviews>>

WebhookNext == mutate \/ OtherWebhook

-----------------------------------------------------------------------------
Has(items, name) == items # Absent /\ Named(items, name) # {}

\* The kubelet takes the last of several variables of one name.
Effective(envs, name) == envs[CHOOSE i \in Named(envs, name) : \A j \in Named(envs, name) : j <= i]


KeptFields(old, new) == old # Absent => \A k \in DOMAIN old \ {Key} : new[k] = old[k]

Kept(old, new) ==
    old # Absent =>
        /\ Len(old) <= Len(new)
        /\ \A i \in DOMAIN old : new[i] # old[i] => old[i].name = Preload /\ new[i].name = Preload
        /\ \A i \in DOMAIN new \ DOMAIN old : Named(old, new[i].name) = {}

\* The patch takes nothing away and renames nothing, adds no second item of a
\* name that is there already, and leaves every container but the first alone;
\* and a second review of what the first has made changes nothing.
PatchIsMinimal ==
    [][mutate =>
        /\ fresh => UNCHANGED pod
        /\ Kept(pod.volumes, pod'.volumes) /\ Kept(pod.inits, pod'.inits)
        /\ KeptFields(pod.labels, pod'.labels) /\ KeptFields(pod.notes, pod'.notes)
        /\ DOMAIN pod'.containers = DOMAIN pod.containers
        /\ \A i \in DOMAIN pod.containers :
              IF i = 1 THEN /\ Kept(pod.containers[i].mounts, pod'.containers[i].mounts)
                            /\ Kept(pod.containers[i].env, pod'.containers[i].env)
                       ELSE pod'.containers[i] = pod.containers[i]
      ]_webhookVars

=============================================================================
