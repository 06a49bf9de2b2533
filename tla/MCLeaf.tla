------------------------------- MODULE MCLeaf -------------------------------
(* Instances of Webhook and Vectored for TLC.  They share no state: a      *)
(* behaviour is about one of them and leaves the other at one initial      *)
(* state.                                                                  *)
EXTENDS Webhook, Vectored, TLC

VARIABLE leaf

leafVars == <<leaf, webhookVars, vectoredVars>>

Lists == {Absent, <<>>, <<item("other", "theirs")>>, <<item(Ours, "ours"), item("other", "theirs")>>}

Envs == {Absent, <<>>, <<item("other", "theirs")>>, <<item(Preload, "theirs")>>,
         <<item("other", "theirs"), item(Preload, "theirs")>>,
         <<item(Preload, "theirs"), item("other", "theirs"), item(Preload, "theirs")>>}

Maps == {Absent} \cup {[k \in {Key} |-> w] : w \in {"ours", "theirs"}}
            \cup {[k \in {"app"} |-> "theirs"], [k \in {"app", Key} |-> "theirs"]}

Container(m, e) == [mounts |-> m, env |-> e]

Pods ==
    [volumes : Lists, inits : {Absent, <<>>}, labels : Maps, notes : {Absent},
     containers : {<<>>} \cup {<<Container(m, e)>> : m \in Lists, e \in Envs}
                      \cup {<<Container(Absent, e), Container(Absent, Absent)>> : e \in Envs}]
        \cup
    [volumes : {Absent}, inits : Lists, labels : {Absent}, notes : Maps,
     containers : {<<Container(Absent, Absent)>>}]

Entries == [len : 0..2, null : BOOLEAN]

Iovs == {<<>>} \cup {<<a>> : a \in Entries} \cup {<<a, b>> : a, b \in Entries}
            \cup {<<a, b, c>> : a, c \in Entries, b \in {e \in Entries : e.len < 2}}

Init ==
    /\ leaf \in {"webhook", "vectored"}
    /\ WebhookInit /\ VectoredInit
    /\ leaf = "vectored" => whmode = "interposer" /\ pod = CHOOSE p \in Submitted : TRUE

Next ==
    \/ leaf = "webhook" /\ WebhookNext /\ UNCHANGED <<leaf, vectoredVars>>
    \/ leaf = "vectored" /\ VectoredNext /\ UNCHANGED <<leaf, webhookVars>>

Spec == Init /\ [][Next]_leafVars

=============================================================================
