------------------------------ MODULE Overlays ------------------------------
(* The overlays of one instance, resolved layer by layer                      *)
(* (crates/apmpr-planner/src/overlay.rs, resolve): the block's defaults, the  *)
(* overlays in order, the instance's own values, then --set. Followed here    *)
(* for one environment key, one parameter and one file target.                *)
(*                                                                            *)
(* An overlay is [selects, optional, envFile, unset, set, param, file]:       *)
(*   set    [kind, value], kind literal or secret, or None                    *)
(*   file   [template, replace, controlled] or None                           *)
EXTENDS Naturals, Sequences, SequencesExt

CONSTANTS
    Absent,         \* no value
    Redacted,       \* what a secret looks like in a plan
    OverlayInputs   \* the inputs: [default, paramDefault, overlays, own, cli, paramOwn, shared],
                    \* where the parameter may share the name of the key

VARIABLES
    input,      \* the layers to resolve
    next,       \* the overlay to apply next; beyond the last, the later layers
    env,        \* the instance's environment value
    unset,      \* is the key in environment_unset
    secret,     \* the secret the container gets the value from
    traces,     \* the origin trace: the values set so far, with their layers
    param,      \* the instance's parameter
    file,       \* the injected file: the layer it came from and what it renders
    failed      \* was a diagnostic raised

ovars == <<input, next, env, unset, secret, traces, param, file, failed>>

\* set_trace: the previous value is shadowed, never lost.
set_trace(t, value, layer) == Append(t, [value |-> value, layer |-> layer])

OverlayInit ==
    /\ input \in OverlayInputs
    /\ next = 1
    /\ env = Absent /\ unset = FALSE /\ secret = Absent
    /\ param = Absent /\ file = Absent /\ failed = FALSE
    /\ traces = IF input.default = Absent THEN <<>>
                ELSE set_trace(<<>>, input.default, "block")

\* One value for the key: it undoes an earlier unset and an earlier secret.
Assign(st, value, layer) ==
    [env |-> value, unset |-> FALSE, secret |-> Absent, traces |-> set_trace(st.traces, value, layer)]

AssignIf(st, value, layer) == IF value = Absent THEN st ELSE Assign(st, value, layer)

\* The trace of an unset is recorded only when an earlier overlay had set it.
Unset(st, layer) ==
    [env |-> Absent, unset |-> TRUE, secret |-> Absent,
     traces |-> IF st.env = Absent THEN st.traces ELSE set_trace(st.traces, "unset", layer)]

SetValue(st, set, layer) ==
    IF set = Absent THEN st
    ELSE IF set.kind = "literal" THEN Assign(st, set.value, layer)
    ELSE [Assign(st, Redacted, layer) EXCEPT !.secret = set.value]

Current == [env |-> env, unset |-> unset, secret |-> secret, traces |-> traces]

Become(st) ==
    /\ env' = st.env /\ unset' = st.unset /\ secret' = st.secret /\ traces' = st.traces

\* effective_parameters at this layer: the instance's own value wins, then the
\* overlays so far, then the block's default.
effective_parameters(p) ==
    CASE input.paramOwn # Absent -> input.paramOwn
      [] input.paramOwn = Absent /\ p # Absent -> p
      [] OTHER -> input.paramDefault

\* Mutant: a second file for a target needs no replace.
FileFailsAnywhere(o, p) == ~o.file.controlled \/ (o.file.template /\ effective_parameters(p) = Absent)

\* resolve_files: a second file for a target needs replace, the target must be
\* under a controlled root, and a template only names known parameters.
FileFails(o, p) ==
    \/ file # Absent /\ ~o.file.replace
    \/ ~o.file.controlled
    \/ o.file.template /\ effective_parameters(p) = Absent

ApplyOverlay ==
    LET o     == input.overlays[next]
        layer == next
        files == AssignIf(Current, o.envFile, layer)
        kept  == IF o.unset THEN Unset(files, layer) ELSE files
        p     == IF o.param = Absent THEN param ELSE o.param
    IN  /\ next <= Len(input.overlays)
        /\ next' = next + 1
        /\ IF ~o.selects
           THEN /\ failed' = (failed \/ ~o.optional)
                /\ UNCHANGED <<env, unset, secret, traces, param, file>>
           ELSE /\ Become(SetValue(kept, o.set, layer))
                /\ param' = p
                /\ IF o.file = Absent THEN UNCHANGED <<file, failed>>
                   ELSE IF FileFails(o, p) THEN failed' = TRUE /\ UNCHANGED file
                   ELSE /\ file' = [layer |-> layer,
                                    renders |-> IF o.file.template THEN effective_parameters(p) ELSE Absent]
                        /\ UNCHANGED failed
        /\ UNCHANGED input

\* The instance's own values, then --set.
ApplyInstance ==
    /\ next = Len(input.overlays) + 1
    /\ next' = next + 1
    /\ Become(AssignIf(AssignIf(Current, input.own, "instance"), input.cli, "cli"))
    /\ param' = IF input.paramOwn = Absent THEN param ELSE input.paramOwn
    /\ UNCHANGED <<input, file, failed>>

OverlayNext == ApplyOverlay \/ ApplyInstance

Complete == next = Len(input.overlays) + 2 /\ ~failed

\* add_runtime_fields and apply_overlay_environment: a container gets every
\* parameter as a variable.  The default of a parameter comes before the block's
\* value, its other values before the instance's; then what is unset is removed,
\* and secrets are put in by reference.
ParameterAs(value) == IF input.shared THEN value ELSE Absent

Variable == FoldLeft(LAMBDA below, value : IF value = Absent THEN below ELSE value, Absent,
                     <<ParameterAs(input.paramDefault), input.default, ParameterAs(param), env>>)

Container ==
    CASE secret # Absent -> [kind |-> "secret", value |-> secret]
      [] secret = Absent /\ ~unset /\ Variable # Absent -> [kind |-> "literal", value |-> Variable]
      [] OTHER -> Absent

-----------------------------------------------------------------------------
(* What the layers mean: within an overlay the env file is read first, then   *)
(* unset, then set; the last effect of all the layers is the one that counts. *)

Literal(v) == IF v = Absent THEN <<>> ELSE <<[kind |-> "literal", value |-> v]>>

EffectsOf(o) ==
    IF ~o.selects THEN <<>>
    ELSE Literal(o.envFile)
           \o (IF o.unset THEN <<Absent>> ELSE <<>>)
           \o (IF o.set = Absent THEN <<>> ELSE <<o.set>>)

\* The parameter's last value, the instance's own above the overlays'.
Parameters ==
    FlattenSeq([k \in DOMAIN input.overlays |->
                  IF input.overlays[k].selects THEN Literal(input.overlays[k].param) ELSE <<>>])
      \o Literal(input.paramOwn)

Effects ==
    (IF input.shared THEN Literal(input.paramDefault) ELSE <<>>)
      \o Literal(input.default)
      \o (IF input.shared THEN Parameters ELSE <<>>)
      \o FlattenSeq([k \in DOMAIN input.overlays |-> EffectsOf(input.overlays[k])])
      \o Literal(input.own) \o Literal(input.cli)

FromParameter == input.shared /\ env = Absent /\ (Parameters # <<>> \/ input.default = Absent)

Injecting ==
    {k \in DOMAIN input.overlays : input.overlays[k].selects /\ input.overlays[k].file # Absent}

\* Once the layers are resolved, the container's value is what the last layer
\* with a say gave it, a secret or its removal included, where the values of a
\* parameter of the same name lie under all those of the environment but the
\* block's.  The origin trace of a value that the container gets from the
\* environment ends with that value (a parameter is traced under its own name),
\* and a secret shows there only redacted: the plan never carries the secret
\* itself.  A file of the plan comes from the last selected overlay that injects
\* it: an overlay that would silently shadow another one's file is refused.
LastLayerWins ==
    /\ Complete => Container = (IF Effects = <<>> THEN Absent ELSE Effects[Len(Effects)])
    /\ Complete /\ Container # Absent /\ ~FromParameter =>
        /\ traces # <<>>
        /\ traces[Len(traces)].value =
              (IF Container.kind = "secret" THEN Redacted ELSE Container.value)
    /\ Complete => /\ (file = Absent) = (Injecting = {})
                   /\ file # Absent => file.layer \in Injecting /\ \A k \in Injecting : k <= file.layer
                   /\ \A j, k \in Injecting : j < k => input.overlays[k].file.replace
=============================================================================
