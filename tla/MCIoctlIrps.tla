---------------------------- MODULE MCIoctlIrps ----------------------------
(* Small instances of IoctlIrps: in each behaviour the requests and threads *)
(* of one of the scenes take part, the others stand still.                 *)
EXTENDS IoctlIrps

CONSTANTS f1, a1, a2, e1, m1, Scenes

OneFile == [i \in Irps |-> f1]

\* One request beside all but one of what it meets, or two audio requests
\* beside the DPC.
SmallScenes ==
    {{a1, Dpc, Stream, Pnp}, {a1, Dpc, f1, Pnp}, {a1, Stream, f1, Pnp},
     {e1, Stream, f1, Pnp}, {e1, m1, f1}, {a1, a2, Dpc}}

VARIABLE scene

MCInit == Init /\ scene \in Scenes

MCNext ==
    /\ Next
    /\ \A x \in Agents \ scene : pc'[x] = pc[x]
    /\ UNCHANGED scene

\* Two requests that are cancelled and issued again for ever can keep a third
\* party from the spin lock, which is not fair: progress is asked for where one
\* request meets everything else.
Alone == ~({a1, a2} \subseteq scene)

MCSpec == MCInit /\ [][MCNext]_<<vars, scene>> /\ Fairness

\* RemovalFinishes and CancelledCompletes of IoctlIrps, for one request.
WaitsEnd ==
    /\ []<>(Alone => published \/ freed)
    /\ \A i \in Irps : []<>~(Alone /\ cancelled[i] /\ comp[i] = 0)
=============================================================================
