----------------------- MODULE ResourcesSafetyProofs -----------------------
(***************************************************************************)
(* Safety of the resources of instances, from what ResourcesProofs shows   *)
(* each step does: ports claimed and kept, what a stop took down, and what *)
(* a removal tears down.                                                   *)
(***************************************************************************)
EXTENDS ResourcesProofs

-----------------------------------------------------------------------------
(* Books and Rebinding: a command's memory, the record and the process of  *)
(* what a rebind binds.                                                    *)

LEMMA RestIs ==
    /\ Rest.op = "idle" /\ Rest.step = "idle" /\ Rest.prev = NoSlot /\ Rest.owed = {} /\ Rest.still = {}
    /\ Rest.mem = Unspawned /\ Portless(Unspawned) /\ ~ Unspawned.here
    /\ \A r \in Resource : Unspawned.slot[r] = NoSlot /\ NoSlot.state = "none" /\ NoSlot.port = NoPort
<1>1. NoSlot.state = "none" /\ NoSlot.port = NoPort
  BY DEF NoSlot
<1>2. \A r \in Resource : Unspawned.slot[r] = NoSlot
  BY DEF Unspawned
<1>3. Portless(Unspawned)
  BY <1>1, <1>2 DEF Portless
<1> QED
  BY <1>1, <1>2, <1>3 DEF Rest, Unspawned

\* A slot set to what has a binding, or cleared.
LEMMA PortlessSet ==
    ASSUME NEW m, NEW n, NEW r \in Resource, NEW state, NEW port, SlotIs(n, m, r, state, port),
           Portless(m), state = "none" => port = NoPort
    PROVE  Portless(n)
  BY DEF SlotIs, Portless

\* A record that is the same but for the state of a slot, or for whether its
\* tracker is dropped, claims the same ports.
LEMMA PortsSet ==
    ASSUME NEW m, NEW n, NEW r \in Resource, NEW state, SlotIs(n, m, r, state, m.slot[r].port)
    PROVE  \A q \in Resource : n.slot[q].port = m.slot[q].port
  BY DEF SlotIs

Working(s) == Books(s) /\ Rebinding(s)

\* A binder's books when it goes on.
LEMMA BinderBooks ==
    ASSUME NEW s \in Slug, Working(s), BindKeeps(s), proc'[s] = proc[s], owed'[s] = owed[s],
           rec'[s].here, cmd'[s].mem.here, cmd'[s].step # "archive",
           \A r \in Resource : cmd'[s].mem.slot[r].port = rec'[s].slot[r].port,
           cmd'[s].mem.dropped = rec'[s].dropped, rec'[s].dropped = rec[s].dropped,
           Portless(rec'[s]), Portless(cmd'[s].mem), cmd[s].step # "boot",
           cmd'[s].step = "claim" => cmd'[s].mem.slot[cmd'[s].at].state = "none",
           cmd'[s].step \in {"render", "resume", "prepare"} => cmd'[s].mem.slot[cmd'[s].at].state = "pending",
           cmd'[s].step \in {"resume", "prepare"} => cmd'[s].mem = rec'[s],
           cmd'[s].step # "boot"
    PROVE  Working(s)'
<1>1. Books(s)'
  BY DEF Books, Working, BindKeeps, Binder
<1>2. Rebinding(s)'
  BY DEF Working, Rebinding, BindKeeps, Active, Running
<1> QED
  BY <1>1, <1>2 DEF Working

LEMMA BindNextWorks ==
    ASSUME StateInv, NEW s \in Slug, Working(s), BindNext(s) PROVE Working(s)'
<1>1. PICK r \in Unbound(cmd[s].mem) :
          /\ cmd[s].step = "bind" /\ Inserted(s, r, cmd[s].mem.slot[r].port)
  BY BindNextDoes
<1>2. r \in Resource /\ SameDisk(s) /\ SameWorld(s)
  BY BindNextDoes DEF Unbound
<1>3. Portless(cmd'[s].mem) /\ \A q \in Resource : cmd'[s].mem.slot[q].port = cmd[s].mem.slot[q].port
  <2>1. Portless(cmd[s].mem) /\ SlotIs(cmd'[s].mem, cmd[s].mem, r, "pending", cmd[s].mem.slot[r].port)
    BY <1>1 DEF Inserted, Working, Books
  <2>2. Portless(cmd'[s].mem)
    BY <1>2, <2>1, PortlessSet
  <2>3. \A q \in Resource : cmd'[s].mem.slot[q].port = cmd[s].mem.slot[q].port
    BY <1>2, <2>1, PortsSet
  <2> QED
    BY <2>2, <2>3
<1>4. BindKeeps(s) /\ cmd[s].op \in Binder /\ cmd[s].op # "idle"
  BY <1>1 DEF Inserted, BindKeeps, Binder
<1>5. /\ rec[s].here /\ cmd[s].mem.here /\ cmd[s].mem.dropped = rec[s].dropped
      /\ \A q \in Resource : cmd[s].mem.slot[q].port = rec[s].slot[q].port
      /\ Portless(rec[s]) /\ Portless(cmd[s].mem)
  BY <1>4 DEF Working, Books
<1>6. /\ rec'[s] = rec[s] /\ owed'[s] = owed[s] /\ proc'[s] = proc[s]
  BY <1>2 DEF SameDisk, SameWorld
<1>7. /\ cmd'[s].step = "render" /\ cmd'[s].at = r
      /\ cmd'[s].mem.here = cmd[s].mem.here /\ cmd'[s].mem.dropped = cmd[s].mem.dropped
      /\ cmd'[s].mem.slot[r].state = "pending"
  BY <1>1 DEF Inserted, SlotIs
<1> QED
  BY <1>1, <1>3, <1>4, <1>5, <1>6, <1>7, BinderBooks

LEMMA ReadClaimsWorks ==
    ASSUME StateInv, NEW s \in Slug, Working(s), ReadClaims(s) PROVE Working(s)'
<1>1. PICK r \in Unbound(cmd[s].mem), p \in Port \ UsedPorts :
          /\ cmd[s].step = "bind" /\ NeedsPort(s, r) /\ BindKeeps(s)
          /\ cmd'[s].step = "claim" /\ cmd'[s].at = r /\ cmd'[s].mem = cmd[s].mem
  BY ReadClaimsDoes
<1>2. r \in Resource /\ SameDisk(s) /\ SameWorld(s) /\ cmd[s].mem \in Record
  BY ReadClaimsDoes, Typed DEF Unbound, StateInv, Memory
<1>3. cmd[s].mem.slot[r].state = "none"
  BY <1>1, <1>2, SlotType DEF NeedsPort, Unbound, Bound
<1>4. BindKeeps(s) /\ cmd[s].op \in Binder /\ cmd[s].op # "idle"
  BY <1>1 DEF BindKeeps, Binder
<1>5. /\ rec[s].here /\ cmd[s].mem.here /\ cmd[s].mem.dropped = rec[s].dropped
      /\ \A q \in Resource : cmd[s].mem.slot[q].port = rec[s].slot[q].port
      /\ Portless(rec[s]) /\ Portless(cmd[s].mem)
  BY <1>4 DEF Working, Books
<1>6. /\ rec'[s] = rec[s] /\ owed'[s] = owed[s] /\ proc'[s] = proc[s]
  BY <1>2 DEF SameDisk, SameWorld
<1> QED
  BY <1>1, <1>3, <1>4, <1>5, <1>6, BinderBooks

LEMMA SaveClaimWorks ==
    ASSUME StateInv, NEW s \in Slug, Working(s), SaveClaim(s) PROVE Working(s)'
<1>1. /\ cmd[s].step = "claim" /\ cmd[s].at \in Resource /\ Inserted(s, cmd[s].at, cmd[s].port)
      /\ rec'[s] = cmd'[s].mem /\ owed'[s] = owed[s] /\ SameWorld(s)
  BY SaveClaimDoes
<1>2. Portless(cmd'[s].mem)
  <2>1. Portless(cmd[s].mem) /\ SlotIs(cmd'[s].mem, cmd[s].mem, cmd[s].at, "pending", cmd[s].port)
    BY <1>1 DEF Inserted, Working, Books
  <2> QED
    BY <1>1, <2>1, PortlessSet
<1>3. /\ cmd'[s].step = "render" /\ cmd'[s].mem.slot[cmd'[s].at].state = "pending"
      /\ rec'[s].dropped = rec[s].dropped /\ rec'[s].here /\ BindKeeps(s) /\ proc'[s] = proc[s]
  BY <1>1 DEF Inserted, SlotIs, Working, Books, BindKeeps, SameWorld, Binder, StateInv, Phase, Rest
<1> QED
  BY <1>1, <1>2, <1>3, BinderBooks

LEMMA SettledWorks ==
    ASSUME StateInv, NEW s \in Slug, Working(s), NEW state \in Status, SettledAs(s, state),
           cmd[s].at \in Resource, cmd[s].step \in {"render", "resume", "prepare"},
           rec'[s] \in {rec[s], cmd[s].mem}, owed'[s] = owed[s], proc'[s] = proc[s]
    PROVE  Working(s)'
<1>1. Portless(cmd'[s].mem) /\ \A q \in Resource : cmd'[s].mem.slot[q].port = cmd[s].mem.slot[q].port
  <2>1. /\ Portless(cmd[s].mem) /\ state # "none"
        /\ SlotIs(cmd'[s].mem, cmd[s].mem, cmd[s].at, state, cmd[s].mem.slot[cmd[s].at].port)
    BY DEF SettledAs, Working, Books, Status
  <2>2. Portless(cmd'[s].mem)
    BY <2>1, PortlessSet
  <2>3. \A q \in Resource : cmd'[s].mem.slot[q].port = cmd[s].mem.slot[q].port
    BY <2>1, PortsSet
  <2> QED
    BY <2>2, <2>3
<1>2. /\ cmd'[s].step = "bind" /\ BindKeeps(s) /\ rec'[s].here /\ cmd'[s].mem.here
      /\ cmd'[s].mem.dropped = rec'[s].dropped /\ rec'[s].dropped = rec[s].dropped
      /\ Portless(rec'[s]) /\ \A q \in Resource : cmd[s].mem.slot[q].port = rec'[s].slot[q].port
  BY DEF SettledAs, SlotIs, Working, Books, BindKeeps, Binder
<1> QED
  BY <1>1, <1>2, BinderBooks

LEMMA RenderWorks ==
    ASSUME StateInv, NEW s \in Slug, Working(s), RenderFails(s) \/ Withhold(s) \/ NothingToRun(s)
    PROVE  Working(s)'
  BY RenderDoes, SettledWorks DEF SameWorld, Status

LEMMA HookEndsWorks ==
    ASSUME StateInv, NEW s \in Slug, Working(s), NEW ok \in BOOLEAN, HookEnds(s, ok) PROVE Working(s)'
  BY HookEndsDoes, SettledWorks DEF SameDisk, Status

LEMMA RunHookWorks ==
    ASSUME StateInv, NEW s \in Slug, Working(s), RunHook(s) PROVE Working(s)'
  BY RunHookDoes, BinderBooks DEF Working, Books, BindKeeps, SameWorld, Binder

\* A command ends, or is killed.
LEMMA EndBooks ==
    ASSUME NEW s \in Slug, Working(s), cmd'[s] = Rest, Portless(rec'[s]),
           rec'[s].here \/ (rec'[s] = Unspawned /\ Bare(s)')
    PROVE  Working(s)'
<1>1. Books(s)'
  BY RestIs DEF Books, Binder
<1>2. Rebinding(s)'
  BY RestIs DEF Rebinding
<1> QED
  BY <1>1, <1>2 DEF Working

\* It ends with the record it had.
LEMMA EndSameBooks ==
    ASSUME NEW s \in Slug, Working(s), cmd'[s] = Rest, rec'[s] = rec[s], cmd[s].op # "idle"
    PROVE  Working(s)'
<1>1. rec[s].here /\ Portless(rec[s])
  BY DEF Working, Books
<1> QED
  BY <1>1, EndBooks

\* A command that takes down or brings back goes on.
LEMMA OtherBooks ==
    ASSUME NEW s \in Slug, Working(s), cmd[s].op \in {"stop", "drop", "remove", "start"},
           cmd'[s].op = cmd[s].op, Phase(cmd'[s]), rec'[s] = rec[s], Portless(cmd'[s].mem), cmd'[s].mem.here,
           \A r \in Resource : cmd'[s].mem.slot[r].port = rec[s].slot[r].port,
           cmd[s].op # "drop" => cmd'[s].mem = cmd[s].mem,
           cmd'[s].step = "archive" => Bare(s)'
    PROVE  Working(s)'
<1>1. cmd'[s].step \notin {"bind", "claim", "render", "resume", "prepare", "boot"} /\ cmd[s].op \notin Binder
  BY DEF Phase, Binder
<1>2. Books(s)'
  BY <1>1 DEF Books, Working, Binder
<1>3. Rebinding(s)'
  BY <1>1 DEF Rebinding, Binder
<1> QED
  BY <1>2, <1>3 DEF Working

LEMMA OtherSameBooks ==
    ASSUME NEW s \in Slug, Working(s), cmd[s].op \in {"stop", "drop", "remove", "start"},
           cmd'[s].op = cmd[s].op, Phase(cmd'[s]), rec'[s] = rec[s], cmd'[s].mem = cmd[s].mem,
           cmd'[s].step # "archive"
    PROVE  Working(s)'
<1>1. /\ Portless(cmd[s].mem) /\ cmd[s].mem.here
      /\ \A r \in Resource : cmd[s].mem.slot[r].port = rec[s].slot[r].port
  BY DEF Working, Books
<1> QED
  BY <1>1, OtherBooks

LEMMA GiveUpWorks ==
    ASSUME StateInv, NEW s \in Slug, Working(s), NoPortLeft(s) \/ BindError(s) PROVE Working(s)'
<1>1. GiveUp(s) /\ cmd[s].op \in Binder
  BY GivesUp
<1>2. cmd'[s] = Rest /\ cmd[s].op # "idle" /\ rec[s].here /\ Portless(rec[s])
  BY <1>1, GiveUpDoes DEF Working, Books, Binder
<1>3. CASE ~ (cmd[s].op = "rebind" /\ cmd[s].prev # NoSlot)
  BY <1>1, <1>2, <1>3, GiveUpDoes, EndSameBooks
<1>4. CASE cmd[s].op = "rebind" /\ cmd[s].prev # NoSlot
  <2>1. PICK r \in Resource : cmd[s].only = {r}
    BY <1>4 DEF Working, Rebinding
  <2>2. \/ rec'[s] = rec[s]
        \/ SlotIs(rec'[s], cmd[s].mem, r, cmd[s].prev.state, cmd[s].prev.port)
    BY <1>1, <1>4, <2>1, GiveUpRebindDoes
  <2>3. CASE rec'[s] = rec[s]
    BY <1>2, <2>3, EndSameBooks
  <2>4. CASE SlotIs(rec'[s], cmd[s].mem, r, cmd[s].prev.state, cmd[s].prev.port)
    <3>1. cmd[s].prev.state # "none" /\ Portless(cmd[s].mem) /\ cmd[s].mem.here
      BY <1>2, <1>4 DEF Working, Rebinding, Books, Status
    <3>2. Portless(rec'[s])
      BY <2>4, <3>1, PortlessSet
    <3>3. rec'[s].here
      BY <2>4, <3>1 DEF SlotIs
    <3> QED
      BY <1>2, <3>2, <3>3, EndBooks
  <2> QED
    BY <2>2, <2>3, <2>4
<1> QED
  BY <1>3, <1>4

LEMMA BindDoneWorks ==
    ASSUME StateInv, NEW s \in Slug, Working(s), BindDone(s) PROVE Working(s)'
<1>1. /\ cmd[s].op \in Binder /\ cmd[s].step = "bind"
      /\ rec'[s] = cmd[s].mem /\ cmd'[s].op = cmd[s].op /\ cmd'[s].step = "boot"
      /\ cmd'[s].mem = cmd[s].mem /\ cmd'[s].only = cmd[s].only /\ cmd'[s].prev = NoSlot
  BY BindDoneDoes
<1>2. Books(s)'
  BY <1>1 DEF Books, Working, Binder
<1>3. Rebinding(s)'
  BY <1>1, RestIs DEF Rebinding, Working, Books, Binder, Active
<1> QED
  BY <1>2, <1>3 DEF Working

LEMMA BootWorks ==
    ASSUME StateInv, NEW s \in Slug, Working(s), NEW ok \in BOOLEAN, Boot(s, ok) PROVE Working(s)'
<1>1. /\ cmd[s].step = "boot" /\ cmd'[s].step = "boot" /\ BindKeeps(s)
      /\ cmd'[s].mem = cmd[s].mem /\ rec'[s] = rec[s]
  BY BootDoes DEF SameDisk
<1>2. Books(s)'
  BY <1>1 DEF Books, Working, Binder, BindKeeps
<1>3. Rebinding(s)'
  BY <1>1, RestIs DEF Rebinding, Working, Books, BindKeeps, Binder, Active
<1> QED
  BY <1>2, <1>3 DEF Working

LEMMA SpawnWorks ==
    ASSUME StateInv, NEW s \in Slug, Working(s), NEW d \in BOOLEAN, NEW only \in {{}, Resource}, Spawn(s, d, only)
    PROVE  Working(s)'
<1>1. /\ Begins(s, "spawn") /\ cmd'[s].step = "bind"
      /\ cmd'[s].mem = rec'[s] /\ rec'[s].here /\ \A r \in Resource : rec'[s].slot[r] = NoSlot
  BY SpawnDoes
<1>2. Portless(rec'[s])
  BY <1>1, RestIs DEF Portless
<1>3. Books(s)'
  BY <1>1, <1>2 DEF Books, Begins, Binder
<1>4. Rebinding(s)'
  BY <1>1 DEF Rebinding, Begins
<1> QED
  BY <1>3, <1>4 DEF Working

LEMMA UseWorks ==
    ASSUME StateInv, NEW s \in Slug, Working(s), Use(s) PROVE Working(s)'
<1>1. /\ Begins(s, "use") /\ cmd'[s].step = "bind"
      /\ cmd'[s].mem = rec'[s] /\ rec'[s].here /\ rec'[s].slot = rec[s].slot
  BY UseDoes
<1>2. Portless(rec'[s])
  BY <1>1 DEF Portless, Working, Books
<1>3. Books(s)'
  BY <1>1, <1>2 DEF Books, Begins, Binder
<1>4. Rebinding(s)'
  BY <1>1 DEF Rebinding, Begins
<1> QED
  BY <1>3, <1>4 DEF Working

LEMMA RebindWorks ==
    ASSUME StateInv, NEW s \in Slug, Working(s), NEW r \in Resource, Rebind(s, r) PROVE Working(s)'
<1>1. /\ Begins(s, "rebind") /\ rec[s].here /\ Active(rec[s], r) /\ ~ Running(s, r)
      /\ cmd'[s].step = "bind" /\ cmd'[s].mem = rec'[s] /\ cmd'[s].only = {r}
      /\ \/ /\ Bound(rec[s], r) /\ cmd'[s].prev = rec[s].slot[r]
            /\ SlotIs(rec'[s], rec[s], r, "none", NoPort)
         \/ ~ Bound(rec[s], r) /\ cmd'[s].prev = NoSlot /\ rec'[s] = rec[s]
      /\ proc'[s] = proc[s]
  BY RebindDoes DEF SameWorld
<1>2. Portless(rec[s])
  BY DEF Working, Books
<1>3. Portless(rec'[s]) /\ rec'[s].here /\ rec'[s].dropped = rec[s].dropped
  <2>1. CASE SlotIs(rec'[s], rec[s], r, "none", NoPort)
    <3>1. Portless(rec'[s])
      BY <1>2, <2>1, PortlessSet
    <3> QED
      BY <1>1, <2>1, <3>1 DEF SlotIs
  <2>2. CASE rec'[s] = rec[s]
    BY <1>1, <1>2, <2>2
  <2> QED
    BY <1>1, <2>1, <2>2
<1>4. Books(s)'
  BY <1>1, <1>3 DEF Books, Begins, Binder
<1>5. cmd'[s].prev # NoSlot => cmd'[s].prev.state \in Status
  BY <1>1 DEF Bound
<1>6. Rebinding(s)'
  BY <1>1, <1>3, <1>5 DEF Rebinding, Running, Active
<1> QED
  BY <1>4, <1>6 DEF Working

LEMMA BeginWorks ==
    ASSUME StateInv, NEW s \in Slug, Working(s), Stop(s) \/ Drop(s) \/ Remove(s) \/ Start(s) PROVE Working(s)'
<1>1. \E op \in {"stop", "drop", "remove", "start"} :
          /\ Begins(s, op) /\ rec[s].here /\ rec'[s] = rec[s] /\ cmd'[s].step \in {"down", "up"}
          /\ cmd'[s].mem.here /\ cmd'[s].mem.slot = rec[s].slot
          /\ op # "drop" => cmd'[s].mem = rec[s]
  BY StopDoes, DropDoes, RemoveDoes, StartDoes DEF SameDisk
<1>2. Portless(cmd'[s].mem) /\ Portless(rec[s])
  BY <1>1 DEF Portless, Working, Books
<1>3. Books(s)'
  BY <1>1, <1>2 DEF Books, Begins, Binder
<1>4. Rebinding(s)'
  BY <1>1 DEF Rebinding, Begins
<1> QED
  BY <1>3, <1>4 DEF Working

LEMMA TakeDownWorks ==
    ASSUME StateInv, NEW s \in Slug, Working(s), Phase(cmd'[s]), TakeDown(s) PROVE Working(s)'
<1>1. CASE \E ok \in BOOLEAN : DownProcess(s, ok) \/ StopSuspend(s, ok) \/ RemoveHook(s, ok)
  BY <1>1, DownProcessDoes, StopSuspendDoes, RemoveHookDoes, OtherSameBooks DEF SameDisk
<1>2. CASE ParkDone(s) \/ RemoveProcess(s) \/ RemoveStopped(s)
  BY <1>2, ParkDoneDoes, RemoveProcessDoes, RemoveStoppedDoes, OtherSameBooks DEF SameDisk
<1>3. CASE StopDone(s)
  BY <1>3, StopDoneDoes, EndSameBooks
<1>4. CASE \E ok \in BOOLEAN : Park(s, ok)
  <2>1. PICK ok \in BOOLEAN : Park(s, ok)
    BY <1>4
  <2>2. PICK r \in Resource :
            SlotIs(cmd'[s].mem, cmd[s].mem, r, ParkedAs(s, r, ok)[1], cmd[s].mem.slot[r].port)
    BY <2>1, ParkDoes
  <2>3. cmd[s].op = "drop" /\ cmd'[s].op = "drop" /\ cmd'[s].step = "down" /\ rec'[s] = rec[s]
    BY <2>1, ParkDoes DEF SameDisk
  <2>4. Portless(cmd[s].mem) /\ cmd[s].mem.here /\ ParkedAs(s, r, ok)[1] # "none"
    BY <2>3 DEF Working, Books, ParkedAs
  <2>5. Portless(cmd'[s].mem)
    BY <2>2, <2>4, PortlessSet
  <2>6. cmd'[s].mem.here /\ \A q \in Resource : cmd'[s].mem.slot[q].port = rec[s].slot[q].port
    BY <2>2, <2>3, <2>4 DEF SlotIs, Working, Books
  <2> QED
    BY <2>3, <2>5, <2>6, OtherBooks
<1>5. CASE DropDone(s)
  <2>1. cmd[s].op = "drop" /\ cmd'[s] = Rest /\ rec'[s] = cmd[s].mem
    BY <1>5, DropDoneDoes
  <2>2. cmd[s].mem.here /\ Portless(cmd[s].mem)
    BY <2>1 DEF Working, Books
  <2> QED
    BY <2>1, <2>2, EndBooks
<1>6. CASE RemoveState(s)
  <2>1. /\ cmd[s].op = "remove" /\ cmd'[s].op = "remove" /\ cmd'[s].step = "archive"
        /\ cmd'[s].mem = cmd[s].mem /\ rec'[s] = rec[s] /\ Bare(s)'
    BY <1>6, RemoveStateDoes DEF Bare
  <2>2. /\ Portless(cmd[s].mem) /\ cmd[s].mem.here
        /\ \A r \in Resource : cmd[s].mem.slot[r].port = rec[s].slot[r].port
    BY <2>1 DEF Working, Books
  <2> QED
    BY <2>1, <2>2, OtherBooks
<1>7. CASE RemoveRecord(s)
  <2>1. /\ cmd[s].op = "remove" /\ cmd[s].step = "archive" /\ cmd'[s] = Rest
        /\ rec'[s] = Unspawned /\ owed'[s] = owed[s] /\ proc'[s] = proc[s]
    BY <1>7, RemoveRecordDoes
  <2>2. Bare(s)'
    BY <2>1 DEF Working, Books, Bare
  <2> QED
    BY <2>1, <2>2, RestIs, EndBooks
<1> QED
  BY <1>1, <1>2, <1>3, <1>4, <1>5, <1>6, <1>7 DEF TakeDown

LEMMA BringBackWorks ==
    ASSUME StateInv, NEW s \in Slug, Working(s), Phase(cmd'[s]), BringBack(s) PROVE Working(s)'
<1>1. CASE \E ok \in BOOLEAN : Resume(s, ok)
  BY <1>1, ResumeDoes, OtherSameBooks DEF CameIs, FailedIs, StartKeeps, SameDisk
<1>2. CASE \E ok \in BOOLEAN : Restart(s, ok)
  BY <1>2, RestartDoes, OtherSameBooks DEF CameIs, FailedIs, StartKeeps, SameDisk
<1>3. CASE StartDone(s)
  BY <1>3, StartDoneDoes, EndSameBooks
<1> QED
  BY <1>1, <1>2, <1>3 DEF BringBack

\* Nothing but the record changes, while no command is under way, or the
\* state of a process.
LEMMA AsideBooks ==
    ASSUME StateInv, NEW s \in Slug, Working(s), cmd' = cmd, owed'[s] = owed[s],
           \/ /\ cmd[s].op = "idle" /\ rec[s].here /\ rec'[s].here /\ Portless(rec'[s])
           \/ /\ rec'[s] = rec[s]
              /\ (rec[s].here \/ proc'[s] = proc[s])
              /\ (cmd[s].step # "archive" \/ proc'[s] = proc[s])
              /\ \A r \in Resource : Running(s, r)' => Running(s, r)
    PROVE  Working(s)'
<1>1. cmd[s].op = "idle" => cmd[s] = Rest
  BY DEF StateInv, Phase
<1>2. Books(s)'
  BY <1>1, RestIs DEF Books, Working, Binder, Bare
<1>3. Rebinding(s)'
  BY DEF Rebinding, Working, Active
<1> QED
  BY <1>2, <1>3 DEF Working

LEMMA ByHandWorks ==
    ASSUME StateInv, NEW s \in Slug, Working(s), NEW r \in Resource,
           (\E ok \in BOOLEAN : ActPrepare(s, r, ok)) \/ ActStart(s, r) \/ ActStop(s, r)
    PROVE  Working(s)'
<1>1. /\ cmd[s].op = "idle" /\ cmd' = cmd /\ owed'[s] = owed[s] /\ rec[s].here
      /\ \/ rec'[s] = rec[s]
         \/ SlotIs(rec'[s], rec[s], r, "ready", rec[s].slot[r].port)
         \/ SlotIs(rec'[s], rec[s], r, "failed", rec[s].slot[r].port)
  BY ActPrepareDoes, ActStartDoes, ActStopDoes DEF SameDisk
<1>2. Portless(rec[s])
  BY DEF Working, Books
<1>3. Portless(rec'[s]) /\ rec'[s].here
  <2>1. CASE SlotIs(rec'[s], rec[s], r, "ready", rec[s].slot[r].port)
    <3>1. Portless(rec'[s])
      BY <1>2, <2>1, PortlessSet
    <3> QED
      BY <1>1, <2>1, <3>1 DEF SlotIs
  <2>2. CASE SlotIs(rec'[s], rec[s], r, "failed", rec[s].slot[r].port)
    <3>1. Portless(rec'[s])
      BY <1>2, <2>2, PortlessSet
    <3> QED
      BY <1>1, <2>2, <3>1 DEF SlotIs
  <2> QED
    BY <1>1, <1>2, <2>1, <2>2
<1> QED
  BY <1>1, <1>3, AsideBooks

LEMMA DieWorks ==
    ASSUME StateInv, NEW s \in Slug, Working(s), NEW r \in Resource, Die(s, r) PROVE Working(s)'
<1>1. cmd' = cmd /\ Running(s, r) /\ ProcIs(s, r, "died", proc[s][r].port) /\ rec'[s] = rec[s] /\ owed'[s] = owed[s]
  BY DieDoes DEF SameDisk
<1>2. rec[s].here /\ cmd[s].step # "archive"
  BY <1>1, RestIs DEF Working, Books, Bare, Running, NoProc
<1>3. \A q \in Resource : Running(s, q)' => Running(s, q)
  BY <1>1 DEF ProcIs, Running
<1> QED
  BY <1>1, <1>2, <1>3, AsideBooks

LEMMA KillWorks ==
    ASSUME StateInv, NEW s \in Slug, Working(s), Kill(s) PROVE Working(s)'
  BY KillDoes, EndSameBooks DEF Kill, SameDisk

\* The books of an instance no step is of are as they were.
LEMMA WorkingElsewhere ==
    ASSUME NEW t \in Slug, Working(t), rec'[t] = rec[t], owed'[t] = owed[t], proc'[t] = proc[t], cmd'[t] = cmd[t]
    PROVE  Working(t)'
<1>1. Books(t)'
  BY DEF Working, Books, Bare
<1>2. Rebinding(t)'
  BY DEF Working, Rebinding, Running, Active
<1> QED
  BY <1>1, <1>2 DEF Working

\* The steps of one instance; those of a command keep its books.
Turn(s) == Step(s) \/ Give(s) \/ Kill(s) \/ \E r \in Resource : Die(s, r)

LEMMA WorkingStep ==
    ASSUME StateInv, NEW s \in Slug, Working(s), Turn(s) PROVE Working(s)'
<1>m. Phase(cmd'[s])
  BY StepMoves DEF Moves, Turn
<1>1. CASE BindNext(s) \/ ReadClaims(s) \/ SaveClaim(s)
  BY <1>1, BindNextWorks, ReadClaimsWorks, SaveClaimWorks
<1>2. CASE RenderFails(s) \/ RunHook(s) \/ Withhold(s) \/ NothingToRun(s)
  BY <1>2, RenderWorks, RunHookWorks
<1>3. CASE NoPortLeft(s) \/ BindError(s) \/ BindDone(s)
  BY <1>3, GiveUpWorks, BindDoneWorks
<1>4. CASE BootDone(s)
  <2>1. cmd'[s] = Rest /\ rec'[s] = rec[s] /\ cmd[s].op # "idle"
    BY <1>4, BootDoneDoes DEF SameDisk, Binder
  <2> QED
    BY <2>1, EndSameBooks
<1>5. CASE \E ok \in BOOLEAN : HookEnds(s, ok) \/ Boot(s, ok)
  BY <1>5, HookEndsWorks, BootWorks
<1>6. CASE TakeDown(s)
  BY <1>m, <1>6, TakeDownWorks
<1>7. CASE BringBack(s)
  BY <1>m, <1>7, BringBackWorks
<1>8. CASE \E d \in BOOLEAN, only \in {{}, Resource} : Spawn(s, d, only)
  BY <1>8, SpawnWorks
<1>9. CASE Use(s) \/ Drop(s) \/ Stop(s) \/ Start(s) \/ Remove(s)
  BY <1>9, UseWorks, BeginWorks
<1>10. CASE \E r \in Resource : Rebind(s, r) \/ ActStart(s, r) \/ ActStop(s, r) \/ Die(s, r)
  BY <1>10, RebindWorks, ByHandWorks, DieWorks
<1>11. CASE \E r \in Resource, ok \in BOOLEAN : ActPrepare(s, r, ok)
  BY <1>11, ByHandWorks
<1>12. CASE Kill(s)
  BY <1>12, KillWorks
<1> QED
  BY <1>1, <1>2, <1>3, <1>4, <1>5, <1>6, <1>7, <1>8, <1>9, <1>10, <1>11, <1>12
     DEF Turn, Step, Bind, Give

WorkingInv == StateInv /\ \A s \in Slug : Working(s)

LEMMA WorkingNext == WorkingInv /\ [Next]_vars => WorkingInv'
<1> SUFFICES ASSUME WorkingInv, [Next]_vars PROVE WorkingInv'
  OBVIOUS
<1>1. StateInv'
  BY StateNext DEF WorkingInv
<1>2. CASE UNCHANGED vars
  BY <1>1, <1>2, WorkingElsewhere DEF WorkingInv, vars, disk, world
<1>3. CASE Next
  <2>1. PICK s \in Slug : Turn(s)
    BY <1>3 DEF Next, Turn
  <2>2. Elsewhere(s)
    BY <2>1, StepMoves DEF WorkingInv, Moves, Turn
  <2>3. Working(s)'
    BY <2>1, WorkingStep DEF WorkingInv
  <2>4. \A t \in Slug \ {s} : Working(t)'
    BY <2>2, WorkingElsewhere DEF WorkingInv, Elsewhere
  <2> QED
    BY <1>1, <2>3, <2>4 DEF WorkingInv
<1> QED
  BY <1>2, <1>3

LEMMA WorkingInit == Init => WorkingInv
<1> SUFFICES ASSUME Init PROVE WorkingInv
  OBVIOUS
<1>1. StateInv
  BY StateInit
<1>2. ASSUME NEW s \in Slug PROVE Working(s)
  <2>1. cmd[s] = Rest /\ rec[s] = Unspawned /\ owed[s] = {} /\ \A r \in Resource : proc[s][r] = NoProc
    BY DEF Init
  <2>2. Books(s) /\ Rebinding(s)
    BY <2>1, RestIs DEF Books, Rebinding, Bare, Binder
  <2> QED
    BY <2>2 DEF Working
<1> QED
  BY <1>1, <1>2 DEF WorkingInv

LEMMA WorkingCorrect == Spec => []WorkingInv
  BY WorkingInit, WorkingNext, PTL DEF Spec

-----------------------------------------------------------------------------
(* Ports: what a step does to those the record claims, and to those the    *)
(* processes run on.                                                       *)

Keeps(s) ==
    \A r \in Resource : Running(s, r) /\ proc[s][r].port # NoPort => rec[s].slot[r].port = proc[s][r].port

SamePorts(s) == \A r \in Resource : rec'[s].slot[r].port = rec[s].slot[r].port

\* A process that runs after the step ran before, or was started on the port
\* its record claims.
SameOrStarted(s) ==
    \A r \in Resource : Running(s, r)' =>
        \/ Running(s, r) /\ proc'[s][r].port = proc[s][r].port
        \/ proc'[s][r].port = rec[s].slot[r].port

\* The ports of a record change only for a resource that had none, or that
\* does not run.
ClaimsKept(s) ==
    \A r \in Resource : \/ rec'[s].slot[r].port = rec[s].slot[r].port
                        \/ rec[s].slot[r].port = NoPort
                        \/ ~ Running(s, r)'

LEMMA KeepsStep ==
    ASSUME NEW s \in Slug, Keeps(s), SameOrStarted(s), ClaimsKept(s) PROVE Keeps(s)'
<1> SUFFICES ASSUME NEW r \in Resource, Running(s, r)', proc'[s][r].port # NoPort
             PROVE  rec'[s].slot[r].port = proc'[s][r].port
  BY DEF Keeps
<1>1. rec[s].slot[r].port = proc'[s][r].port
  BY DEF Keeps, SameOrStarted
<1> QED
  BY <1>1 DEF ClaimsKept

LEMMA SameKeeps ==
    ASSUME NEW s \in Slug, Keeps(s), SamePorts(s), proc'[s] = proc[s] PROVE Keeps(s)'
  BY DEF Keeps, SamePorts, Running

\* One process changes.
LEMMA ProcKeeps ==
    ASSUME NEW s \in Slug, Keeps(s), SamePorts(s), NEW r \in Resource, NEW state, NEW port,
           ProcIs(s, r, state, port),
           \/ port = rec[s].slot[r].port
           \/ port = proc[s][r].port /\ (state = "running" => Running(s, r))
    PROVE  Keeps(s)'
<1>1. SameOrStarted(s)
  BY DEF SameOrStarted, ProcIs, Running
<1> QED
  BY <1>1, KeepsStep DEF SamePorts, ClaimsKept

LEMMA BindKeepsPort ==
    ASSUME StateInv, NEW s \in Slug, Working(s), Keeps(s),
           \/ BindNext(s) \/ ReadClaims(s) \/ SaveClaim(s)
           \/ RenderFails(s) \/ RunHook(s) \/ Withhold(s) \/ NothingToRun(s)
           \/ BindDone(s) \/ \E ok \in BOOLEAN : HookEnds(s, ok)
    PROVE  Keeps(s)'
<1>1. \A r \in Resource : cmd[s].op # "idle" => cmd[s].mem.slot[r].port = rec[s].slot[r].port
  BY DEF Working, Books
<1>2. CASE BindNext(s) \/ ReadClaims(s) \/ \E ok \in BOOLEAN : HookEnds(s, ok)
  <2>1. rec'[s] = rec[s] /\ proc'[s] = proc[s]
    BY <1>2, BindNextDoes, ReadClaimsDoes, HookEndsDoes DEF SameDisk, SameWorld
  <2> QED
    BY <2>1, SameKeeps DEF SamePorts
<1>3. CASE RenderFails(s) \/ RunHook(s) \/ Withhold(s) \/ NothingToRun(s) \/ BindDone(s)
  <2>1. (rec'[s] = rec[s] \/ rec'[s] = cmd[s].mem) /\ proc'[s] = proc[s] /\ cmd[s].op \in Binder
    BY <1>3, RenderDoes, RunHookDoes, BindDoneDoes DEF SameWorld, SettledAs, BindKeeps
  <2> QED
    BY <1>1, <2>1, SameKeeps DEF SamePorts, Binder
<1>4. CASE SaveClaim(s)
  <2>1. /\ cmd[s].step = "claim" /\ cmd[s].at \in Resource /\ Inserted(s, cmd[s].at, cmd[s].port)
        /\ rec'[s] = cmd'[s].mem /\ proc'[s] = proc[s]
    BY <1>4, SaveClaimDoes DEF SameWorld
  <2>2. cmd[s].op \in Binder /\ SlotIs(rec'[s], cmd[s].mem, cmd[s].at, "pending", cmd[s].port)
    BY <2>1 DEF Inserted, BindKeeps
  <2>3. cmd[s].mem.slot[cmd[s].at].port = NoPort
    BY <2>1 DEF Working, Books, Portless
  <2>4. ClaimsKept(s)
    BY <1>1, <2>1, <2>2, <2>3 DEF ClaimsKept, SlotIs, Binder
  <2>5. SameOrStarted(s)
    BY <2>1 DEF SameOrStarted, Running
  <2> QED
    BY <2>4, <2>5, KeepsStep
<1> QED
  BY <1>2, <1>3, <1>4

LEMMA GiveUpKeepsPort ==
    ASSUME StateInv, NEW s \in Slug, Working(s), Keeps(s), NoPortLeft(s) \/ BindError(s)
    PROVE  Keeps(s)'
<1>1. /\ GiveUp(s) /\ cmd[s].op \in Binder /\ proc'[s] = proc[s] /\ cmd[s].step # "boot"
      /\ ~ (cmd[s].op = "rebind" /\ cmd[s].prev # NoSlot) => rec'[s] = rec[s]
  BY GivesUp, GiveUpDoes DEF SameWorld
<1>2. CASE rec'[s] = rec[s]
  BY <1>1, <1>2, SameKeeps DEF SamePorts
<1>3. CASE rec'[s] # rec[s]
  <2>1. PICK r \in Resource : cmd[s].only = {r} /\ ~ Running(s, r)
    BY <1>1, <1>3 DEF Working, Rebinding
  <2>2. SlotIs(rec'[s], cmd[s].mem, r, cmd[s].prev.state, cmd[s].prev.port)
    BY <1>1, <1>3, <2>1, GiveUpRebindDoes
  <2>3. \A q \in Resource : cmd[s].mem.slot[q].port = rec[s].slot[q].port
    BY <1>1 DEF Working, Books, Binder
  <2>4. ClaimsKept(s)
    BY <1>1, <2>1, <2>2, <2>3 DEF ClaimsKept, SlotIs, Running
  <2>5. SameOrStarted(s)
    BY <1>1 DEF SameOrStarted, Running
  <2> QED
    BY <2>4, <2>5, KeepsStep
<1> QED
  BY <1>2, <1>3

LEMMA BootKeepsPort ==
    ASSUME StateInv, NEW s \in Slug, Working(s), Keeps(s),
           BootDone(s) \/ \E ok \in BOOLEAN : Boot(s, ok)
    PROVE  Keeps(s)'
<1>1. CASE BootDone(s)
  BY <1>1, BootDoneDoes, SameKeeps DEF SameDisk, SameWorld, SamePorts
<1>2. CASE \E ok \in BOOLEAN : Boot(s, ok)
  <2>1. /\ rec'[s] = rec[s] /\ cmd[s].step = "boot"
        /\ \/ proc'[s] = proc[s]
           \/ \E r \in Resource : ProcIs(s, r, "running", cmd[s].mem.slot[r].port)
    BY <1>2, BootDoes DEF SameDisk
  <2>2. cmd[s].mem = rec[s]
    BY <2>1 DEF Working, Books
  <2> QED
    BY <2>1, <2>2, SameKeeps, ProcKeeps DEF SamePorts
<1> QED
  BY <1>1, <1>2

LEMMA TakeDownKeepsPort ==
    ASSUME StateInv, NEW s \in Slug, Working(s), Keeps(s), TakeDown(s) PROVE Keeps(s)'
<1>1. \A r \in Resource : cmd[s].op # "idle" => cmd[s].mem.slot[r].port = rec[s].slot[r].port
  BY DEF Working, Books
<1>2. CASE \E ok \in BOOLEAN : StopSuspend(s, ok) \/ RemoveHook(s, ok)
  BY <1>2, StopSuspendDoes, RemoveHookDoes, SameKeeps DEF SameDisk, SamePorts
<1>3. CASE StopDone(s) \/ ParkDone(s) \/ RemoveProcess(s) \/ RemoveStopped(s)
  BY <1>3, StopDoneDoes, ParkDoneDoes, RemoveProcessDoes, RemoveStoppedDoes, SameKeeps
     DEF SameDisk, SameWorld, SamePorts
<1>4. CASE DropDone(s)
  <2>1. cmd[s].op = "drop" /\ rec'[s] = cmd[s].mem /\ proc'[s] = proc[s]
    BY <1>4, DropDoneDoes DEF SameWorld
  <2> QED
    BY <1>1, <2>1, SameKeeps DEF SamePorts
<1>5. CASE RemoveState(s)
  <2>1. \A r \in Resource : ~ Running(s, r)'
    BY <1>5, RemoveStateDoes DEF Running, NoProc
  <2> QED
    BY <2>1 DEF Keeps
<1>6. CASE RemoveRecord(s)
  <2>1. cmd[s].step = "archive" /\ proc'[s] = proc[s]
    BY <1>6, RemoveRecordDoes
  <2>2. \A r \in Resource : ~ Running(s, r)'
    BY <2>1 DEF Running, NoProc, Working, Books, Bare
  <2> QED
    BY <2>2 DEF Keeps
<1>7. CASE \E ok \in BOOLEAN : DownProcess(s, ok)
  <2>1. PICK r \in Resource : /\ Running(s, r) /\ rec'[s] = rec[s]
                              /\ \/ ProcIs(s, r, "running", proc[s][r].port)
                                 \/ \E state : ProcIs(s, r, state, proc[s][r].port)
    BY <1>7, DownProcessDoes DEF SameDisk
  <2> QED
    BY <2>1, ProcKeeps DEF SamePorts
<1>8. CASE \E ok \in BOOLEAN : Park(s, ok)
  <2>1. PICK r \in Resource :
            /\ rec'[s] = rec[s]
            /\ ProcIs(s, r, IF proc[s][r].state = "halted" THEN "stopped" ELSE proc[s][r].state,
                      proc[s][r].port)
    BY <1>8, ParkDoes DEF SameDisk
  <2> QED
    BY <2>1, ProcKeeps DEF SamePorts, Running
<1> QED
  BY <1>2, <1>3, <1>4, <1>5, <1>6, <1>7, <1>8 DEF TakeDown

LEMMA BringBackKeepsPort ==
    ASSUME StateInv, NEW s \in Slug, Working(s), Keeps(s), BringBack(s) PROVE Keeps(s)'
<1>1. CASE StartDone(s) \/ \E ok \in BOOLEAN : Resume(s, ok)
  BY <1>1, StartDoneDoes, ResumeDoes, SameKeeps DEF SameDisk, SameWorld, SamePorts
<1>2. CASE \E ok \in BOOLEAN : Restart(s, ok)
  <2>1. PICK e \in Entry :
            /\ StartKeeps(s, e) /\ rec'[s] = rec[s]
            /\ proc'[s] = proc[s] \/ ProcIs(s, e[1], "running", cmd[s].mem.slot[e[1]].port)
    BY <1>2, RestartDoes DEF SameDisk, CameIs, FailedIs
  <2>2. cmd[s].mem = rec[s] /\ e[1] \in Resource
    BY <2>1 DEF Working, Books, StartKeeps, Entry
  <2> QED
    BY <2>1, <2>2, SameKeeps, ProcKeeps DEF SamePorts
<1> QED
  BY <1>1, <1>2 DEF BringBack

LEMMA GiveKeepsPort ==
    ASSUME StateInv, NEW s \in Slug, Working(s), Keeps(s), Give(s) PROVE Keeps(s)'
<1>1. CASE \E d \in BOOLEAN, only \in {{}, Resource} : Spawn(s, d, only)
  <2>1. proc'[s] = proc[s] /\ ~ rec[s].here
    BY <1>1, SpawnDoes
  <2>2. \A r \in Resource : ~ Running(s, r)'
    BY <2>1 DEF Running, NoProc, Working, Books, Bare
  <2> QED
    BY <2>2 DEF Keeps
<1>2. CASE Use(s) \/ Drop(s) \/ Stop(s) \/ Start(s) \/ Remove(s)
  <2>1. rec'[s].slot = rec[s].slot /\ proc'[s] = proc[s]
    BY <1>2, UseDoes, DropDoes, StopDoes, StartDoes, RemoveDoes DEF SameDisk, SameWorld
  <2> QED
    BY <2>1, SameKeeps DEF SamePorts
<1>3. CASE \E r \in Resource : Rebind(s, r)
  <2>1. PICK r \in Resource :
            /\ ~ Running(s, r) /\ proc'[s] = proc[s]
            /\ rec'[s] = rec[s] \/ SlotIs(rec'[s], rec[s], r, "none", NoPort)
    BY <1>3, RebindDoes DEF SameWorld
  <2>2. ClaimsKept(s) /\ SameOrStarted(s)
    BY <2>1 DEF ClaimsKept, SameOrStarted, SlotIs, Running
  <2> QED
    BY <2>2, KeepsStep
<1>4. CASE \E r \in Resource : ActStart(s, r)
  BY <1>4, ActStartDoes, ProcKeeps DEF SameDisk, SamePorts
<1>5. CASE \E r \in Resource : ActStop(s, r)
  BY <1>5, ActStopDoes, ProcKeeps DEF SameDisk, SamePorts
<1>6. CASE \E r \in Resource, ok \in BOOLEAN : ActPrepare(s, r, ok)
  <2>1. PICK r \in Resource :
            /\ proc'[s] = proc[s]
            /\ rec'[s] = rec[s] \/ \E state : SlotIs(rec'[s], rec[s], r, state, rec[s].slot[r].port)
    BY <1>6, ActPrepareDoes
  <2>2. SamePorts(s)
    BY <2>1, PortsSet DEF SamePorts
  <2> QED
    BY <2>1, <2>2, SameKeeps
<1> QED
  BY <1>1, <1>2, <1>3, <1>4, <1>5, <1>6 DEF Give

LEMMA KeepsTurn ==
    ASSUME StateInv, NEW s \in Slug, Working(s), Keeps(s), Turn(s) PROVE Keeps(s)'
<1>1. CASE Bind(s)
  BY <1>1, BindKeepsPort, GiveUpKeepsPort, BootKeepsPort DEF Bind
<1>2. CASE TakeDown(s) \/ BringBack(s) \/ Give(s)
  BY <1>2, TakeDownKeepsPort, BringBackKeepsPort, GiveKeepsPort
<1>3. CASE Kill(s)
  BY <1>3, KillDoes, SameKeeps DEF SameDisk, SameWorld, SamePorts
<1>4. CASE \E r \in Resource : Die(s, r)
  BY <1>4, DieDoes, ProcKeeps DEF SameDisk, SamePorts
<1> QED
  BY <1>1, <1>2, <1>3, <1>4 DEF Turn, Step

\* A process newgit knows of runs on a port its instance's record claims for
\* it (ProcessKeepsPort), whatever was dropped, used, rebound, stopped or
\* killed since it started: a record's port changes only for a resource that
\* had none or that does not run.  It rests on Books (a command's memory claims
\* what the record does) and on Rebinding (what a rebind binds does not run).
THEOREM PortsKept == Spec => []ProcessKeepsPort
<1> DEFINE Inv == \A s \in Slug : Keeps(s)
<1>1. Init => Inv
  BY DEF Init, Keeps, Running, NoProc
<1>2. WorkingInv /\ Inv /\ [Next]_vars => Inv'
  <2> SUFFICES ASSUME WorkingInv, Inv, [Next]_vars PROVE Inv'
    OBVIOUS
  <2>1. CASE UNCHANGED vars
    BY <2>1 DEF vars, disk, world, Keeps, Running
  <2>2. CASE Next
    <3>1. PICK s \in Slug : Turn(s)
      BY <2>2 DEF Next, Turn
    <3>2. Elsewhere(s)
      BY <3>1, StepMoves DEF WorkingInv, Moves, Turn
    <3>3. Keeps(s)'
      BY <3>1, KeepsTurn DEF WorkingInv
    <3>4. \A t \in Slug \ {s} : Keeps(t)'
      BY <3>2, SameKeeps DEF Elsewhere, SamePorts
    <3> QED
      BY <3>3, <3>4
  <2> QED
    BY <2>1, <2>2
<1>3. Inv => ProcessKeepsPort
  BY DEF Keeps, ProcessKeepsPort
<1> QED
  BY <1>1, <1>2, <1>3, WorkingCorrect, PTL DEF Spec

-----------------------------------------------------------------------------
(* Ports: no two bindings claim one, while no binding is put back.         *)

\* The step claims no new port.
Shrinks(s) == \A r \in Resource : rec'[s].slot[r].port \in {rec[s].slot[r].port, NoPort}

\* It leaves the port lock alone, and does not begin to claim.
Aside(s) ==
    /\ Shrinks(s) /\ portLock' = portLock
    /\ cmd'[s].step # "claim" \/ cmd' = cmd

LEMMA SameShrinks == ASSUME NEW s, SamePorts(s) PROVE Shrinks(s)
  BY DEF SamePorts, Shrinks

LEMMA EndAside ==
    ASSUME NEW s, cmd'[s] = Rest, portLock' = portLock, Shrinks(s) PROVE Aside(s)
  BY RestIs DEF Aside

LEMMA SettledPorts ==
    ASSUME NEW s \in Slug, Working(s), cmd[s].op # "idle", rec'[s] = rec[s] \/ rec'[s] = cmd[s].mem
    PROVE  Shrinks(s)
  BY DEF Shrinks, Working, Books

LEMMA BindAside ==
    ASSUME StateInv, NEW s \in Slug, Working(s), cmd[s].op # "rebind", Bind(s)
    PROVE  ReadClaims(s) \/ SaveClaim(s) \/ Aside(s)
<1>1. CASE BindNext(s) \/ \E ok \in BOOLEAN : HookEnds(s, ok)
  <2>1. rec'[s] = rec[s] /\ portLock' = portLock /\ cmd'[s].step \in {"render", "bind"}
    BY <1>1, BindNextDoes, HookEndsDoes DEF SameDisk, Inserted, SettledAs
  <2> QED
    BY <2>1 DEF Aside, Shrinks
<1>2. CASE RenderFails(s) \/ RunHook(s) \/ Withhold(s) \/ NothingToRun(s) \/ BindDone(s)
  <2>1. /\ rec'[s] = rec[s] \/ rec'[s] = cmd[s].mem
        /\ cmd[s].op \in Binder /\ portLock' = portLock /\ cmd'[s].step # "claim"
    BY <1>2, RenderDoes, RunHookDoes, BindDoneDoes DEF SettledAs, BindKeeps
  <2> QED
    BY <2>1, SettledPorts DEF Aside, Binder
<1>3. CASE NoPortLeft(s) \/ BindError(s)
  <2>1. cmd'[s] = Rest /\ rec'[s] = rec[s] /\ portLock' = portLock
    BY <1>3, GivesUp, GiveUpDoes
  <2> QED
    BY <2>1, EndAside DEF Shrinks
<1>4. CASE BootDone(s)
  BY <1>4, BootDoneDoes, EndAside DEF SameDisk, Shrinks
<1>5. CASE \E ok \in BOOLEAN : Boot(s, ok)
  BY <1>5, BootDoes DEF SameDisk, Shrinks, Aside
<1> QED
  BY <1>1, <1>2, <1>3, <1>4, <1>5 DEF Bind

LEMMA TakeDownAside ==
    ASSUME StateInv, NEW s \in Slug, Working(s), TakeDown(s) PROVE Aside(s)
<1>1. CASE \E ok \in BOOLEAN : DownProcess(s, ok) \/ StopSuspend(s, ok) \/ Park(s, ok) \/ RemoveHook(s, ok)
  BY <1>1, DownProcessDoes, StopSuspendDoes, ParkDoes, RemoveHookDoes DEF SameDisk, Shrinks, Aside
<1>2. CASE ParkDone(s) \/ RemoveProcess(s) \/ RemoveStopped(s) \/ RemoveState(s)
  BY <1>2, ParkDoneDoes, RemoveProcessDoes, RemoveStoppedDoes, RemoveStateDoes DEF SameDisk, Shrinks, Aside
<1>3. CASE StopDone(s)
  BY <1>3, StopDoneDoes, EndAside DEF Shrinks
<1>4. CASE DropDone(s)
  <2>1. cmd[s].op = "drop" /\ cmd'[s] = Rest /\ rec'[s] = cmd[s].mem /\ portLock' = portLock
    BY <1>4, DropDoneDoes
  <2> QED
    BY <2>1, SettledPorts, EndAside
<1>5. CASE RemoveRecord(s)
  <2>1. cmd'[s] = Rest /\ rec'[s] = Unspawned /\ portLock' = portLock
    BY <1>5, RemoveRecordDoes
  <2> QED
    BY <2>1, RestIs, EndAside DEF Shrinks
<1> QED
  BY <1>1, <1>2, <1>3, <1>4, <1>5 DEF TakeDown

LEMMA BringBackAside ==
    ASSUME StateInv, NEW s \in Slug, BringBack(s) PROVE Aside(s)
<1>1. CASE StartDone(s)
  BY <1>1, StartDoneDoes, EndAside DEF Shrinks
<1>2. CASE \E ok \in BOOLEAN : Resume(s, ok) \/ Restart(s, ok)
  BY <1>2, ResumeDoes, RestartDoes DEF SameDisk, CameIs, FailedIs, StartKeeps, Shrinks, Aside
<1> QED
  BY <1>1, <1>2 DEF BringBack

LEMMA GiveAside ==
    ASSUME StateInv, NEW s \in Slug, Give(s), "rebind" \notin Command PROVE Aside(s)
<1>1. CASE \E d \in BOOLEAN, only \in {{}, Resource} : Spawn(s, d, only)
  BY <1>1, SpawnDoes DEF Begins, NoSlot, Shrinks, Aside
<1>2. CASE Use(s)
  BY <1>2, UseDoes DEF Begins, Shrinks, Aside
<1>3. CASE Drop(s) \/ Stop(s) \/ Start(s) \/ Remove(s)
  BY <1>3, DropDoes, StopDoes, StartDoes, RemoveDoes DEF Begins, SameDisk, Shrinks, Aside
<1>4. CASE \E r \in Resource : Rebind(s, r)
  BY <1>4 DEF Rebind, Loaded, Begin
<1>5. CASE \E r \in Resource : ActStart(s, r) \/ ActStop(s, r)
  BY <1>5, ActStartDoes, ActStopDoes DEF SameDisk, Shrinks, Aside
<1>6. CASE \E r \in Resource, ok \in BOOLEAN : ActPrepare(s, r, ok)
  <2>1. PICK r \in Resource :
            /\ cmd' = cmd /\ portLock' = portLock
            /\ rec'[s] = rec[s] \/ \E state : SlotIs(rec'[s], rec[s], r, state, rec[s].slot[r].port)
    BY <1>6, ActPrepareDoes
  <2>2. SamePorts(s)
    BY <2>1, PortsSet DEF SamePorts
  <2> QED
    BY <2>1, <2>2, SameShrinks DEF Aside
<1> QED
  BY <1>1, <1>2, <1>3, <1>4, <1>5, <1>6 DEF Give

\* No rebind is ever under way, the claims are disjoint, and the port about to
\* be claimed is nobody's.
NoRebind(s) == cmd[s].op # "rebind"
ClaimInv == PortsDisjoint /\ \A s \in Slug : Claiming(s) /\ NoRebind(s)

LEMMA NoRebindTurn ==
    ASSUME StateInv, NEW s \in Slug, NoRebind(s), "rebind" \notin Command, Turn(s)
    PROVE  NoRebind(s)'
<1>1. CASE Bind(s)
  BY <1>1, BindNextDoes, ReadClaimsDoes, SaveClaimDoes, RenderDoes, RunHookDoes, HookEndsDoes,
     GivesUp, GiveUpDoes, BindDoneDoes, BootDoes, BootDoneDoes, RestIs
     DEF Bind, NoRebind, Inserted, SettledAs, BindKeeps
<1>2. CASE TakeDown(s)
  BY <1>2, DownProcessDoes, StopSuspendDoes, ParkDoes, RemoveHookDoes, ParkDoneDoes, RemoveProcessDoes,
     RemoveStoppedDoes, RemoveStateDoes, StopDoneDoes, DropDoneDoes, RemoveRecordDoes, RestIs
     DEF TakeDown, NoRebind
<1>3. CASE BringBack(s)
  BY <1>3, StartDoneDoes, ResumeDoes, RestartDoes, RestIs
     DEF BringBack, NoRebind, CameIs, FailedIs, StartKeeps
<1>4. CASE Give(s)
  <2>1. \A r \in Resource : ~ Rebind(s, r)
    BY DEF Rebind, Loaded, Begin
  <2> QED
    BY <1>4, <2>1, SpawnDoes, UseDoes, DropDoes, StopDoes, StartDoes, RemoveDoes, ActStartDoes, ActStopDoes,
       ActPrepareDoes DEF Give, NoRebind, Begins
<1>5. CASE Kill(s) \/ \E r \in Resource : Die(s, r)
  BY <1>5, KillDoes, DieDoes, RestIs DEF NoRebind
<1> QED
  BY <1>1, <1>2, <1>3, <1>4, <1>5 DEF Turn, Step

LEMMA AsideClaims ==
    ASSUME StateInv, ClaimInv, NEW s \in Slug, Elsewhere(s), Aside(s)
    PROVE  PortsDisjoint' /\ \A t \in Slug : Claiming(t)'
<1>1. \A t \in Slug : \A r \in Resource : rec'[t].slot[r].port \in {rec[t].slot[r].port, NoPort}
  BY DEF Elsewhere, Aside, Shrinks
<1>2. PortsDisjoint'
  <2> SUFFICES ASSUME NEW t \in Slug, NEW u \in Slug, NEW q \in Resource, NEW k \in Resource,
                      rec'[t].slot[q].port # NoPort, rec'[t].slot[q].port = rec'[u].slot[k].port
               PROVE  t = u /\ q = k
    BY DEF PortsDisjoint
  <2>1. rec'[t].slot[q].port = rec[t].slot[q].port /\ rec'[u].slot[k].port = rec[u].slot[k].port
    BY <1>1
  <2>2. rec[t].slot[q].port # NoPort /\ rec[t].slot[q].port = rec[u].slot[k].port
    BY <2>1
  <2>3. PortsDisjoint
    BY DEF ClaimInv
  <2> QED
    BY <2>2, <2>3 DEF PortsDisjoint
<1>3. UsedPorts' \subseteq UsedPorts
  BY <1>1 DEF UsedPorts
<1>4. \A t \in Slug : Claiming(t)'
  BY <1>3 DEF ClaimInv, Claiming, Elsewhere, Aside
<1> QED
  BY <1>2, <1>4

LEMMA ReadClaimsClaims ==
    ASSUME StateInv, ClaimInv, NEW s \in Slug, Elsewhere(s), ReadClaims(s)
    PROVE  PortsDisjoint' /\ \A t \in Slug : Claiming(t)'
<1>1. /\ portLock = "free" /\ portLock' = s /\ rec'[s] = rec[s]
      /\ \E p \in Port \ UsedPorts : cmd'[s].port = p
  BY ReadClaimsDoes DEF SameDisk
<1>2. \A t \in Slug : rec'[t] = rec[t]
  BY <1>1 DEF Elsewhere
<1>3. PortsDisjoint' /\ UsedPorts' = UsedPorts
  BY <1>2 DEF ClaimInv, PortsDisjoint, UsedPorts
<1>4. "free" \notin Slug
  BY ResourcesAssumption
<1>5. \A t \in Slug \ {s} : cmd'[t].step # "claim"
  BY <1>1, <1>4 DEF ClaimInv, Claiming, Elsewhere
<1> QED
  BY <1>1, <1>3, <1>5 DEF Claiming

LEMMA SaveClaimClaims ==
    ASSUME StateInv, ClaimInv, NEW s \in Slug, Working(s), Elsewhere(s), SaveClaim(s)
    PROVE  PortsDisjoint' /\ \A t \in Slug : Claiming(t)'
<1> DEFINE r == cmd[s].at
           p == cmd[s].port
<1>1. /\ cmd[s].step = "claim" /\ r \in Resource /\ cmd[s].op \in Binder
      /\ SlotIs(rec'[s], cmd[s].mem, r, "pending", p) /\ cmd'[s].step = "render"
  BY SaveClaimDoes DEF Inserted, BindKeeps
<1>2. portLock = s /\ p \in Port \ UsedPorts
  BY <1>1 DEF ClaimInv, Claiming
<1>3. \A q \in Resource : cmd[s].mem.slot[q].port = rec[s].slot[q].port
  BY <1>1 DEF Working, Books, Binder
<1> HIDE DEF r, p
<1>4. rec'[s].slot[r].port = p /\ \A q \in Resource \ {r} : rec'[s].slot[q].port = rec[s].slot[q].port
  BY <1>1, <1>3 DEF SlotIs
<1>5. p # NoPort /\ \A t \in Slug : \A q \in Resource : rec[t].slot[q].port # p
  <2>1. NoPort \notin Port
    BY ResourcesAssumption
  <2> QED
    BY <1>2, <2>1 DEF UsedPorts
<1>6. \A t \in Slug \ {s} : rec'[t] = rec[t] /\ cmd'[t] = cmd[t]
  BY DEF Elsewhere
<1>7. PortsDisjoint'
  <2> SUFFICES ASSUME NEW t \in Slug, NEW u \in Slug, NEW q \in Resource, NEW k \in Resource,
                      rec'[t].slot[q].port # NoPort, rec'[t].slot[q].port = rec'[u].slot[k].port
               PROVE  t = u /\ q = k
    BY DEF PortsDisjoint
  <2> DEFINE old(x, y) == x # s \/ y # r
  <2>1. \A x \in Slug : \A y \in Resource : old(x, y) => rec'[x].slot[y].port = rec[x].slot[y].port
    BY <1>4, <1>6
  <2>2. CASE old(t, q) /\ old(u, k)
    BY <2>1, <2>2 DEF ClaimInv, PortsDisjoint
  <2>3. CASE ~ old(t, q) /\ old(u, k)
    BY <1>4, <1>5, <2>1, <2>3
  <2>4. CASE old(t, q) /\ ~ old(u, k)
    BY <1>4, <1>5, <2>1, <2>4
  <2>5. CASE ~ old(t, q) /\ ~ old(u, k)
    BY <2>5
  <2> QED
    BY <2>2, <2>3, <2>4, <2>5
<1>8. \A t \in Slug : cmd'[t].step # "claim"
  BY <1>1, <1>2, <1>6 DEF ClaimInv, Claiming
<1> QED
  BY <1>7, <1>8 DEF Claiming

LEMMA KillClaims ==
    ASSUME StateInv, ClaimInv, NEW s \in Slug, Elsewhere(s), Kill(s)
    PROVE  PortsDisjoint' /\ \A t \in Slug : Claiming(t)'
<1>1. /\ cmd'[s].step # "claim" /\ rec'[s] = rec[s]
      /\ portLock' = IF portLock = s THEN "free" ELSE portLock
  BY KillDoes, RestIs DEF SameDisk
<1>2. \A t \in Slug : rec'[t] = rec[t]
  BY <1>1 DEF Elsewhere
<1>3. PortsDisjoint' /\ UsedPorts' = UsedPorts
  BY <1>2 DEF ClaimInv, PortsDisjoint, UsedPorts
<1> QED
  BY <1>1, <1>3 DEF ClaimInv, Claiming, Elsewhere

\* No two bindings of any instances claim one port (PortsDisjoint), for any
\* number of instances and ports and any kills, while nobody gives a
\* `resource rebind` (which puts back a binding whose port it had let go): the
\* command about to save a claim is the holder of the port lock, and its port
\* is in no record.
THEOREM PortsExclusive ==
    ASSUME "rebind" \notin Command PROVE Spec => []PortsDisjoint
<1>1. Init => ClaimInv
  <2> SUFFICES ASSUME Init PROVE ClaimInv
    OBVIOUS
  <2>1. \A s \in Slug : cmd[s].op = "idle" /\ cmd[s].step = "idle" /\ rec[s] = Unspawned
    BY RestIs DEF Init
  <2> QED
    BY <2>1, RestIs DEF ClaimInv, PortsDisjoint, Claiming, NoRebind
<1>2. WorkingInv /\ ClaimInv /\ [Next]_vars => ClaimInv'
  <2> SUFFICES ASSUME WorkingInv, ClaimInv, [Next]_vars PROVE ClaimInv'
    OBVIOUS
  <2>1. CASE UNCHANGED vars
    <3>1. rec' = rec /\ cmd' = cmd /\ portLock' = portLock
      BY <2>1 DEF vars, disk
    <3> QED
      BY <3>1 DEF ClaimInv, PortsDisjoint, Claiming, NoRebind, UsedPorts
  <2>2. CASE Next
    <3>1. PICK s \in Slug : Turn(s)
      BY <2>2 DEF Next, Turn
    <3>2. StateInv /\ Working(s) /\ Elsewhere(s)
      BY <3>1, StepMoves DEF WorkingInv, Moves, Turn
    <3>3. \A t \in Slug : NoRebind(t)'
      BY <3>1, <3>2, NoRebindTurn DEF ClaimInv, Elsewhere, NoRebind
    <3>4. cmd[s].op # "rebind"
      BY DEF ClaimInv, NoRebind
    <3>5. ReadClaims(s) \/ SaveClaim(s) \/ Kill(s) \/ Aside(s)
      <4>1. CASE Bind(s)
        BY <3>2, <3>4, <4>1, BindAside
      <4>2. CASE TakeDown(s) \/ BringBack(s) \/ Give(s)
        BY <3>2, <4>2, TakeDownAside, BringBackAside, GiveAside
      <4>3. CASE \E r \in Resource : Die(s, r)
        BY <3>2, <4>3, DieDoes DEF Aside, Shrinks, SameDisk
      <4> QED
        BY <3>1, <4>1, <4>2, <4>3 DEF Turn, Step
    <3>6. PortsDisjoint' /\ \A t \in Slug : Claiming(t)'
      BY <3>2, <3>5, AsideClaims, ReadClaimsClaims, SaveClaimClaims, KillClaims
    <3> QED
      BY <3>3, <3>6 DEF ClaimInv
  <2> QED
    BY <2>1, <2>2
<1>3. ClaimInv => PortsDisjoint
  BY DEF ClaimInv
<1> QED
  BY <1>1, <1>2, <1>3, WorkingCorrect, PTL DEF Spec

-----------------------------------------------------------------------------
(* What is owed to `start`.                                                *)

\* Where the stopped record of s is: on disk, or in memory with the command
\* that changes it.
LEMMA OwesIs ==
    ASSUME NEW s, NEW e
    PROVE  /\ cmd[s].op = "stop" \/ (cmd[s].op = "drop" /\ cmd[s].step # "save")
                => (Owes(s, e) <=> e \in cmd[s].owed)
           /\ cmd[s].op = "start" =>
                (Owes(s, e) <=> /\ e \in owed[s]
                                /\ e \in cmd[s].owed \/ (e \in cmd[s].still /\ e[1] \in cmd[s].failed))
           /\ cmd[s].op \notin {"stop", "start", "drop"} \/ (cmd[s].op = "drop" /\ cmd[s].step = "save")
                => (Owes(s, e) <=> e \in owed[s])
  BY DEF Owes

LEMMA OwesThen ==
    ASSUME NEW s, NEW e
    PROVE  /\ cmd'[s].op = "stop" \/ (cmd'[s].op = "drop" /\ cmd'[s].step # "save")
                => (Owes(s, e)' <=> e \in cmd'[s].owed)
           /\ cmd'[s].op = "start" =>
                (Owes(s, e)' <=> /\ e \in owed'[s]
                                 /\ e \in cmd'[s].owed \/ (e \in cmd'[s].still /\ e[1] \in cmd'[s].failed))
           /\ cmd'[s].op \notin {"stop", "start", "drop"} \/ (cmd'[s].op = "drop" /\ cmd'[s].step = "save")
                => (Owes(s, e)' <=> e \in owed'[s])
  BY DEF Owes

\* A resource that a record on disk or in memory has `ready`, or that a rebind
\* may put back so.
Counts(s, r) ==
    LET c == cmd[s]
    IN  \/ c.op \notin {"drop", "remove"} /\ Ready(rec[s], r)
        \/ c.op \in Binder \cup {"drop"} /\ Ready(c.mem, r)
        \/ c.op = "rebind" /\ r \in c.only /\ c.prev.state = "ready"

LEMMA OwingIs ==
    ASSUME NEW s
    PROVE  Owing(s) <=>
               /\ \A r \in Resource : ext[s][r] = "suspended" => r \in Suspends \ Shared
               /\ Sound(s) => \A r \in Resource :
                      /\ proc[s][r].state = "halted" => Owes(s, <<r, "start">>)
                      /\ Counts(s, r) /\ ext[s][r] = "suspended" => Owes(s, <<r, "resume">>)
  BY DEF Owing, Counts, Down

LEMMA OwingThen ==
    ASSUME NEW s
    PROVE  Owing(s)' <=>
               /\ \A r \in Resource : ext'[s][r] = "suspended" => r \in Suspends \ Shared
               /\ Sound(s)' => \A r \in Resource :
                      /\ proc'[s][r].state = "halted" => Owes(s, <<r, "start">>)'
                      /\ Counts(s, r)' /\ ext'[s][r] = "suspended" => Owes(s, <<r, "resume">>)'
  BY DEF Owing, Counts, Down

\* What is taken down was before and stays owed, or is owed now.
LEMMA OwingStep ==
    ASSUME NEW s, Owing(s), Sound(s)' => Sound(s),
           \A r \in Resource : ext'[s][r] = "suspended" => ext[s][r] = "suspended" \/ r \in Suspends \ Shared,
           \A r \in Resource : proc'[s][r].state = "halted" =>
               \/ Owes(s, <<r, "start">>)'
               \/ proc[s][r].state = "halted" /\ (Owes(s, <<r, "start">>) => Owes(s, <<r, "start">>)'),
           \A r \in Resource : Counts(s, r)' /\ ext'[s][r] = "suspended" =>
               \/ Owes(s, <<r, "resume">>)'
               \/ /\ Counts(s, r) /\ ext[s][r] = "suspended"
                  /\ Owes(s, <<r, "resume">>) => Owes(s, <<r, "resume">>)'
    PROVE  Owing(s)'
<1>1. \A r \in Resource : ext'[s][r] = "suspended" => r \in Suspends \ Shared
  BY OwingIs
<1>2. ASSUME Sound(s)', NEW r \in Resource
      PROVE  /\ proc'[s][r].state = "halted" => Owes(s, <<r, "start">>)'
             /\ Counts(s, r)' /\ ext'[s][r] = "suspended" => Owes(s, <<r, "resume">>)'
  <2>1. /\ proc[s][r].state = "halted" => Owes(s, <<r, "start">>)
        /\ Counts(s, r) /\ ext[s][r] = "suspended" => Owes(s, <<r, "resume">>)
    BY <1>2, OwingIs
  <2> QED
    BY <1>2, <2>1
<1> QED
  BY <1>1, <1>2, OwingThen

\* The stopped record and the processes stay, and nothing is newly suspended.
LEMMA OwingStays ==
    ASSUME NEW s, Owing(s), Sound(s)' => Sound(s),
           \A r \in Resource : ext'[s][r] = "suspended" => ext[s][r] = "suspended",
           \A r \in Resource : proc'[s][r].state = "halted" => proc[s][r].state = "halted",
           \A e \in Entry : Owes(s, e) => Owes(s, e)',
           \A r \in Resource : Counts(s, r)' /\ ext'[s][r] = "suspended" => Counts(s, r)
    PROVE  Owing(s)'
<1>1. \A r \in Resource : <<r, "start">> \in Entry /\ <<r, "resume">> \in Entry
  BY DEF Entry
<1> QED
  BY <1>1, OwingStep

\* Nothing is taken down.
LEMMA OwingNone ==
    ASSUME NEW s, \A r \in Resource : ext'[s][r] = "suspended" => ext[s][r] = "suspended", Owing(s),
           \A r \in Resource : proc'[s][r].state # "halted",
           \A r \in Resource : ~ (Counts(s, r)' /\ ext'[s][r] = "suspended")
    PROVE  Owing(s)'
  BY OwingIs, OwingThen

LEMMA BinderOwes ==
    ASSUME NEW s, cmd[s].op \in Binder, cmd'[s].op \in Binder \cup {"idle"}, owed'[s] = owed[s]
    PROVE  \A e \in Entry : Owes(s, e) => Owes(s, e)'
  BY OwesIs, OwesThen DEF Binder

LEMMA CutSound == ASSUME NEW s, cut'[s] = cut[s] PROVE Sound(s)' <=> Sound(s)
  BY DEF Sound

\* A bind that goes on: what counts after it counted before.
LEMMA BindCounts ==
    ASSUME NEW s, BindKeeps(s), rec'[s] \in {rec[s], cmd[s].mem, cmd'[s].mem},
           NEW r \in Resource, Counts(s, r)', Ready(cmd'[s].mem, r) => Ready(cmd[s].mem, r)
    PROVE  Counts(s, r)
  BY DEF Counts, BindKeeps, Binder

LEMMA BindOwing ==
    ASSUME StateInv, NEW s \in Slug, Working(s), Owing(s), Suspends \subseteq Prepares,
           \/ BindNext(s) \/ ReadClaims(s) \/ SaveClaim(s)
           \/ RenderFails(s) \/ RunHook(s) \/ Withhold(s) \/ NothingToRun(s)
           \/ \E ok \in BOOLEAN : HookEnds(s, ok)
    PROVE  Owing(s)'
<1>1. /\ BindKeeps(s) /\ rec'[s] \in {rec[s], cmd[s].mem, cmd'[s].mem} /\ owed'[s] = owed[s]
      /\ proc'[s] = proc[s] /\ cut'[s] = cut[s]
      /\ \A r \in Resource : ext'[s][r] = "suspended" => ext[s][r] = "suspended"
  BY BindNextDoes, ReadClaimsDoes, SaveClaimDoes, RenderDoes, RunHookDoes, HookEndsDoes
     DEF Inserted, SettledAs, SameDisk, SameWorld
<1>2. ASSUME NEW r \in Resource, ext'[s][r] = "suspended", Ready(cmd'[s].mem, r)
      PROVE  Ready(cmd[s].mem, r)
  <2>1. CASE BindNext(s) \/ SaveClaim(s)
    BY <1>2, <2>1, BindNextDoes, SaveClaimDoes DEF Inserted, SlotIs, Ready, Unbound
  <2>2. CASE ReadClaims(s) \/ RunHook(s)
    BY <1>2, <2>2, ReadClaimsDoes, RunHookDoes
  <2>3. CASE RenderFails(s) \/ Withhold(s) \/ NothingToRun(s)
    <3>1. /\ cmd[s].at \in Resource
          /\ \/ SettledAs(s, "failed") \/ SettledAs(s, "pending")
             \/ SettledAs(s, "ready") /\ cmd[s].at \notin Prepares
      BY <2>3, RenderDoes
    <3>2. r \in Suspends
      BY <1>1, <1>2, OwingIs
    <3> QED
      BY <1>2, <3>1, <3>2 DEF SettledAs, SlotIs, Ready
  <2>4. CASE \E ok \in BOOLEAN : HookEnds(s, ok)
    <3>1. /\ cmd[s].at \in Resource
          /\ SettledAs(s, "failed") \/ (SettledAs(s, "ready") /\ ext'[s][cmd[s].at] = "up")
      BY <2>4, HookEndsDoes
    <3> QED
      BY <1>2, <3>1 DEF SettledAs, SlotIs, Ready
  <2> QED
    BY <2>1, <2>2, <2>3, <2>4
<1>3. \A e \in Entry : Owes(s, e) => Owes(s, e)'
  BY <1>1, BinderOwes DEF BindKeeps
<1>4. \A r \in Resource : Counts(s, r)' /\ ext'[s][r] = "suspended" => Counts(s, r)
  BY <1>1, <1>2, BindCounts
<1> QED
  BY <1>1, <1>3, <1>4, CutSound, OwingStays

LEMMA GiveUpOwing ==
    ASSUME StateInv, NEW s \in Slug, Working(s), Owing(s), NoPortLeft(s) \/ BindError(s)
    PROVE  Owing(s)'
<1>1. /\ GiveUp(s) /\ cmd[s].op \in Binder /\ proc'[s] = proc[s] /\ ext'[s] = ext[s] /\ owed'[s] = owed[s]
      /\ cmd'[s] = Rest
      /\ ~ (cmd[s].op = "rebind" /\ cmd[s].prev # NoSlot) => rec'[s] = rec[s] /\ cut'[s] = cut[s]
  BY GivesUp, GiveUpDoes DEF SameWorld
<1>2. cmd'[s].op = "idle"
  BY <1>1, RestIs
<1>3. \A e \in Entry : Owes(s, e) => Owes(s, e)'
  BY <1>1, <1>2, BinderOwes
<1>4. (Sound(s)' => Sound(s)) /\ \A r \in Resource : Counts(s, r)' => Counts(s, r)
  <2>1. CASE cmd[s].op = "rebind" /\ cmd[s].prev # NoSlot
    <3>1. PICK r \in Resource : cmd[s].only = {r}
      BY <2>1 DEF Working, Rebinding
    <3>2. /\ rec'[s] = rec[s] \/ SlotIs(rec'[s], cmd[s].mem, r, cmd[s].prev.state, cmd[s].prev.port)
          /\ cut'[s] \in {cut[s], cut[s] \cup {"rebind"}}
      BY <1>1, <2>1, <3>1, GiveUpRebindDoes
    <3>3. Sound(s)' => Sound(s)
      BY <3>2 DEF Sound
    <3>4. \A q \in Resource : Counts(s, q)' => Counts(s, q)
      BY <1>2, <2>1, <3>1, <3>2 DEF Counts, SlotIs, Ready, Binder
    <3> QED
      BY <3>3, <3>4
  <2>2. CASE ~ (cmd[s].op = "rebind" /\ cmd[s].prev # NoSlot)
    BY <1>1, <1>2, <2>2, CutSound DEF Counts, Binder
  <2> QED
    BY <2>1, <2>2
<1> QED
  BY <1>1, <1>3, <1>4, OwingStays

LEMMA BootOwing ==
    ASSUME StateInv, NEW s \in Slug, Working(s), Owing(s),
           BindDone(s) \/ BootDone(s) \/ \E ok \in BOOLEAN : Boot(s, ok)
    PROVE  Owing(s)'
<1>1. CASE BindDone(s)
  <2>1. /\ cmd[s].op \in Binder /\ cmd'[s].op = cmd[s].op /\ rec'[s] = cmd[s].mem /\ cmd'[s].mem = cmd[s].mem
        /\ cmd'[s].prev = NoSlot /\ owed'[s] = owed[s] /\ SameWorld(s) /\ cut'[s] = cut[s]
    BY <1>1, BindDoneDoes
  <2>2. \A e \in Entry : Owes(s, e) => Owes(s, e)'
    BY <2>1, BinderOwes
  <2>3. \A r \in Resource : Counts(s, r)' => Counts(s, r)
    BY <2>1, RestIs DEF Counts, Binder
  <2> QED
    BY <2>1, <2>2, <2>3, CutSound, OwingStays DEF SameWorld
<1>2. CASE BootDone(s)
  <2>1. cmd[s].op \in Binder /\ cmd'[s].op = "idle" /\ SameDisk(s) /\ SameWorld(s) /\ cut'[s] = cut[s]
    BY <1>2, BootDoneDoes, RestIs
  <2>2. \A e \in Entry : Owes(s, e) => Owes(s, e)'
    BY <2>1, BinderOwes DEF SameDisk
  <2>3. \A r \in Resource : Counts(s, r)' => Counts(s, r)
    BY <2>1 DEF Counts, Binder, SameDisk
  <2> QED
    BY <2>1, <2>2, <2>3, CutSound, OwingStays DEF SameWorld
<1>3. CASE \E ok \in BOOLEAN : Boot(s, ok)
  <2>1. /\ BindKeeps(s) /\ cmd'[s].mem = cmd[s].mem /\ SameDisk(s) /\ ext'[s] = ext[s] /\ cut'[s] = cut[s]
        /\ proc'[s] = proc[s] \/ \E r \in Resource : ProcIs(s, r, "running", cmd[s].mem.slot[r].port)
    BY <1>3, BootDoes
  <2>2. \A e \in Entry : Owes(s, e) => Owes(s, e)'
    BY <2>1, BinderOwes DEF SameDisk, BindKeeps
  <2>3. \A r \in Resource : Counts(s, r)' => Counts(s, r)
    BY <2>1, BindCounts DEF SameDisk
  <2>4. \A r \in Resource : proc'[s][r].state = "halted" => proc[s][r].state = "halted"
    BY <2>1 DEF ProcIs
  <2> QED
    BY <2>1, <2>2, <2>3, <2>4, CutSound, OwingStays
<1> QED
  BY <1>1, <1>2, <1>3

\* A command begins that takes over what the instance owes.
LEMMA GiveOwing ==
    ASSUME StateInv, NEW s \in Slug, Working(s), Owing(s), Give(s) PROVE Owing(s)'
<1>1. CASE \E d \in BOOLEAN, only \in {{}, Resource} : Spawn(s, d, only)
  <2>1. /\ ~ rec[s].here /\ proc'[s] = proc[s]
        /\ \A r \in Resource : ext'[s][r] \in {"absent", "left"}
    BY <1>1, SpawnDoes
  <2>2. \A r \in Resource : proc[s][r] = NoProc
    BY <2>1 DEF Working, Books, Bare
  <2> QED
    BY <2>1, <2>2, OwingNone DEF NoProc
<1>2. CASE Use(s)
  <2>1. /\ cmd[s].op = "idle" /\ cmd'[s].op = "use" /\ rec'[s].slot = rec[s].slot /\ cmd'[s].mem = rec'[s]
        /\ owed'[s] = owed[s] /\ SameWorld(s) /\ cut'[s] = cut[s]
    BY <1>2, UseDoes DEF Begins
  <2>2. \A e \in Entry : Owes(s, e) => Owes(s, e)'
    BY <2>1, OwesIs, OwesThen
  <2>3. \A r \in Resource : Counts(s, r)' => Counts(s, r)
    BY <2>1 DEF Counts, Ready
  <2> QED
    BY <2>1, <2>2, <2>3, CutSound, OwingStays DEF SameWorld
<1>3. CASE \E r \in Resource : Rebind(s, r)
  <2>1. PICK r \in Resource :
            /\ cmd[s].op = "idle" /\ cmd'[s].op = "rebind" /\ cmd'[s].mem = rec'[s] /\ cmd'[s].only = {r}
            /\ \/ cmd'[s].prev = rec[s].slot[r] /\ SlotIs(rec'[s], rec[s], r, "none", NoPort)
               \/ cmd'[s].prev = NoSlot /\ rec'[s] = rec[s]
            /\ owed'[s] = owed[s] /\ SameWorld(s) /\ cut'[s] = cut[s]
    BY <1>3, RebindDoes DEF Begins
  <2>2. \A e \in Entry : Owes(s, e) => Owes(s, e)'
    BY <2>1, OwesIs, OwesThen
  <2>3. \A q \in Resource : Counts(s, q)' => Counts(s, q)
    BY <2>1, RestIs DEF Counts, Ready, SlotIs
  <2> QED
    BY <2>1, <2>2, <2>3, CutSound, OwingStays DEF SameWorld
<1>4. CASE Stop(s) \/ Drop(s) \/ Remove(s) \/ Start(s)
  <2>1. /\ cmd[s].op = "idle" /\ SameDisk(s) /\ SameWorld(s) /\ cut'[s] = cut[s]
        /\ \/ cmd'[s].op = "stop" /\ cmd'[s].owed = owed[s]
           \/ /\ cmd'[s].op = "drop" /\ cmd'[s].step = "down" /\ cmd'[s].owed = owed[s]
              /\ cmd'[s].mem.slot = rec[s].slot
           \/ cmd'[s].op = "remove"
           \/ cmd'[s].op = "start" /\ owed[s] \subseteq cmd'[s].owed
    BY <1>4, StopDoes, DropDoes, RemoveDoes, StartDoes DEF Begins
  <2>2. \A e \in Entry : Owes(s, e) => Owes(s, e)'
    BY <2>1, OwesIs, OwesThen DEF SameDisk
  <2>3. \A r \in Resource : Counts(s, r)' => Counts(s, r)
    BY <2>1 DEF Counts, Ready, SameDisk, Binder
  <2> QED
    BY <2>1, <2>2, <2>3, CutSound, OwingStays DEF SameWorld
<1>5. CASE \E r \in Resource : ActStart(s, r) \/ ActStop(s, r)
  <2>1. PICK r \in Resource :
            /\ cmd' = cmd /\ SameDisk(s) /\ ext'[s] = ext[s] /\ cut'[s] = cut[s]
            /\ \E state \in {"running", "stopped"} : \E port : ProcIs(s, r, state, port)
    BY <1>5, ActStartDoes, ActStopDoes
  <2>2. \A e \in Entry : Owes(s, e) => Owes(s, e)'
    BY <2>1 DEF Owes, SameDisk
  <2>3. \A q \in Resource : Counts(s, q)' => Counts(s, q)
    BY <2>1 DEF Counts, SameDisk
  <2>4. \A q \in Resource : proc'[s][q].state = "halted" => proc[s][q].state = "halted"
    BY <2>1 DEF ProcIs
  <2> QED
    BY <2>1, <2>2, <2>3, <2>4, CutSound, OwingStays
<1>6. CASE \E r \in Resource, ok \in BOOLEAN : ActPrepare(s, r, ok)
  <2>1. PICK r \in Resource :
            /\ cmd' = cmd /\ cmd[s].op = "idle" /\ owed'[s] = owed[s] /\ proc'[s] = proc[s] /\ cut'[s] = cut[s]
            /\ \E v \in {"up", ext[s][r]} :
                   /\ ExtIs(s, r, v)
                   /\ \/ rec'[s] = rec[s]
                      \/ v = "up" /\ SlotIs(rec'[s], rec[s], r, "ready", rec[s].slot[r].port)
                      \/ SlotIs(rec'[s], rec[s], r, "failed", rec[s].slot[r].port)
    BY <1>6, ActPrepareDoes
  <2>2. \A e \in Entry : Owes(s, e) => Owes(s, e)'
    BY <2>1 DEF Owes
  <2>3. \A q \in Resource : ext'[s][q] = "suspended" => ext[s][q] = "suspended"
    BY <2>1 DEF ExtIs
  <2>4. \A q \in Resource : Counts(s, q)' /\ ext'[s][q] = "suspended" => Counts(s, q)
    BY <2>1 DEF Counts, Ready, SlotIs, ExtIs, Binder
  <2> QED
    BY <2>1, <2>2, <2>3, <2>4, CutSound, OwingStays
<1> QED
  BY <1>1, <1>2, <1>3, <1>4, <1>5, <1>6 DEF Give

LEMMA DownOwing ==
    ASSUME StateInv, NEW s \in Slug, Working(s), Owing(s), NEW gone \in BOOLEAN, DownProcess(s, gone)
    PROVE  Owing(s)'
<1>1. PICK r \in Resource :
          /\ cmd[s].op \in {"stop", "drop", "remove"} /\ cmd[s].step = "down"
          /\ cmd'[s].op = cmd[s].op /\ cmd'[s].step = "hook" /\ cmd'[s].mem = cmd[s].mem
          /\ \/ ProcIs(s, r, "running", proc[s][r].port)
             \/ ProcIs(s, r, IF cmd[s].op = "stop" THEN "halted" ELSE "stopped", proc[s][r].port)
          /\ cmd'[s].owed = IF cmd[s].op = "stop" THEN cmd[s].owed \cup {<<r, "start">>} ELSE cmd[s].owed
          /\ SameDisk(s) /\ ext'[s] = ext[s] /\ cut'[s] = cut[s]
  BY DownProcessDoes
<1>2. \A e \in Entry : Owes(s, e) => Owes(s, e)'
  BY <1>1, OwesIs, OwesThen DEF SameDisk
<1>3. \A q \in Resource : Counts(s, q)' => Counts(s, q)
  BY <1>1 DEF Counts, SameDisk, Binder
<1>4. cmd[s].op = "stop" => Owes(s, <<r, "start">>)'
  BY <1>1, OwesThen
<1>5. \A q \in Resource : proc'[s][q].state = "halted" =>
          (q = r /\ cmd[s].op = "stop") \/ proc[s][q].state = "halted"
  BY <1>1 DEF ProcIs
<1>6. \A q \in Resource : <<q, "start">> \in Entry /\ <<q, "resume">> \in Entry
  BY DEF Entry
<1> QED
  BY <1>1, <1>2, <1>3, <1>4, <1>5, <1>6, CutSound, OwingStep

LEMMA SuspendOwing ==
    ASSUME StateInv, NEW s \in Slug, Working(s), Owing(s), NEW ok \in BOOLEAN, StopSuspend(s, ok)
    PROVE  Owing(s)'
<1>1. /\ cmd[s].op = "stop" /\ cmd'[s].op = "stop" /\ cmd'[s].mem = cmd[s].mem
      /\ \/ \E r \in Resource : /\ Suspendable(cmd[s].mem, r) /\ ExtIs(s, r, "suspended")
                                /\ cmd'[s].owed = cmd[s].owed \cup {<<r, "resume">>}
         \/ ext'[s] = ext[s] /\ cmd'[s].owed = cmd[s].owed
      /\ SameDisk(s) /\ proc'[s] = proc[s] /\ cut'[s] = cut[s]
  BY StopSuspendDoes
<1>2. \A e \in Entry : Owes(s, e) => Owes(s, e)'
  BY <1>1, OwesIs, OwesThen
<1>3. \A q \in Resource : Counts(s, q)' => Counts(s, q)
  BY <1>1 DEF Counts, SameDisk, Binder
<1>4. \A q \in Resource : ext'[s][q] = "suspended" =>
          \/ ext[s][q] = "suspended"
          \/ q \in Suspends \ Shared /\ <<q, "resume">> \in cmd'[s].owed
  BY <1>1 DEF ExtIs, Suspendable
<1>5. \A q \in Resource : <<q, "resume">> \in cmd'[s].owed => Owes(s, <<q, "resume">>)'
  BY <1>1, OwesThen
<1>6. \A q \in Resource : <<q, "start">> \in Entry /\ <<q, "resume">> \in Entry
  BY DEF Entry
<1> QED
  BY <1>1, <1>2, <1>3, <1>4, <1>5, <1>6, CutSound, OwingStep

LEMMA ParkOwing ==
    ASSUME StateInv, NEW s \in Slug, Working(s), Owing(s), NEW ok \in BOOLEAN, Park(s, ok)
    PROVE  Owing(s)'
<1>1. PICK r \in Resource :
          /\ cmd[s].op = "drop" /\ cmd[s].step \in {"down", "hook"}
          /\ cmd'[s].op = "drop" /\ cmd'[s].step = "down"
          /\ SlotIs(cmd'[s].mem, cmd[s].mem, r, ParkedAs(s, r, ok)[1], cmd[s].mem.slot[r].port)
          /\ ExtIs(s, r, ParkedAs(s, r, ok)[2])
          /\ ProcIs(s, r, IF proc[s][r].state = "halted" THEN "stopped" ELSE proc[s][r].state,
                    proc[s][r].port)
          /\ cmd'[s].owed = cmd[s].owed \ {<<r, "resume">>, <<r, "start">>}
          /\ cut'[s] = cut[s]
  BY ParkDoes
<1>2. ParkedAs(s, r, ok)[1] # "ready"
  BY DEF ParkedAs
<1>3. ParkedAs(s, r, ok)[2] = "suspended" => ext[s][r] = "suspended" \/ r \in Suspends \ Shared
  BY DEF ParkedAs, Suspendable
<1>4. ~ Counts(s, r)' /\ proc'[s][r].state # "halted"
  BY <1>1, <1>2 DEF Counts, SlotIs, Ready, ProcIs
<1>5. \A q \in Resource \ {r} : /\ Counts(s, q)' => Counts(s, q)
                                /\ proc'[s][q].state = proc[s][q].state /\ ext'[s][q] = ext[s][q]
  BY <1>1 DEF Counts, SlotIs, Ready, ProcIs, ExtIs, Binder
<1>6. \A q \in Resource \ {r} : /\ Owes(s, <<q, "start">>) => Owes(s, <<q, "start">>)'
                                /\ Owes(s, <<q, "resume">>) => Owes(s, <<q, "resume">>)'
  BY <1>1, OwesIs, OwesThen
<1>7. \A q \in Resource : ext'[s][q] = "suspended" => ext[s][q] = "suspended" \/ q \in Suspends \ Shared
  BY <1>1, <1>3, <1>5 DEF ExtIs
<1> QED
  BY <1>1, <1>4, <1>5, <1>6, <1>7, CutSound, OwingStep

LEMMA TakeDownOwing ==
    ASSUME StateInv, NEW s \in Slug, Working(s), Owing(s), TakeDown(s) PROVE Owing(s)'
<1>1. CASE StopDone(s) \/ ParkDone(s) \/ DropDone(s)
  <2>1. /\ \/ /\ cmd[s].op = "stop" /\ cmd'[s].op = "idle" /\ rec'[s] = rec[s]
              /\ owed'[s] = cmd[s].owed
           \/ /\ cmd[s].op = "drop" /\ cmd[s].step = "down" /\ cmd'[s].op = "drop" /\ cmd'[s].step = "save"
              /\ cmd'[s].mem = cmd[s].mem /\ owed'[s] = cmd[s].owed /\ rec'[s] = rec[s]
           \/ /\ cmd[s].op = "drop" /\ cmd[s].step = "save" /\ cmd'[s].op = "idle"
              /\ rec'[s] = cmd[s].mem /\ owed'[s] = owed[s]
        /\ SameWorld(s) /\ cut'[s] = cut[s]
    BY <1>1, StopDoneDoes, ParkDoneDoes, DropDoneDoes, RestIs
  <2>2. \A e \in Entry : Owes(s, e) => Owes(s, e)'
    BY <2>1, OwesIs, OwesThen
  <2>3. \A r \in Resource : Counts(s, r)' => Counts(s, r)
    BY <2>1 DEF Counts, Binder
  <2> QED
    BY <2>1, <2>2, <2>3, CutSound, OwingStays DEF SameWorld
<1>2. CASE RemoveProcess(s) \/ RemoveStopped(s) \/ \E ok \in BOOLEAN : RemoveHook(s, ok)
  <2>1. /\ cmd[s].op = "remove" /\ cmd'[s].op = "remove" /\ SameDisk(s) /\ proc'[s] = proc[s] /\ cut'[s] = cut[s]
        /\ \A r \in Resource : ext'[s][r] = "suspended" => ext[s][r] = "suspended"
    BY <1>2, RemoveProcessDoes, RemoveStoppedDoes, RemoveHookDoes DEF SameWorld, ExtIs
  <2>2. \A e \in Entry : Owes(s, e) => Owes(s, e)'
    BY <2>1, OwesIs, OwesThen DEF SameDisk
  <2>3. \A r \in Resource : ~ Counts(s, r)'
    BY <2>1 DEF Counts, Binder
  <2> QED
    BY <2>1, <2>2, <2>3, CutSound, OwingStays
<1>3. CASE RemoveState(s)
  <2>1. /\ cmd'[s].op = "remove" /\ ext'[s] = ext[s]
        /\ \A r \in Resource : proc'[s][r].state # "halted"
    BY <1>3, RemoveStateDoes DEF NoProc
  <2>2. \A r \in Resource : ~ Counts(s, r)'
    BY <2>1 DEF Counts, Binder
  <2> QED
    BY <2>1, <2>2, OwingNone
<1>4. CASE RemoveRecord(s)
  <2>1. /\ cmd[s].step = "archive" /\ cmd'[s].op = "idle" /\ rec'[s] = Unspawned /\ proc'[s] = proc[s]
        /\ \A r \in Resource : ext'[s][r] \in {"left", ext[s][r]}
    BY <1>4, RemoveRecordDoes, RestIs
  <2>2. \A r \in Resource : proc[s][r] = NoProc
    BY <2>1 DEF Working, Books, Bare
  <2>3. \A r \in Resource : ~ Counts(s, r)'
    BY <2>1, RestIs DEF Counts, Binder, Ready
  <2> QED
    BY <2>1, <2>2, <2>3, OwingNone DEF NoProc
<1>5. CASE \E ok \in BOOLEAN : DownProcess(s, ok) \/ StopSuspend(s, ok) \/ Park(s, ok)
  BY <1>5, DownOwing, SuspendOwing, ParkOwing
<1> QED
  BY <1>1, <1>2, <1>3, <1>4, <1>5 DEF TakeDown

\* One entry of what is owed to `start` is done, or stays owed.
LEMMA StartOwes ==
    ASSUME NEW s, NEW e, StartKeeps(s, e), owed'[s] = owed[s], CameIs(s, e) \/ FailedIs(s, e)
    PROVE  /\ \A f \in Entry \ {e} : Owes(s, f) => Owes(s, f)'
           /\ FailedIs(s, e) => (Owes(s, e) => Owes(s, e)')
  BY OwesIs, OwesThen DEF StartKeeps, CameIs, FailedIs

LEMMA BringBackOwing ==
    ASSUME StateInv, NEW s \in Slug, Working(s), Owing(s), BringBack(s) PROVE Owing(s)'
<1>e. \A q \in Resource : <<q, "start">> \in Entry /\ <<q, "resume">> \in Entry
  BY DEF Entry
<1>1. CASE StartDone(s)
  <2>1. /\ cmd[s].op = "start" /\ cmd[s].owed = {} /\ cmd'[s].op = "idle" /\ owed'[s] = cmd[s].still
        /\ rec'[s] = rec[s] /\ SameWorld(s) /\ cut'[s] = cut[s]
    BY <1>1, StartDoneDoes, RestIs
  <2>2. \A e \in Entry : Owes(s, e) => Owes(s, e)'
    BY <2>1, OwesIs, OwesThen
  <2>3. \A r \in Resource : Counts(s, r)' => Counts(s, r)
    BY <2>1 DEF Counts, Binder
  <2> QED
    BY <2>1, <2>2, <2>3, CutSound, OwingStays DEF SameWorld
<1>2. CASE \E ok \in BOOLEAN : Resume(s, ok)
  <2>1. PICK e \in Entry :
            /\ e[2] = "resume" /\ StartKeeps(s, e)
            /\ \/ CameIs(s, e) /\ ExtIs(s, e[1], "up")
               \/ FailedIs(s, e) /\ ext'[s] = ext[s]
            /\ SameDisk(s) /\ proc'[s] = proc[s] /\ cut'[s] = cut[s]
    BY <1>2, ResumeDoes DEF CameIs, FailedIs
  <2>2. /\ \A f \in Entry \ {e} : Owes(s, f) => Owes(s, f)'
        /\ FailedIs(s, e) => (Owes(s, e) => Owes(s, e)')
    BY <2>1, StartOwes DEF SameDisk
  <2>3. \A r \in Resource : /\ Counts(s, r)' => Counts(s, r)
                            /\ ext'[s][r] = "suspended" => ext[s][r] = "suspended"
    BY <2>1 DEF Counts, StartKeeps, SameDisk, ExtIs, Binder
  <2>4. \A r \in Resource : Owes(s, <<r, "start">>) => Owes(s, <<r, "start">>)'
    <3>1. \A r \in Resource : <<r, "start">> # e
      BY <2>1
    <3> QED
      BY <1>e, <2>2, <3>1
  <2>5. \A r \in Resource : ext'[s][r] = "suspended" =>
            (Owes(s, <<r, "resume">>) => Owes(s, <<r, "resume">>)')
    <3>1. CASE FailedIs(s, e)
      BY <1>e, <2>2, <3>1
    <3>2. CASE ExtIs(s, e[1], "up")
      <4>1. \A r \in Resource : ext'[s][r] = "suspended" => <<r, "resume">> # e
        BY <3>2 DEF ExtIs
      <4> QED
        BY <1>e, <2>2, <4>1
    <3> QED
      BY <2>1, <3>1, <3>2
  <2> QED
    BY <2>1, <2>3, <2>4, <2>5, CutSound, OwingStep
<1>3. CASE \E ok \in BOOLEAN : Restart(s, ok)
  <2>1. PICK e \in Entry :
            /\ e[2] = "start" /\ StartKeeps(s, e)
            /\ \/ CameIs(s, e) /\ proc'[s] = proc[s] /\ Running(s, e[1])
               \/ CameIs(s, e) /\ \E port : ProcIs(s, e[1], "running", port)
               \/ FailedIs(s, e) /\ proc'[s] = proc[s]
            /\ SameDisk(s) /\ ext'[s] = ext[s] /\ cut'[s] = cut[s]
    BY <1>3, RestartDoes DEF CameIs, FailedIs
  <2>2. /\ \A f \in Entry \ {e} : Owes(s, f) => Owes(s, f)'
        /\ FailedIs(s, e) => (Owes(s, e) => Owes(s, e)')
    BY <2>1, StartOwes DEF SameDisk
  <2>3. \A r \in Resource : /\ Counts(s, r)' => Counts(s, r)
                            /\ proc'[s][r].state = "halted" => proc[s][r].state = "halted"
    BY <2>1 DEF Counts, StartKeeps, SameDisk, ProcIs, Binder
  <2>4. \A r \in Resource : Owes(s, <<r, "resume">>) => Owes(s, <<r, "resume">>)'
    <3>1. \A r \in Resource : <<r, "resume">> # e
      BY <2>1
    <3> QED
      BY <1>e, <2>2, <3>1
  <2>5. \A r \in Resource : proc'[s][r].state = "halted" =>
            (Owes(s, <<r, "start">>) => Owes(s, <<r, "start">>)')
    <3>1. CASE FailedIs(s, e)
      BY <1>e, <2>2, <3>1
    <3>2. CASE ~ FailedIs(s, e)
      <4>1. proc'[s][e[1]].state = "running"
        BY <2>1, <3>2 DEF Running, ProcIs
      <4>2. \A r \in Resource : proc'[s][r].state = "halted" => <<r, "start">> # e
        BY <4>1
      <4> QED
        BY <1>e, <2>2, <4>2
    <3> QED
      BY <3>1, <3>2
  <2> QED
    BY <2>1, <2>3, <2>4, <2>5, CutSound, OwingStep
<1> QED
  BY <1>1, <1>2, <1>3 DEF BringBack

LEMMA WorldOwing ==
    ASSUME StateInv, NEW s \in Slug, Owing(s), Kill(s) \/ \E r \in Resource : Die(s, r)
    PROVE  Owing(s)'
<1>1. CASE \E r \in Resource : Die(s, r)
  <2>1. PICK r \in Resource :
            /\ cmd' = cmd /\ SameDisk(s) /\ ext'[s] = ext[s] /\ cut'[s] = cut[s]
            /\ ProcIs(s, r, "died", proc[s][r].port)
    BY <1>1, DieDoes
  <2>2. \A e \in Entry : Owes(s, e) => Owes(s, e)'
    BY <2>1 DEF Owes, SameDisk
  <2>3. \A q \in Resource : Counts(s, q)' => Counts(s, q)
    BY <2>1 DEF Counts, SameDisk
  <2>4. \A q \in Resource : proc'[s][q].state = "halted" => proc[s][q].state = "halted"
    BY <2>1 DEF ProcIs
  <2> QED
    BY <2>1, <2>2, <2>3, <2>4, CutSound, OwingStays
<1>2. CASE Kill(s)
  <2>1. /\ cmd'[s].op = "idle" /\ SameDisk(s) /\ SameWorld(s)
        /\ cut'[s] = cut[s] \cup {cmd[s].op}
    BY <1>2, KillDoes, RestIs
  <2>2. CASE Sound(s)'
    <3>1. Sound(s) /\ cmd[s].op \notin {"stop", "drop", "remove"}
      BY <2>1, <2>2 DEF Sound
    <3>2. \A e \in Entry : Owes(s, e) => Owes(s, e)'
      BY <2>1, <3>1, OwesIs, OwesThen DEF SameDisk
    <3>3. \A r \in Resource : Counts(s, r)' => Counts(s, r)
      BY <2>1, <3>1 DEF Counts, SameDisk, Binder
    <3> QED
      BY <2>1, <3>1, <3>2, <3>3, OwingStays DEF SameWorld
  <2>3. CASE ~ Sound(s)'
    BY <2>1, <2>3, OwingIs, OwingThen DEF SameWorld
  <2> QED
    BY <2>2, <2>3
<1> QED
  BY <1>1, <1>2

LEMMA OwingElsewhere ==
    ASSUME NEW t \in Slug, Owing(t), rec'[t] = rec[t], owed'[t] = owed[t], proc'[t] = proc[t],
           ext'[t] = ext[t], cmd'[t] = cmd[t], cut'[t] = cut[t]
    PROVE  Owing(t)'
<1>1. \A e \in Entry : Owes(t, e) => Owes(t, e)'
  BY DEF Owes
<1>2. \A r \in Resource : Counts(t, r)' => Counts(t, r)
  BY DEF Counts
<1> QED
  BY <1>1, <1>2, CutSound, OwingStays

OwingInv == \A s \in Slug : Owing(s)

LEMMA OwingNext ==
    ASSUME Suspends \subseteq Prepares
    PROVE  WorkingInv /\ OwingInv /\ [Next]_vars => OwingInv'
<1> SUFFICES ASSUME WorkingInv, OwingInv, [Next]_vars PROVE OwingInv'
  OBVIOUS
<1>1. CASE UNCHANGED vars
  BY <1>1, OwingElsewhere DEF OwingInv, vars, disk, world
<1>2. CASE Next
  <2>1. PICK s \in Slug : Turn(s)
    BY <1>2 DEF Next, Turn
  <2>2. StateInv /\ Working(s) /\ Owing(s) /\ Elsewhere(s)
    BY <2>1, StepMoves DEF WorkingInv, OwingInv, Moves, Turn
  <2>3. Owing(s)'
    <3>1. CASE Bind(s)
      BY <2>2, <3>1, BindOwing, GiveUpOwing, BootOwing DEF Bind
    <3>2. CASE TakeDown(s) \/ BringBack(s) \/ Give(s)
      BY <2>2, <3>2, TakeDownOwing, BringBackOwing, GiveOwing
    <3>3. CASE Kill(s) \/ \E r \in Resource : Die(s, r)
      BY <2>2, <3>3, WorldOwing
    <3> QED
      BY <2>1, <3>1, <3>2, <3>3 DEF Turn, Step
  <2>4. \A t \in Slug \ {s} : Owing(t)'
    BY <2>2, OwingElsewhere DEF OwingInv, Elsewhere
  <2> QED
    BY <2>3, <2>4 DEF OwingInv
<1> QED
  BY <1>1, <1>2

LEMMA OwingInit == Init => OwingInv
<1> SUFFICES ASSUME Init, NEW s \in Slug PROVE Owing(s)
  BY DEF OwingInv
<1>1. \A r \in Resource : ext[s][r] = "absent" /\ proc[s][r].state # "halted"
  BY DEF Init, NoProc
<1> QED
  BY <1>1, OwingIs

LEMMA OwingCorrect == ASSUME Suspends \subseteq Prepares PROVE Spec => []OwingInv
<1>1. WorkingInv /\ OwingInv /\ [Next]_vars => OwingInv'
  BY OwingNext
<1> QED
  BY <1>1, OwingInit, WorkingCorrect, PTL DEF Spec

\* What a stop took down is owed to `start` until it is back
\* (NothingForgotten), whatever fails, is dropped, rebound or killed in
\* between, for definitions in which what suspends can also prepare; one that
\* cannot is bound `ready` without its `resume`.  The stopped record is on disk
\* or in the memory of the stop, drop or start under way, and a resource is
\* ready and suspended in no record without an entry there.
THEOREM Remembered ==
    ASSUME Suspends \subseteq Prepares PROVE Spec => []NothingForgotten
<1>1. OwingInv => NothingForgotten
  <2> SUFFICES ASSUME OwingInv, NEW s \in Slug, Quiet(s), NEW r \in Resource
               PROVE  /\ Bound(rec[s], r) /\ proc[s][r].state = "halted" => <<r, "start">> \in owed[s]
                      /\ Ready(rec[s], r) /\ ext[s][r] = "suspended" => <<r, "resume">> \in owed[s]
    BY Zenon DEF NothingForgotten
  <2>1. Owing(s) /\ Sound(s) /\ cmd[s].op = "idle"
    BY DEF OwingInv, Quiet, Sound
  <2>2. \A e : Owes(s, e) <=> e \in owed[s]
    BY <2>1, OwesIs
  <2> QED
    BY <2>1, <2>2, OwingIs DEF Counts
<1> QED
  BY <1>1, OwingCorrect, PTL

-----------------------------------------------------------------------------
(* What a removal tears down.                                              *)

LEMMA TeardownIs ==
    ASSUME NEW m, NEW r \in Resource
    PROVE  r \in Teardown(m) <=> Bound(m, r) \/ m.slot[r].state \in {"suspended", "untouched"}
  BY DEF Teardown, Parked

LEMMA TeardownSame == ASSUME NEW m, NEW n, n.slot = m.slot PROVE Teardown(n) = Teardown(m)
  BY DEF Teardown, Bound

\* A slot that is bound, or parked but cleaned, is torn down.
LEMMA TeardownSet ==
    ASSUME NEW m, NEW n, NEW r \in Resource, NEW state \in Status \cup {"suspended", "untouched"}, NEW port,
           SlotIs(n, m, r, state, port)
    PROVE  r \in Teardown(n) /\ Teardown(m) \subseteq Teardown(n)
<1>1. r \in Teardown(n)
  BY TeardownIs DEF SlotIs, Bound
<1>2. ASSUME NEW q \in Teardown(m) PROVE q \in Teardown(n)
  <2>1. q \in Resource
    BY <1>2 DEF Teardown
  <2> QED
    BY <1>1, <1>2, <2>1, TeardownIs DEF SlotIs, Bound
<1> QED
  BY <1>1, <1>2

\* Only what is in S comes up, or is suspended.
Lifts(s, S) ==
    \A r \in Resource : ext'[s][r] \in {"up", "suspended"} => ext[s][r] \in {"up", "suspended"} \/ r \in S

LEMMA UpGrows == ASSUME NEW s, NEW S, Lifts(s, S) PROVE Up(s)' \subseteq Up(s) \cup S
<1>1. Cleans \subseteq Resource
  BY DEF Cleans, Those
<1> QED
  BY <1>1 DEF Lifts, Up

LEMMA LostNone ==
    ASSUME NEW s PROVE cmd[s].op # "rebind" \/ cmd[s].prev = NoSlot => Lost(s) = {}
  BY DEF Lost

LEMMA LostNoneThen ==
    ASSUME NEW s PROVE cmd'[s].op # "rebind" \/ cmd'[s].prev = NoSlot => Lost(s)' = {}
  BY DEF Lost

LEMMA RestResumes == Resumes(Rest.owed) = {} /\ Resumes({}) = {}
  BY RestIs DEF Resumes

LEMMA WaitsThen == ASSUME NEW s PROVE Waits(s)' = Resumes(owed'[s]) \cup Resumes(cmd'[s].owed)
  BY DEF Waits, Resumes

\* A bind goes on: it takes nothing out of the records.
LEMMA BindLeft ==
    ASSUME NEW s \in Slug, Working(s), Working(s)', Left(s), BindKeeps(s), Phase(cmd'[s]), cut'[s] = cut[s], owed'[s] = owed[s],
           rec'[s] \in {rec[s], cmd[s].mem, cmd'[s].mem}, Teardown(cmd[s].mem) \subseteq Teardown(cmd'[s].mem),
           Lifts(s, Teardown(rec'[s]) \cap Teardown(cmd'[s].mem))
    PROVE  Left(s)'
<1>1. /\ cmd[s].op \in Binder /\ cmd'[s].op \in Binder /\ cmd'[s].step \notin {"clean", "archive"}
      /\ rec[s].here /\ cmd[s].mem.here
  BY DEF BindKeeps, Phase, Working, Books, Binder
<1>2. Lost(s)' = Lost(s)
  BY DEF Lost, BindKeeps
<1>3. Waits(s)' = Waits(s)
  BY WaitsThen DEF Waits, BindKeeps
<1>4. Up(s)' \subseteq Up(s) \cup (Teardown(rec'[s]) \cap Teardown(cmd'[s].mem))
  BY UpGrows
<1>5. ASSUME "rebind" \notin cut[s]
      PROVE  /\ Up(s)' \cup Waits(s)' \subseteq Teardown(rec'[s]) \cup Lost(s)'
             /\ Up(s)' \cup Waits(s)' \subseteq Teardown(cmd'[s].mem) \cup Lost(s)'
  <2>1. /\ Up(s) \cup Waits(s) \subseteq Teardown(rec[s]) \cup Lost(s)
        /\ Up(s) \cup Waits(s) \subseteq Teardown(cmd[s].mem) \cup Lost(s)
    BY <1>1, <1>5 DEF Left
  <2>2. Up(s) \cup Waits(s) \subseteq Teardown(cmd'[s].mem) \cup Lost(s)
    BY <2>1
  <2>3. Up(s) \cup Waits(s) \subseteq Teardown(rec'[s]) \cup Lost(s)
    BY <2>1, <2>2
  <2> QED
    BY <1>2, <1>3, <1>4, <2>2, <2>3
<1>6. rec'[s].here /\ cmd'[s].op # "drop" /\ cmd'[s].op # "start"
  BY <1>1 DEF Working, Books, Binder
<1> QED
  BY <1>1, <1>5, <1>6 DEF Left

\* The record stays, while nothing is lost: what comes up or waits is torn down
\* from it, and so is what a removal has still to clean.
LEMMA RemainLeft ==
    ASSUME NEW s \in Slug, Left(s), cut'[s] = cut[s], rec'[s] = rec[s], rec[s].here, Lost(s) = {},
           cmd'[s].op \notin Binder \cup {"drop"}, Lifts(s, Teardown(rec[s])),
           Waits(s)' \subseteq Waits(s) \cup Teardown(rec[s]),
           cmd'[s].op = "start" =>
               /\ Resumes(cmd'[s].still) \subseteq Waits(s) \cup Resumes(cmd[s].still)
               /\ cmd[s].op # "start" => Resumes(cmd'[s].still) = {},
           "rebind" \notin cut[s] =>
               /\ cmd'[s].step = "clean" => Up(s)' \subseteq cmd'[s].todo \cup cmd'[s].failed
               /\ cmd'[s].step = "archive" => Up(s)' \subseteq cmd'[s].failed
    PROVE  Left(s)'
<1>1. Up(s)' \subseteq Up(s) \cup Teardown(rec[s])
  BY UpGrows
<1>2. ASSUME "rebind" \notin cut[s]
      PROVE  /\ Up(s)' \cup Waits(s)' \subseteq Teardown(rec[s])
             /\ cmd'[s].op = "start" => Resumes(cmd'[s].still) \subseteq Teardown(rec[s])
  <2>1. /\ Up(s) \cup Waits(s) \subseteq Teardown(rec[s])
        /\ cmd[s].op = "start" => Resumes(cmd[s].still) \subseteq Teardown(rec[s])
    BY <1>2 DEF Left
  <2> QED
    BY <1>1, <2>1
<1> QED
  BY <1>2 DEF Left

LEMMA BindsLeft ==
    ASSUME StateInv, NEW s \in Slug, Working(s), Working(s)', Left(s), Phase(cmd'[s]),
           \/ BindNext(s) \/ ReadClaims(s) \/ SaveClaim(s)
           \/ RenderFails(s) \/ RunHook(s) \/ Withhold(s) \/ NothingToRun(s)
           \/ \E ok \in BOOLEAN : HookEnds(s, ok)
    PROVE  Left(s)'
<1>1. /\ BindKeeps(s) /\ rec'[s] \in {rec[s], cmd[s].mem, cmd'[s].mem} /\ owed'[s] = owed[s] /\ cut'[s] = cut[s]
  BY BindNextDoes, ReadClaimsDoes, SaveClaimDoes, RenderDoes, RunHookDoes, HookEndsDoes
     DEF Inserted, SettledAs, SameDisk, SameWorld
<1>2. Teardown(cmd[s].mem) \subseteq Teardown(cmd'[s].mem)
  <2>1. CASE BindNext(s) \/ SaveClaim(s)
    <3>1. \E r \in Resource : \E port : SlotIs(cmd'[s].mem, cmd[s].mem, r, "pending", port)
      BY <2>1, BindNextDoes, SaveClaimDoes DEF Inserted, Unbound
    <3> QED
      BY <3>1, TeardownSet DEF Status
  <2>2. CASE ReadClaims(s) \/ RunHook(s)
    BY <2>2, ReadClaimsDoes, RunHookDoes
  <2>3. CASE RenderFails(s) \/ Withhold(s) \/ NothingToRun(s) \/ \E ok \in BOOLEAN : HookEnds(s, ok)
    <3>1. \E r \in Resource, state \in Status : \E port : SlotIs(cmd'[s].mem, cmd[s].mem, r, state, port)
      BY <2>3, RenderDoes, HookEndsDoes DEF SettledAs, Status
    <3> QED
      BY <3>1, TeardownSet
  <2> QED
    BY <2>1, <2>2, <2>3
<1>3. Lifts(s, Teardown(rec'[s]) \cap Teardown(cmd'[s].mem))
  <2>1. CASE ~ \E ok \in BOOLEAN : HookEnds(s, ok)
    BY <2>1, BindNextDoes, ReadClaimsDoes, SaveClaimDoes, RenderDoes, RunHookDoes DEF SameWorld, Lifts
  <2>2. CASE \E ok \in BOOLEAN : HookEnds(s, ok)
    <3>1. /\ cmd[s].step \in {"resume", "prepare"} /\ cmd[s].at \in Resource /\ rec'[s] = rec[s]
          /\ \A q \in Resource \ {cmd[s].at} : ext'[s][q] = ext[s][q]
      BY <2>2, HookEndsDoes DEF SameDisk
    <3>2. cmd[s].mem = rec[s] /\ cmd[s].mem.slot[cmd[s].at].state = "pending"
      BY <3>1 DEF Working, Books
    <3>3. cmd[s].at \in Teardown(cmd[s].mem)
      BY <3>1, <3>2, TeardownIs DEF Bound, Status
    <3> QED
      BY <1>2, <3>1, <3>2, <3>3 DEF Lifts
  <2> QED
    BY <2>1, <2>2
<1> QED
  BY <1>1, <1>2, <1>3, BindLeft

\* A command ends with the record rec' and what it owes: nothing is lost.
LEMMA EndLeft ==
    ASSUME NEW s \in Slug, cmd'[s] = Rest, ext'[s] = ext[s], rec'[s].here,
           "rebind" \notin cut'[s] => Up(s) \cup Resumes(owed'[s]) \subseteq Teardown(rec'[s])
    PROVE  Left(s)'
<1>1. Up(s)' = Up(s)
  BY DEF Up
<1>2. Waits(s)' = Resumes(owed'[s])
  BY WaitsThen, RestResumes
<1>3. /\ cmd'[s].op \notin Binder \cup {"drop", "start"} /\ cmd'[s].step \notin {"clean", "archive"}
  BY RestIs DEF Binder
<1> QED
  BY <1>1, <1>2, <1>3 DEF Left

LEMMA GiveUpLeft ==
    ASSUME StateInv, NEW s \in Slug, Working(s), Left(s), NoPortLeft(s) \/ BindError(s)
    PROVE  Left(s)'
<1>1. /\ GiveUp(s) /\ cmd[s].op \in Binder /\ ext'[s] = ext[s] /\ owed'[s] = owed[s] /\ cmd'[s] = Rest
      /\ ~ (cmd[s].op = "rebind" /\ cmd[s].prev # NoSlot) => rec'[s] = rec[s] /\ cut'[s] = cut[s]
  BY GivesUp, GiveUpDoes DEF SameWorld
<1>2. rec[s].here /\ cmd[s].mem.here
  BY <1>1 DEF Working, Books, Binder
<1>3. Resumes(owed[s]) \subseteq Waits(s)
  BY DEF Waits
<1>4. CASE ~ (cmd[s].op = "rebind" /\ cmd[s].prev # NoSlot)
  <2>1. Lost(s) = {}
    BY <1>4, LostNone
  <2>2. "rebind" \notin cut[s] => Up(s) \cup Waits(s) \subseteq Teardown(rec[s])
    BY <1>2, <2>1 DEF Left
  <2> QED
    BY <1>1, <1>2, <1>3, <1>4, <2>2, EndLeft
<1>5. CASE cmd[s].op = "rebind" /\ cmd[s].prev # NoSlot
  <2>1. PICK r \in Resource : cmd[s].only = {r}
    BY <1>5 DEF Working, Rebinding
  <2>2. /\ \/ rec'[s] = rec[s]
           \/ SlotIs(rec'[s], cmd[s].mem, r, cmd[s].prev.state, cmd[s].prev.port)
        /\ cut'[s] = IF Bound(rec'[s], r) THEN cut[s] ELSE cut[s] \cup {"rebind"}
    BY <1>1, <1>5, <2>1, GiveUpRebindDoes
  <2>3. Lost(s) = {r}
    BY <1>5, <2>1 DEF Lost
  <2>4. cmd[s].prev.state \in Status
    BY <1>5 DEF Working, Rebinding
  <2>5. rec'[s].here
    BY <1>2, <2>2 DEF SlotIs
  <2>6. ASSUME "rebind" \notin cut'[s] PROVE Up(s) \cup Resumes(owed'[s]) \subseteq Teardown(rec'[s])
    <3>1. "rebind" \notin cut[s] /\ Bound(rec'[s], r)
      BY <2>2, <2>6
    <3>2. r \in Teardown(rec'[s])
      BY <3>1, TeardownIs
    <3>3. /\ Up(s) \cup Waits(s) \subseteq Teardown(rec[s]) \cup {r}
          /\ Up(s) \cup Waits(s) \subseteq Teardown(cmd[s].mem) \cup {r}
      BY <1>1, <1>2, <2>3, <3>1 DEF Left
    <3>4. Teardown(rec[s]) \subseteq Teardown(rec'[s]) \/ Teardown(cmd[s].mem) \subseteq Teardown(rec'[s])
      <4>1. CASE rec'[s] = rec[s]
        BY <4>1
      <4>2. CASE SlotIs(rec'[s], cmd[s].mem, r, cmd[s].prev.state, cmd[s].prev.port)
        <5>1. \E state \in Status : \E port : SlotIs(rec'[s], cmd[s].mem, r, state, port)
          BY <2>4, <4>2
        <5> QED
          BY <5>1, TeardownSet
      <4> QED
        BY <2>2, <4>1, <4>2
    <3> QED
      BY <1>1, <1>3, <3>2, <3>3, <3>4
  <2> QED
    BY <1>1, <2>5, <2>6, EndLeft
<1> QED
  BY <1>4, <1>5

LEMMA BootLeft ==
    ASSUME StateInv, NEW s \in Slug, Working(s), Working(s)', Left(s), Phase(cmd'[s]),
           BindDone(s) \/ BootDone(s) \/ \E ok \in BOOLEAN : Boot(s, ok)
    PROVE  Left(s)'
<1>1. CASE BindDone(s)
  <2>1. /\ cmd[s].op \in Binder /\ Unbound(cmd[s].mem) = {} /\ rec'[s] = cmd[s].mem /\ owed'[s] = owed[s]
        /\ cmd'[s].op = cmd[s].op /\ cmd'[s].step = "boot" /\ cmd'[s].mem = cmd[s].mem
        /\ cmd'[s].prev = NoSlot /\ cmd'[s].owed = cmd[s].owed /\ ext'[s] = ext[s] /\ cut'[s] = cut[s]
    BY <1>1, BindDoneDoes DEF SameWorld
  <2>2. Lost(s) \subseteq Teardown(cmd[s].mem)
    <3>1. CASE Lost(s) = {}
      BY <3>1
    <3>2. CASE Lost(s) # {}
      <4>1. cmd[s].op = "rebind"
        BY <3>2 DEF Lost
      <4>2. PICK r \in Resource : cmd[s].only = {r} /\ Active(rec[s], r)
        BY <4>1 DEF Working, Rebinding
      <4>3. cmd[s].mem.dropped = rec[s].dropped
        BY <2>1 DEF Working, Books
      <4>4. Bound(cmd[s].mem, r)
        BY <2>1, <4>2, <4>3 DEF Unbound, Active
      <4> QED
        BY <4>2, <4>4, TeardownIs DEF Lost
    <3> QED
      BY <3>1, <3>2
  <2>3. "rebind" \notin cut[s] => Up(s) \cup Waits(s) \subseteq Teardown(cmd[s].mem)
    BY <2>1, <2>2 DEF Left
  <2>4. Up(s)' = Up(s) /\ Waits(s)' = Waits(s)
    BY <2>1, WaitsThen DEF Up, Waits
  <2>5. rec'[s].here /\ cmd'[s].op # "drop" /\ cmd'[s].op # "start"
    BY <2>1 DEF Working, Books, Binder
  <2> QED
    BY <2>1, <2>3, <2>4, <2>5 DEF Left
<1>2. CASE BootDone(s)
  <2>1. /\ cmd[s].step = "boot" /\ cmd[s].op \in Binder /\ cmd'[s] = Rest /\ rec'[s] = rec[s] /\ owed'[s] = owed[s]
        /\ ext'[s] = ext[s] /\ cut'[s] = cut[s]
    BY <1>2, BootDoneDoes DEF SameDisk, SameWorld
  <2>2. rec[s].here /\ Lost(s) = {}
    BY <2>1, LostNone DEF Working, Books, Rebinding, Binder
  <2>3. "rebind" \notin cut[s] => Up(s) \cup Resumes(owed[s]) \subseteq Teardown(rec[s])
    BY <2>2 DEF Left, Waits
  <2> QED
    BY <2>1, <2>2, <2>3, EndLeft
<1>3. CASE \E ok \in BOOLEAN : Boot(s, ok)
  <2>1. /\ BindKeeps(s) /\ cmd'[s].mem = cmd[s].mem /\ rec'[s] = rec[s] /\ owed'[s] = owed[s]
        /\ ext'[s] = ext[s] /\ cut'[s] = cut[s]
    BY <1>3, BootDoes DEF SameDisk
  <2>2. Lifts(s, Teardown(rec'[s]) \cap Teardown(cmd'[s].mem))
    BY <2>1 DEF Lifts
  <2> QED
    BY <2>1, <2>2, BindLeft
<1> QED
  BY <1>1, <1>2, <1>3

\* `start` begins with nothing tried.
LEMMA StartStill == ASSUME StateInv, NEW s \in Slug, Start(s) PROVE cmd'[s].still = {}
<1>1. PICK entries : Go(s, [Rest EXCEPT !.op = "start", !.step = "up", !.mem = rec[s], !.owed = entries])
  BY Zenon DEF Start
<1>2. cmd'[s] = [Rest EXCEPT !.op = "start", !.step = "up", !.mem = rec[s], !.owed = entries]
  BY <1>1, GoIs DEF StateInv
<1> QED
  BY <1>2 DEF Rest

LEMMA GiveLeft ==
    ASSUME StateInv, NEW s \in Slug, Working(s), Left(s), ~ WhileParked, Give(s) PROVE Left(s)'
<1>1. CASE \E d \in BOOLEAN, only \in {{}, Resource} : Spawn(s, d, only)
  <2>1. /\ ~ rec[s].here /\ cmd'[s].op = "spawn" /\ cmd'[s].step = "bind" /\ rec'[s].here
        /\ cmd'[s].owed = {} /\ owed'[s] = owed[s]
        /\ \A r \in Resource : ext'[s][r] \in {"absent", "left"}
    BY <1>1, SpawnDoes DEF Begins
  <2>2. owed[s] = {}
    BY <2>1 DEF Working, Books, Bare
  <2>3. Up(s)' = {} /\ Waits(s)' = {}
    BY <2>1, <2>2, WaitsThen, RestResumes DEF Up, Cleans, Those
  <2> QED
    BY <2>1, <2>3 DEF Left
<1>2. CASE Use(s)
  <2>1. /\ cmd[s].op = "idle" /\ rec[s].here /\ cmd'[s].op = "use" /\ cmd'[s].step = "bind" /\ rec'[s].here
        /\ rec'[s].slot = rec[s].slot /\ cmd'[s].mem = rec'[s] /\ cmd'[s].owed = {}
        /\ owed'[s] = owed[s] /\ ext'[s] = ext[s] /\ cut'[s] = cut[s]
    BY <1>2, UseDoes DEF Begins, SameWorld
  <2>2. Teardown(rec'[s]) = Teardown(rec[s])
    BY <2>1, TeardownSame
  <2>3. "rebind" \notin cut[s] => Up(s) \cup Waits(s) \subseteq Teardown(rec[s])
    BY <2>1, LostNone DEF Left
  <2>4. Up(s)' = Up(s) /\ Waits(s)' \subseteq Waits(s)
    BY <2>1, WaitsThen, RestResumes DEF Up, Waits
  <2> QED
    BY <2>1, <2>2, <2>3, <2>4 DEF Left
<1>3. CASE \E r \in Resource : Rebind(s, r)
  <2>1. PICK r \in Resource :
            /\ cmd[s].op = "idle" /\ rec[s].here /\ cmd'[s].op = "rebind" /\ cmd'[s].step = "bind"
            /\ cmd'[s].mem = rec'[s] /\ cmd'[s].only = {r} /\ cmd'[s].owed = {}
            /\ \/ /\ Bound(rec[s], r) /\ cmd'[s].prev = rec[s].slot[r]
                  /\ SlotIs(rec'[s], rec[s], r, "none", NoPort)
               \/ rec'[s] = rec[s]
            /\ owed'[s] = owed[s] /\ ext'[s] = ext[s] /\ cut'[s] = cut[s]
    BY <1>3, RebindDoes DEF Begins, SameWorld
  <2>2. "rebind" \notin cut[s] => Up(s) \cup Waits(s) \subseteq Teardown(rec[s])
    BY <2>1, LostNone DEF Left
  <2>3. Up(s)' = Up(s) /\ Waits(s)' \subseteq Waits(s)
    BY <2>1, WaitsThen, RestResumes DEF Up, Waits
  <2>4. Teardown(rec[s]) \subseteq Teardown(rec'[s]) \cup Lost(s)'
    <3>1. CASE Bound(rec[s], r) /\ cmd'[s].prev = rec[s].slot[r] /\ SlotIs(rec'[s], rec[s], r, "none", NoPort)
      <4>1. r \in Lost(s)'
        <5>1. cmd'[s].prev # NoSlot
          BY <3>1 DEF Bound, NoSlot, Status
        <5> QED
          BY <2>1, <5>1 DEF Lost
      <4>2. \A q \in Resource \ {r} : q \in Teardown(rec[s]) => q \in Teardown(rec'[s])
        BY <3>1, TeardownIs DEF SlotIs, Bound
      <4> QED
        BY <4>1, <4>2 DEF Teardown
    <3>2. CASE rec'[s] = rec[s]
      BY <3>2
    <3> QED
      BY <2>1, <3>1, <3>2
  <2>5. rec'[s].here
    BY <2>1 DEF SlotIs
  <2> QED
    BY <2>1, <2>2, <2>3, <2>4, <2>5 DEF Left
<1>4. CASE Stop(s) \/ Remove(s) \/ Start(s)
  <2>1. /\ cmd[s].op = "idle" /\ rec[s].here /\ rec'[s] = rec[s] /\ owed'[s] = owed[s]
        /\ cmd'[s].op \in {"stop", "remove", "start"} /\ cmd'[s].step \in {"down", "up"}
        /\ \A r \in Resource : <<r, "resume">> \in cmd'[s].owed => <<r, "resume">> \in owed[s]
        /\ ext'[s] = ext[s] /\ cut'[s] = cut[s]
    BY <1>4, StopDoes, RemoveDoes, StartDoes DEF Begins, SameDisk, SameWorld
  <2>2. cmd'[s].op = "start" => cmd'[s].still = {}
    BY <1>4, StopDoes, RemoveDoes, StartStill DEF Begins
  <2>3. Waits(s)' \subseteq Waits(s)
    BY <2>1, WaitsThen DEF Waits, Resumes
  <2>4. Lost(s) = {} /\ Lifts(s, Teardown(rec[s]))
    BY <2>1, LostNone DEF Lifts
  <2> QED
    BY <2>1, <2>2, <2>3, <2>4, RestResumes, RemainLeft DEF Binder
<1>5. CASE Drop(s)
  <2>1. /\ cmd[s].op = "idle" /\ rec[s].here /\ rec'[s] = rec[s] /\ owed'[s] = owed[s]
        /\ cmd'[s].op = "drop" /\ cmd'[s].step = "down" /\ cmd'[s].owed = owed[s]
        /\ cmd'[s].mem.slot = rec[s].slot /\ ext'[s] = ext[s] /\ cut'[s] = cut[s]
    BY <1>5, DropDoes DEF Begins, SameDisk, SameWorld
  <2>2. "rebind" \notin cut[s] => Up(s) \cup Waits(s) \subseteq Teardown(rec[s])
    BY <2>1, LostNone DEF Left
  <2>3. Up(s)' = Up(s) /\ Waits(s)' \subseteq Waits(s) /\ Resumes(cmd'[s].owed) \subseteq Waits(s)
    BY <2>1, WaitsThen DEF Up, Waits
  <2>4. Teardown(cmd'[s].mem) = Teardown(rec[s]) /\ \A r \in Resource : Bound(cmd'[s].mem, r) => Bound(rec[s], r)
    BY <2>1, TeardownSame DEF Bound
  <2> QED
    BY <2>1, <2>2, <2>3, <2>4 DEF Left, Binder
<1>6. CASE \E r \in Resource : ActStart(s, r) \/ ActStop(s, r)
  <2>1. /\ cmd[s].op = "idle" /\ cmd' = cmd /\ rec[s].here /\ rec'[s] = rec[s] /\ owed'[s] = owed[s]
        /\ ext'[s] = ext[s] /\ cut'[s] = cut[s]
    BY <1>6, ActStartDoes, ActStopDoes DEF SameDisk
  <2> QED
    BY <2>1 DEF Left, Up, Waits, Lost
<1>7. CASE \E r \in Resource, ok \in BOOLEAN : ActPrepare(s, r, ok)
  <2>1. PICK r \in Resource :
            /\ cmd[s].op = "idle" /\ cmd' = cmd /\ rec[s].here /\ Bound(rec[s], r)
            /\ \E v : ExtIs(s, r, v)
            /\ \/ rec'[s] = rec[s]
               \/ \E state \in Status : SlotIs(rec'[s], rec[s], r, state, rec[s].slot[r].port)
            /\ owed'[s] = owed[s] /\ cut'[s] = cut[s]
    BY <1>7, ActPrepareDoes DEF Status
  <2>2. Teardown(rec[s]) \subseteq Teardown(rec'[s]) /\ r \in Teardown(rec[s])
    <3>1. r \in Teardown(rec[s])
      BY <2>1, TeardownIs
    <3>2. CASE \E state \in Status : SlotIs(rec'[s], rec[s], r, state, rec[s].slot[r].port)
      BY <3>1, <3>2, TeardownSet
    <3> QED
      BY <2>1, <3>1, <3>2
  <2>3. "rebind" \notin cut[s] => Up(s) \cup Waits(s) \subseteq Teardown(rec[s])
    BY <2>1, LostNone DEF Left
  <2>4. Up(s)' \subseteq Up(s) \cup {r} /\ Waits(s)' = Waits(s)
    BY <2>1, WaitsThen DEF Up, Waits, ExtIs, Cleans, Those
  <2>5. cmd[s] = Rest
    BY <2>1 DEF StateInv, Phase
  <2>6. rec'[s].here /\ cmd'[s].op \notin Binder \cup {"drop", "start"} /\ cmd'[s].step \notin {"clean", "archive"}
    BY <2>1, <2>5, RestIs DEF Binder, SlotIs
  <2> QED
    BY <2>1, <2>2, <2>3, <2>4, <2>6 DEF Left
<1> QED
  BY <1>1, <1>2, <1>3, <1>4, <1>5, <1>6, <1>7 DEF Give

\* What a command other than a rebind has to tear down is in the record.
LEMMA InRecord ==
    ASSUME NEW s \in Slug, Working(s), Left(s), cmd[s].op \notin {"idle", "rebind"}
    PROVE  /\ rec[s].here /\ Lost(s) = {}
           /\ "rebind" \notin cut[s] => Up(s) \cup Waits(s) \subseteq Teardown(rec[s])
<1>1. rec[s].here /\ Lost(s) = {}
  BY LostNone DEF Working, Books
<1> QED
  BY <1>1 DEF Left

LEMMA StopLeft ==
    ASSUME StateInv, NEW s \in Slug, Working(s), Left(s),
           StopDone(s) \/ \E ok \in BOOLEAN : StopSuspend(s, ok)
    PROVE  Left(s)'
<1>1. CASE StopDone(s)
  <2>1. /\ cmd[s].op = "stop" /\ cmd'[s] = Rest /\ owed'[s] = cmd[s].owed /\ rec'[s] = rec[s]
        /\ ext'[s] = ext[s] /\ cut'[s] = cut[s]
    BY <1>1, StopDoneDoes DEF SameWorld
  <2>2. rec[s].here /\ ("rebind" \notin cut[s] => Up(s) \cup Waits(s) \subseteq Teardown(rec[s]))
    BY <2>1, InRecord
  <2> QED
    BY <2>1, <2>2, EndLeft DEF Waits
<1>2. CASE \E ok \in BOOLEAN : StopSuspend(s, ok)
  <2>1. /\ cmd[s].op = "stop" /\ cmd'[s].op = "stop" /\ cmd'[s].step = "down"
        /\ \/ \E r \in Resource : /\ Suspendable(cmd[s].mem, r) /\ ExtIs(s, r, "suspended")
                                  /\ cmd'[s].owed = cmd[s].owed \cup {<<r, "resume">>}
           \/ ext'[s] = ext[s] /\ cmd'[s].owed = cmd[s].owed
        /\ rec'[s] = rec[s] /\ owed'[s] = owed[s] /\ cut'[s] = cut[s]
    BY <1>2, StopSuspendDoes DEF SameDisk
  <2>2. rec[s].here /\ Lost(s) = {} /\ cmd[s].mem = rec[s]
    BY <2>1, InRecord DEF Working, Books
  <2>3. \A r \in Resource : Suspendable(rec[s], r) => r \in Teardown(rec[s])
    BY TeardownIs DEF Suspendable, Ready, Bound, Status
  <2>4. /\ Lifts(s, Teardown(rec[s]))
        /\ \A r \in Resource : <<r, "resume">> \in cmd'[s].owed =>
               <<r, "resume">> \in cmd[s].owed \/ r \in Teardown(rec[s])
    <3>1. CASE ext'[s] = ext[s] /\ cmd'[s].owed = cmd[s].owed
      BY <3>1 DEF Lifts
    <3>2. CASE \E r \in Resource : /\ Suspendable(cmd[s].mem, r) /\ ExtIs(s, r, "suspended")
                                   /\ cmd'[s].owed = cmd[s].owed \cup {<<r, "resume">>}
      BY <2>2, <2>3, <3>2 DEF Lifts, ExtIs
    <3> QED
      BY <2>1, <3>1, <3>2
  <2>5. Waits(s)' \subseteq Waits(s) \cup Teardown(rec[s])
    BY <2>1, <2>4, WaitsThen DEF Waits, Resumes
  <2> QED
    BY <2>1, <2>2, <2>4, <2>5, RemainLeft DEF Binder
<1> QED
  BY <1>1, <1>2

LEMMA DownLeft ==
    ASSUME StateInv, NEW s \in Slug, Working(s), Left(s), NEW gone \in BOOLEAN, DownProcess(s, gone)
    PROVE  Left(s)'
<1>1. /\ cmd[s].op \in {"stop", "drop", "remove"} /\ cmd'[s].op = cmd[s].op
      /\ cmd'[s].step = "hook" /\ cmd'[s].mem = cmd[s].mem
      /\ \E r \in Resource : cmd'[s].owed \in {cmd[s].owed, cmd[s].owed \cup {<<r, "start">>}}
      /\ rec'[s] = rec[s] /\ owed'[s] = owed[s] /\ ext'[s] = ext[s] /\ cut'[s] = cut[s]
  BY DownProcessDoes DEF SameDisk
<1>2. rec[s].here /\ Lost(s) = {} /\ ("rebind" \notin cut[s] => Up(s) \cup Waits(s) \subseteq Teardown(rec[s]))
  BY <1>1, InRecord
<1>3. Resumes(cmd'[s].owed) = Resumes(cmd[s].owed)
  BY <1>1 DEF Resumes
<1>4. Up(s)' = Up(s) /\ Waits(s)' = Waits(s)
  BY <1>1, <1>3, WaitsThen DEF Up, Waits
<1> QED
  BY <1>1, <1>2, <1>3, <1>4 DEF Left, Binder

LEMMA ParkLeft ==
    ASSUME StateInv, NEW s \in Slug, Working(s), Left(s), NEW ok \in BOOLEAN, Park(s, ok)
    PROVE  Left(s)'
<1>1. PICK r \in Resource :
          /\ cmd[s].op = "drop" /\ cmd'[s].op = "drop" /\ cmd'[s].step = "down"
          /\ SlotIs(cmd'[s].mem, cmd[s].mem, r, ParkedAs(s, r, ok)[1], cmd[s].mem.slot[r].port)
          /\ ExtIs(s, r, ParkedAs(s, r, ok)[2])
          /\ cmd'[s].owed = cmd[s].owed \ {<<r, "resume">>, <<r, "start">>}
          /\ rec'[s] = rec[s] /\ owed'[s] = owed[s] /\ cut'[s] = cut[s]
  BY ParkDoes DEF SameDisk
<1>2. /\ ParkedAs(s, r, ok)[1] \in Parked
      /\ ParkedAs(s, r, ok)[1] = "cleaned" => ParkedAs(s, r, ok)[2] = "absent"
      /\ ParkedAs(s, r, ok)[2] \in {"absent", ext[s][r]} \/ Bound(cmd[s].mem, r)
  BY DEF ParkedAs, Parked, Suspendable, Ready, Bound, Status
<1>3. rec[s].here /\ Lost(s) = {} /\ ("rebind" \notin cut[s] => Up(s) \cup Waits(s) \subseteq Teardown(rec[s]))
  BY <1>1, InRecord
<1>4. Waits(s)' \subseteq Waits(s)
  BY <1>1, WaitsThen DEF Waits, Resumes
<1>5. ASSUME "rebind" \notin cut[s]
      PROVE  /\ Up(s)' \subseteq Teardown(rec[s])
             /\ Up(s)' \cup Resumes(cmd'[s].owed) \subseteq Teardown(cmd'[s].mem)
             /\ \A q \in Resource : Bound(cmd'[s].mem, q) => Bound(rec[s], q)
  <2>1. /\ Up(s) \cup Resumes(cmd[s].owed) \subseteq Teardown(cmd[s].mem)
        /\ \A q \in Resource : Bound(cmd[s].mem, q) => Bound(rec[s], q)
    BY <1>1, <1>5 DEF Left
  <2>2. Cleans \subseteq Resource
    BY DEF Cleans, Those
  <2>3. \A q \in Resource \ {r} : /\ q \in Up(s)' <=> q \in Up(s)
                                  /\ Bound(cmd'[s].mem, q) <=> Bound(cmd[s].mem, q)
                                  /\ q \in Teardown(cmd'[s].mem) <=> q \in Teardown(cmd[s].mem)
    BY <1>1 DEF Up, ExtIs, SlotIs, Bound, Teardown
  <2>4. ~ Bound(cmd'[s].mem, r) /\ (r \in Up(s)' => r \in Teardown(cmd'[s].mem))
    <3>1. cmd'[s].mem.slot[r].state = ParkedAs(s, r, ok)[1] /\ ext'[s][r] = ParkedAs(s, r, ok)[2]
      BY <1>1 DEF SlotIs, ExtIs
    <3> QED
      BY <1>2, <3>1, TeardownIs DEF Bound, Status, Parked, Up
  <2>5. r \in Up(s)' => r \in Teardown(rec[s])
    <3>1. CASE Bound(cmd[s].mem, r)
      BY <2>1, <3>1, TeardownIs
    <3>2. CASE ParkedAs(s, r, ok)[2] \in {"absent", ext[s][r]}
      <4>1. r \in Up(s)' => r \in Up(s)
        BY <1>1, <3>2 DEF Up, ExtIs
      <4> QED
        BY <1>3, <1>5, <4>1
    <3> QED
      BY <1>2, <3>1, <3>2
  <2>6. \A q \in Up(s)' \cup Resumes(cmd'[s].owed) : q \in Resource
    BY <2>2 DEF Up, Resumes
  <2>7. \A q \in Resumes(cmd'[s].owed) : q # r /\ q \in Resumes(cmd[s].owed)
    BY <1>1 DEF Resumes
  <2>8. Up(s)' \subseteq Teardown(rec[s])
    BY <1>3, <1>5, <2>3, <2>5, <2>6
  <2>9. Up(s)' \cup Resumes(cmd'[s].owed) \subseteq Teardown(cmd'[s].mem)
    BY <2>1, <2>3, <2>4, <2>6, <2>7
  <2> QED
    BY <2>1, <2>3, <2>4, <2>8, <2>9
<1> QED
  BY <1>1, <1>3, <1>4, <1>5 DEF Left, Binder

LEMMA TakeDownLeft ==
    ASSUME StateInv, NEW s \in Slug, Working(s), Left(s), TakeDown(s) PROVE Left(s)'
<1>1. CASE StopDone(s) \/ \E ok \in BOOLEAN : DownProcess(s, ok) \/ StopSuspend(s, ok) \/ Park(s, ok)
  BY <1>1, StopLeft, DownLeft, ParkLeft
<1>2. CASE ParkDone(s)
  <2>1. /\ cmd[s].op = "drop" /\ cmd'[s].op = "drop" /\ cmd'[s].step = "save" /\ cmd'[s].mem = cmd[s].mem
        /\ cmd'[s].owed = cmd[s].owed /\ owed'[s] = cmd[s].owed /\ rec'[s] = rec[s]
        /\ ext'[s] = ext[s] /\ cut'[s] = cut[s]
    BY <1>2, ParkDoneDoes DEF SameWorld
  <2>2. rec[s].here /\ Lost(s) = {} /\ ("rebind" \notin cut[s] => Up(s) \cup Waits(s) \subseteq Teardown(rec[s]))
    BY <2>1, InRecord
  <2>3. Up(s)' = Up(s) /\ Waits(s)' \subseteq Waits(s)
    BY <2>1, WaitsThen DEF Up, Waits
  <2> QED
    BY <2>1, <2>2, <2>3 DEF Left, Binder
<1>3. CASE DropDone(s)
  <2>1. /\ cmd[s].op = "drop" /\ cmd[s].step = "save" /\ cmd'[s] = Rest /\ rec'[s] = cmd[s].mem
        /\ owed'[s] = owed[s] /\ ext'[s] = ext[s] /\ cut'[s] = cut[s]
    BY <1>3, DropDoneDoes DEF SameWorld
  <2>2. cmd[s].mem.here
    BY <2>1 DEF Working, Books
  <2>3. "rebind" \notin cut[s] => Up(s) \cup Resumes(owed[s]) \subseteq Teardown(cmd[s].mem)
    BY <2>1 DEF Left
  <2> QED
    BY <2>1, <2>2, <2>3, EndLeft
<1>4. CASE RemoveProcess(s) \/ RemoveStopped(s)
  <2>1. /\ cmd[s].op = "remove" /\ cmd'[s].op = "remove" /\ cmd'[s].owed = cmd[s].owed
        /\ \/ cmd'[s].step = "down"
           \/ cmd'[s].step = "clean" /\ cmd'[s].todo = Teardown(cmd[s].mem) \cap (Cleans \ Shared)
        /\ rec'[s] = rec[s] /\ owed'[s] = owed[s] /\ ext'[s] = ext[s] /\ cut'[s] = cut[s]
    BY <1>4, RemoveProcessDoes, RemoveStoppedDoes DEF SameDisk, SameWorld
  <2>2. /\ rec[s].here /\ Lost(s) = {} /\ ("rebind" \notin cut[s] => Up(s) \cup Waits(s) \subseteq Teardown(rec[s]))
        /\ cmd[s].mem = rec[s]
    BY <2>1, InRecord DEF Working, Books
  <2>3. Up(s)' = Up(s) /\ Waits(s)' = Waits(s) /\ Lifts(s, Teardown(rec[s])) /\ Up(s) \subseteq Cleans \ Shared
    BY <2>1, WaitsThen DEF Up, Waits, Lifts
  <2>4. "rebind" \notin cut[s] => (cmd'[s].step = "clean" => Up(s)' \subseteq cmd'[s].todo \cup cmd'[s].failed)
    BY <2>1, <2>2, <2>3
  <2> QED
    BY <2>1, <2>2, <2>3, <2>4, RemainLeft DEF Binder
<1>5. CASE \E ok \in BOOLEAN : RemoveHook(s, ok)
  <2>1. PICK r \in Resource :
            /\ cmd[s].op = "remove" /\ cmd[s].step = "clean" /\ cmd'[s].op = "remove" /\ cmd'[s].step = "clean"
            /\ cmd'[s].owed = cmd[s].owed /\ cmd'[s].todo = cmd[s].todo \ {r}
            /\ \/ ExtIs(s, r, "absent") /\ cmd'[s].failed = cmd[s].failed
               \/ ExtIs(s, r, ext[s][r]) /\ cmd'[s].failed = cmd[s].failed \cup {r}
            /\ rec'[s] = rec[s] /\ owed'[s] = owed[s] /\ cut'[s] = cut[s]
    BY <1>5, RemoveHookDoes DEF SameDisk
  <2>2. rec[s].here /\ Lost(s) = {}
    BY <2>1, InRecord
  <2>3. Lifts(s, Teardown(rec[s])) /\ Waits(s)' = Waits(s) /\ Up(s)' \subseteq Up(s)
    BY <2>1, WaitsThen DEF Up, Waits, Lifts, ExtIs, Cleans, Those
  <2>4. "rebind" \notin cut[s] => Up(s)' \subseteq cmd'[s].todo \cup cmd'[s].failed
    <3>1. "rebind" \notin cut[s] => Up(s) \subseteq cmd[s].todo \cup cmd[s].failed
      BY <2>1 DEF Left
    <3>2. r \notin Up(s)' \/ r \in cmd'[s].failed
      BY <2>1 DEF Up, ExtIs
    <3> QED
      BY <2>1, <2>3, <3>1, <3>2
  <2> QED
    BY <2>1, <2>2, <2>3, <2>4, RemainLeft DEF Binder
<1>6. CASE RemoveState(s)
  <2>1. /\ cmd[s].op = "remove" /\ cmd[s].step = "clean" /\ cmd[s].todo = {}
        /\ cmd'[s].op = "remove" /\ cmd'[s].step = "archive"
        /\ cmd'[s].owed = cmd[s].owed /\ cmd'[s].failed = cmd[s].failed
        /\ owed'[s] = {} /\ rec'[s] = rec[s] /\ ext'[s] = ext[s] /\ cut'[s] = cut[s]
    BY <1>6, RemoveStateDoes
  <2>2. rec[s].here /\ Lost(s) = {}
    BY <2>1, InRecord
  <2>3. Up(s)' = Up(s) /\ Waits(s)' \subseteq Waits(s) /\ Lifts(s, Teardown(rec[s]))
    BY <2>1, WaitsThen, RestResumes DEF Up, Waits, Lifts
  <2>4. "rebind" \notin cut[s] => Up(s)' \subseteq cmd'[s].failed
    BY <2>1, <2>3 DEF Left
  <2> QED
    BY <2>1, <2>2, <2>3, <2>4, RemainLeft DEF Binder
<1>7. CASE RemoveRecord(s)
  <2>1. /\ cmd[s].step = "archive" /\ cmd'[s] = Rest /\ rec'[s] = Unspawned /\ cut'[s] = cut[s]
        /\ \A r \in Resource : ext'[s][r] = IF r \in cmd[s].failed /\ ext[s][r] # "absent" THEN "left" ELSE ext[s][r]
    BY <1>7, RemoveRecordDoes
  <2>2. "rebind" \notin cut[s] => Up(s)' = {}
    <3>1. "rebind" \notin cut[s] => Up(s) \subseteq cmd[s].failed
      BY <2>1 DEF Left
    <3> QED
      BY <2>1, <3>1 DEF Up, Cleans, Those
  <2>3. ~ rec'[s].here /\ cmd'[s].op \notin Binder \cup {"drop", "start"} /\ cmd'[s].step \notin {"clean", "archive"}
    BY <2>1, RestIs DEF Binder
  <2> QED
    BY <2>1, <2>2, <2>3 DEF Left
<1> QED
  BY <1>1, <1>2, <1>3, <1>4, <1>5, <1>6, <1>7 DEF TakeDown

LEMMA BringBackLeft ==
    ASSUME StateInv, NEW s \in Slug, Working(s), Left(s), BringBack(s) PROVE Left(s)'
<1>1. CASE StartDone(s)
  <2>1. /\ cmd[s].op = "start" /\ cmd'[s] = Rest /\ owed'[s] = cmd[s].still /\ rec'[s] = rec[s]
        /\ ext'[s] = ext[s] /\ cut'[s] = cut[s]
    BY <1>1, StartDoneDoes DEF SameWorld
  <2>2. rec[s].here /\ ("rebind" \notin cut[s] => Up(s) \subseteq Teardown(rec[s]))
    BY <2>1, InRecord
  <2>3. "rebind" \notin cut[s] => Resumes(cmd[s].still) \subseteq Teardown(rec[s])
    BY <2>1 DEF Left
  <2> QED
    BY <2>1, <2>2, <2>3, EndLeft
<1>2. CASE \E ok \in BOOLEAN : Resume(s, ok) \/ Restart(s, ok)
  <2>1. PICK e \in Entry :
            /\ Wanted(s, e) /\ StartKeeps(s, e) /\ (CameIs(s, e) \/ FailedIs(s, e))
            /\ ext'[s] = ext[s] \/ (e[2] = "resume" /\ ExtIs(s, e[1], "up"))
            /\ rec'[s] = rec[s] /\ owed'[s] = owed[s] /\ cut'[s] = cut[s]
    BY <1>2, ResumeDoes, RestartDoes DEF SameDisk, CameIs, FailedIs
  <2>2. cmd[s].op = "start" /\ cmd'[s].op = "start" /\ cmd'[s].step = "up" /\ cmd'[s].owed = cmd[s].owed \ {e}
    BY <2>1 DEF StartKeeps
  <2>3. rec[s].here /\ Lost(s) = {} /\ ("rebind" \notin cut[s] => Up(s) \cup Waits(s) \subseteq Teardown(rec[s]))
    BY <2>2, InRecord
  <2>4. e[1] \in Resource /\ (e[2] = "resume" => e[1] \in Waits(s))
    BY <2>1, <2>2 DEF Entry, Wanted, Waits, Resumes
  <2>5. Waits(s)' \subseteq Waits(s)
    BY <2>1, <2>2, WaitsThen DEF Waits, Resumes
  <2>6. Resumes(cmd'[s].still) \subseteq Waits(s) \cup Resumes(cmd[s].still)
    BY <2>1, <2>4 DEF CameIs, FailedIs, Resumes
  <2>7. "rebind" \notin cut[s] => Lifts(s, Teardown(rec[s]))
    BY <2>1, <2>3, <2>4 DEF Lifts, ExtIs
  <2>8. CASE "rebind" \notin cut[s]
    BY <2>1, <2>2, <2>3, <2>5, <2>6, <2>7, <2>8, RemainLeft DEF Binder
  <2>9. CASE "rebind" \in cut[s]
    BY <2>1, <2>9 DEF Left
  <2> QED
    BY <2>8, <2>9
<1> QED
  BY <1>1, <1>2 DEF BringBack

LEMMA WorldLeft ==
    ASSUME StateInv, NEW s \in Slug, Working(s), Left(s), Kill(s) \/ \E r \in Resource : Die(s, r)
    PROVE  Left(s)'
<1>1. CASE \E r \in Resource : Die(s, r)
  <2>1. /\ cmd' = cmd /\ rec'[s] = rec[s] /\ owed'[s] = owed[s] /\ ext'[s] = ext[s] /\ cut'[s] = cut[s]
    BY <1>1, DieDoes DEF SameDisk
  <2> QED
    BY <2>1 DEF Left, Up, Waits, Lost
<1>2. CASE Kill(s)
  <2>1. /\ cmd[s].op # "idle" /\ cmd'[s] = Rest /\ rec'[s] = rec[s] /\ owed'[s] = owed[s] /\ ext'[s] = ext[s]
        /\ cut'[s] = cut[s] \cup {cmd[s].op}
    BY <1>2, KillDoes DEF SameDisk, SameWorld, Kill
  <2>2. rec[s].here
    BY <2>1 DEF Working, Books
  <2>3. "rebind" \notin cut'[s] => Up(s) \cup Waits(s) \subseteq Teardown(rec[s])
    BY <2>1, InRecord
  <2> QED
    BY <2>1, <2>2, <2>3, EndLeft DEF Waits
<1> QED
  BY <1>1, <1>2

LeftInv == \A s \in Slug : Left(s)

LEMMA LeftNext ==
    ASSUME ~ WhileParked PROVE WorkingInv /\ LeftInv /\ [Next]_vars => LeftInv'
<1> SUFFICES ASSUME WorkingInv, LeftInv, [Next]_vars PROVE LeftInv'
  OBVIOUS
<1>e. ASSUME NEW t \in Slug, Left(t), rec'[t] = rec[t], owed'[t] = owed[t], ext'[t] = ext[t],
             cmd'[t] = cmd[t], cut'[t] = cut[t]
      PROVE  Left(t)'
  BY <1>e DEF Left, Up, Waits, Lost
<1>1. CASE UNCHANGED vars
  BY <1>1, <1>e DEF LeftInv, vars, disk, world
<1>2. CASE Next
  <2>1. PICK s \in Slug : Turn(s)
    BY <1>2 DEF Next, Turn
  <2>2. StateInv /\ Working(s) /\ Left(s) /\ Elsewhere(s) /\ Phase(cmd'[s])
    BY <2>1, StepMoves DEF WorkingInv, LeftInv, Moves, Turn
  <2>3. Working(s)'
    BY <2>1, <2>2, WorkingStep
  <2>4. Left(s)'
    <3>1. CASE Bind(s)
      BY <2>2, <2>3, <3>1, BindsLeft, GiveUpLeft, BootLeft DEF Bind
    <3>2. CASE TakeDown(s) \/ BringBack(s) \/ Give(s)
      BY <2>2, <3>2, TakeDownLeft, BringBackLeft, GiveLeft
    <3>3. CASE Kill(s) \/ \E r \in Resource : Die(s, r)
      BY <2>2, <3>3, WorldLeft
    <3> QED
      BY <2>1, <3>1, <3>2, <3>3 DEF Turn, Step
  <2>5. \A t \in Slug \ {s} : Left(t)'
    BY <1>e, <2>2 DEF LeftInv, Elsewhere
  <2> QED
    BY <2>4, <2>5 DEF LeftInv
<1> QED
  BY <1>1, <1>2

\* Once an instance is removed nothing of its own is left outside but what a
\* failed hook of the removal left and reported (TornDown), whatever was
\* dropped, used, rebound, stopped or killed before, while no action is run on
\* a resource that is parked; but for a rebind cut short between its two saves.
\* Until then what is up outside, or waits to be resumed, is bound or parked in
\* the record and in every command's memory of it.
THEOREM RemovedWhole ==
    ASSUME ~ WhileParked PROVE Spec => []TornDown
<1>1. Init => LeftInv
  <2> SUFFICES ASSUME Init, NEW s \in Slug PROVE Left(s)
    BY DEF LeftInv
  <2>1. /\ ~ rec[s].here /\ cmd[s] = Rest /\ \A r \in Resource : ext[s][r] = "absent"
    BY RestIs DEF Init
  <2>2. Up(s) = {}
    BY <2>1 DEF Up, Cleans, Those
  <2> QED
    BY <2>1, <2>2, RestIs DEF Left, Binder
<1>2. WorkingInv /\ LeftInv /\ [Next]_vars => LeftInv'
  BY LeftNext
<1>3. WorkingInv /\ LeftInv => TornDown
  <2> SUFFICES ASSUME WorkingInv, LeftInv, NEW s \in Slug, ~ rec[s].here, "rebind" \notin cut[s],
                      NEW r \in Cleans \ Shared
               PROVE  ext[s][r] \in {"absent", "left"}
    BY DEF TornDown
  <2>1. Up(s) = {}
    BY DEF LeftInv, Left
  <2>2. ext[s][r] \in Outside
    BY Typed DEF WorkingInv, StateInv, Cleans, Those
  <2> QED
    BY <2>1, <2>2 DEF Up, Outside
<1> QED
  BY <1>1, <1>2, <1>3, WorkingCorrect, PTL DEF Spec

-----------------------------------------------------------------------------
(* What a process is started over.                                         *)

\* Only the boot of a bind, and a start, start a process while a command is
\* under way.
LEMMA Starters ==
    ASSUME StateInv, NEW s \in Slug, Turn(s), cmd[s].op # "idle",
           NEW r \in Resource, ~ Running(s, r), Running(s, r)'
    PROVE  \E ok \in BOOLEAN : Boot(s, ok) \/ Restart(s, ok)
<1> SUFFICES ASSUME ~ \E ok \in BOOLEAN : Boot(s, ok) \/ Restart(s, ok) PROVE FALSE
  OBVIOUS
<1>1. proc'[s][r].state = "running" /\ proc[s][r].state # "running"
  BY DEF Running
<1>2. CASE \/ BindNext(s) \/ ReadClaims(s) \/ SaveClaim(s)
           \/ RenderFails(s) \/ RunHook(s) \/ Withhold(s) \/ NothingToRun(s)
           \/ \E ok \in BOOLEAN : HookEnds(s, ok)
  BY <1>1, <1>2, BindNextDoes, ReadClaimsDoes, SaveClaimDoes, RenderDoes, RunHookDoes, HookEndsDoes
     DEF SameWorld
<1>3. CASE NoPortLeft(s) \/ BindError(s)
  BY <1>1, <1>3, GivesUp, GiveUpDoes DEF SameWorld
<1>4. CASE BindDone(s) \/ BootDone(s)
  BY <1>1, <1>4, BindDoneDoes, BootDoneDoes DEF SameWorld
<1>5. CASE StopDone(s) \/ ParkDone(s) \/ DropDone(s) \/ RemoveProcess(s) \/ RemoveStopped(s)
  BY <1>1, <1>5, StopDoneDoes, ParkDoneDoes, DropDoneDoes, RemoveProcessDoes, RemoveStoppedDoes DEF SameWorld
<1>6. CASE RemoveState(s) \/ RemoveRecord(s)
  BY <1>1, <1>6, RemoveStateDoes, RemoveRecordDoes DEF NoProc
<1>7. CASE \E ok \in BOOLEAN : DownProcess(s, ok)
  <2>1. PICK q \in Resource : /\ Running(s, q)
                              /\ \/ ProcIs(s, q, "running", proc[s][q].port)
                                 \/ \E state \in {"halted", "stopped"} : ProcIs(s, q, state, proc[s][q].port)
    BY <1>7, DownProcessDoes
  <2> QED
    BY <1>1, <2>1 DEF ProcIs, Running
<1>8. CASE \E ok \in BOOLEAN : StopSuspend(s, ok) \/ RemoveHook(s, ok) \/ Resume(s, ok)
  BY <1>1, <1>8, StopSuspendDoes, RemoveHookDoes, ResumeDoes
<1>9. CASE \E ok \in BOOLEAN : Park(s, ok)
  <2>1. PICK q \in Resource :
            ProcIs(s, q, IF proc[s][q].state = "halted" THEN "stopped" ELSE proc[s][q].state, proc[s][q].port)
    BY <1>9, ParkDoes
  <2> QED
    BY <1>1, <2>1 DEF ProcIs
<1>10. CASE StartDone(s)
  BY <1>1, <1>10, StartDoneDoes DEF SameWorld
<1>11. ~ Give(s)
  <2>1. \A op : ~ Begin(s, op) /\ ~ Loaded(s, op) /\ ~ \E q : ByHand(s, op, q)
    BY DEF Begin, Loaded, ByHand
  <2>2. ~ Use(s) /\ ~ Drop(s) /\ ~ Stop(s) /\ ~ Start(s) /\ ~ Remove(s)
    BY <2>1, Zenon DEF Use, Drop, Stop, Start, Remove
  <2>3. ~ \E d \in BOOLEAN, only \in {{}, Resource} : Spawn(s, d, only)
    BY <2>1, Zenon DEF Spawn
  <2>4. /\ ~ \E q \in Resource : Rebind(s, q) \/ ActStart(s, q) \/ ActStop(s, q)
        /\ ~ \E q \in Resource, ok \in BOOLEAN : ActPrepare(s, q, ok)
    BY <2>1, Zenon DEF Rebind, ActStart, ActStop, ActPrepare
  <2> QED
    BY <2>2, <2>3, <2>4 DEF Give
<1>12. CASE Kill(s)
  BY <1>1, <1>12, KillDoes DEF SameWorld
<1>13. CASE \E q \in Resource : Die(s, q)
  <2>1. PICK q \in Resource : ProcIs(s, q, "died", proc[s][q].port)
    BY <1>13, DieDoes
  <2> QED
    BY <1>1, <2>1 DEF ProcIs
<1> QED
  BY <1>2, <1>3, <1>4, <1>5, <1>6, <1>7, <1>8, <1>9, <1>10, <1>11, <1>12, <1>13
     DEF Turn, Step, Bind, TakeDown, BringBack

\* What is started while the record is as the command remembers it finds every
\* bound dependency ready.
LEMMA ReadyUnder ==
    ASSUME NEW s, NEW r, cmd[s].mem = rec[s], BlockedBy(cmd[s].mem, r) = {},
           NEW d \in Deps[r], Bound(rec[s], d)
    PROVE  Ready(rec[s], d)
  BY DEF BlockedBy

\* A place is a number.
LEMMA Placed == \A r \in Resource : LifecyclePlace[r] \in Int
<1> DEFINE order == Graph.lifecycleOrder
<1>1. Complete(order)
  BY ResourcesAssumption
<1> HIDE DEF order
<1>2. DOMAIN order \subseteq Int
  BY <1>1 DEF Complete
<1>3. \A r \in Resource : Place(order)[r] \in DOMAIN order
  BY <1>1 DEF Place, Complete
<1> QED
  BY <1>2, <1>3 DEF LifecyclePlace, order

\* The resource a start comes to has none of its dependencies still to resume.
LEMMA FirstWanted ==
    ASSUME StateInv, NEW s \in Slug, NEW e \in Entry, Wanted(s, e), NEW d \in Deps[e[1]]
    PROVE  <<d, "resume">> \notin cmd[s].owed
<1> DEFINE S == {f[1] : f \in cmd[s].owed}
<1>1. cmd[s].owed \in SUBSET Entry
  BY Typed DEF StateInv, Memory
<1>2. S \in SUBSET Resource /\ S # {}
  BY <1>1 DEF Wanted, Entry
<1>3. e[1] = First(S)
  <2> DEFINE r == First(S)
  <2>1. e \in {<<r, "resume">>, <<r, "start">>}
    BY DEF Wanted
  <2> HIDE DEF r
  <2>2. e[1] = r
    BY <2>1
  <2> QED
    BY <2>2 DEF r
<1>4. \A q \in S : LifecyclePlace[e[1]] <= LifecyclePlace[q]
  <2> HIDE DEF S
  <2> QED
    BY <1>2, <1>3, Chosen
<1>5. e[1] \in Resource /\ d \in Resource
  BY DEF Entry, Deps
<1>6. LifecyclePlace[d] < LifecyclePlace[e[1]]
  BY <1>5, ResourcesAssumption
<1>7. LifecyclePlace[d] \in Int /\ LifecyclePlace[e[1]] \in Int
  BY <1>5, Placed
<1> SUFFICES ASSUME <<d, "resume">> \in cmd[s].owed PROVE FALSE
  OBVIOUS
<1>8. d \in S
  OBVIOUS
<1> HIDE DEF S
<1> QED
  BY <1>4, <1>6, <1>7, <1>8

\* The process a start begins is over what is back: had it a dependency that is
\* ready and suspended, its resume would be owed, and either still be to do,
\* which comes first, or have failed in this start, which keeps it waiting.
LEMMA BackUnder ==
    ASSUME StateInv, NEW s \in Slug, Working(s), Owing(s), Sound(s), NEW e \in Entry,
           Wanted(s, e), Clear(s, e[1]), NEW d \in Deps[e[1]], Ready(rec[s], d)
    PROVE  ext[s][d] # "suspended"
<1> SUFFICES ASSUME ext[s][d] = "suspended" PROVE FALSE
  OBVIOUS
<1>1. cmd[s].op = "start"
  BY WantedType
<1>2. d \in Resource
  BY DEF Entry, Deps
<1>3. Owes(s, <<d, "resume">>)
  BY <1>1, <1>2, OwingIs DEF Counts
<1>4. <<d, "resume">> \in cmd[s].owed \/ d \in cmd[s].failed
  BY <1>1, <1>3, OwesIs
<1>5. <<d, "resume">> \notin cmd[s].owed
  BY FirstWanted
<1> QED
  BY <1>4, <1>5 DEF Clear

\* A process begun by a command starts over direct dependencies that are ready,
\* and one begun by `start` over none that is still suspended
\* (DependenciesFirst), for definitions in which what suspends can also
\* prepare: autostart and start ask the record in the command's memory, which is
\* the one on disk by then, and what is suspended is owed a resume, which the
\* order puts before its dependents and which blocks them when it fails.
THEOREM StartedOverReady ==
    ASSUME Suspends \subseteq Prepares PROVE Spec => DependenciesFirst
<1>1. WorkingInv /\ OwingInv /\ [Next]_vars => [OverReady]_vars
  <2> SUFFICES ASSUME WorkingInv, OwingInv, Next PROVE OverReady
    OBVIOUS
  <2>1. PICK t \in Slug : Turn(t)
    BY DEF Next, Turn
  <2>2. StateInv /\ Elsewhere(t)
    BY <2>1, StepMoves DEF WorkingInv, Moves, Turn
  <2> SUFFICES ASSUME NEW s \in Slug, NEW r \in Resource, ~ Running(s, r), Running(s, r)', cmd[s].op # "idle",
                      NEW d \in Deps[r], Bound(rec[s], d)
               PROVE  /\ Ready(rec[s], d)
                      /\ cmd[s].op = "start" /\ Sound(s) => ext[s][d] # "suspended"
    BY Zenon DEF OverReady, Sound
  <2>3. s = t
    BY <2>2 DEF Elsewhere, Running
  <2>4. Working(s) /\ Owing(s)
    BY DEF WorkingInv, OwingInv
  <2>5. PICK ok \in BOOLEAN : Boot(s, ok) \/ Restart(s, ok)
    BY <2>1, <2>2, <2>3, Starters
  <2>6. CASE Boot(s, ok)
    <3>0. proc'[s] # proc[s]
      BY DEF Running
    <3>1. PICK q \in Resource : /\ BlockedBy(cmd[s].mem, q) = {}
                                /\ ProcIs(s, q, "running", cmd[s].mem.slot[q].port)
      BY <2>2, <2>6, <3>0, BootDoes
    <3>2. cmd[s].op \in Binder /\ cmd[s].step = "boot"
      BY <2>2, <2>6, BootDoes DEF BindKeeps
    <3>3. r = q
      BY <3>1 DEF ProcIs, Running
    <3>4. cmd[s].mem = rec[s]
      BY <2>4, <3>2 DEF Working, Books
    <3> QED
      BY <3>1, <3>2, <3>3, <3>4, ReadyUnder DEF Binder
  <2>7. CASE Restart(s, ok)
    <3>1. PICK e \in Entry :
              /\ Wanted(s, e)
              /\ \/ proc'[s] = proc[s]
                 \/ Clear(s, e[1]) /\ ProcIs(s, e[1], "running", cmd[s].mem.slot[e[1]].port)
      BY <2>2, <2>7, RestartDoes
    <3>2. r = e[1] /\ Clear(s, e[1])
      BY <3>1 DEF ProcIs, Running
    <3>3. cmd[s].op = "start"
      BY <2>2, <3>1, WantedType
    <3>4. cmd[s].mem = rec[s] /\ BlockedBy(cmd[s].mem, r) = {}
      BY <2>4, <3>2, <3>3 DEF Working, Books, Clear
    <3>5. Ready(rec[s], d)
      BY <3>4, ReadyUnder
    <3>6. Sound(s) => ext[s][d] # "suspended"
      BY <2>2, <2>4, <3>1, <3>2, <3>5, BackUnder
    <3> QED
      BY <3>5, <3>6
  <2> QED
    BY <2>5, <2>6, <2>7
<1> QED
  BY <1>1, OwingCorrect, WorkingCorrect, PTL DEF Spec, DependenciesFirst
=============================================================================
