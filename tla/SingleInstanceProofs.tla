------------------------ MODULE SingleInstanceProofs ------------------------
(***************************************************************************)
(* Proofs about SingleInstance, for any number of managers, any assignment *)
(* of host names (also shared ones), any faults, and any Lease, Period,    *)
(* Delay and Drain with Period + 4 * Delay + Drain < Lease.                *)
(***************************************************************************)
EXTENDS SingleInstance, TLAPS

\* A Redis call or a Start costs one fault at most, and only while there are any.
LEMMA Outcome ==
    ASSUME TypeOK, NEW kinds, NEW o \in Outcomes(kinds), Charge(o)
    PROVE  faults' \in 0 .. MaxFaults
BY FaultAssumption DEF TypeOK, Outcomes, Charge

\* Every step keeps the types: times stay in range, the key holds a host.
LEMMA TypeStep == TypeOK /\ [Next]_vars => TypeOK'
<1> SUFFICES ASSUME TypeOK, [Next]_vars PROVE TypeOK'
    OBVIOUS
<1> USE TimeAssumption
<1> USE DEF TypeOK, PC, Parked, Acquiring, Keeping, Releasing, At, Set, Move,
            Goto, Reset, lockVars, SetKey, DeleteKey, Hosts, Forever, RedisOutcomes
<1>1. ASSUME NEW m \in Mgr, SetNX(m) PROVE TypeOK'
  BY <1>1, Outcome DEF SetNX
<1>2. ASSUME NEW m \in Mgr, SetExpire(m) PROVE TypeOK'
  BY <1>2, Outcome DEF SetExpire
<1>3. ASSUME NEW m \in Mgr, Undo(m) PROVE TypeOK'
  BY <1>3, Outcome DEF Undo
<1>4. ASSUME NEW m \in Mgr, StartRunner(m) PROVE TypeOK'
  BY <1>4, Outcome DEF StartRunner
<1>5. ASSUME NEW m \in Mgr, OnTick(m) PROVE TypeOK'
  BY <1>5 DEF OnTick
<1>6. ASSUME NEW m \in Mgr, OnDone(m) PROVE TypeOK'
  BY <1>6 DEF OnDone
<1>7. ASSUME NEW m \in Mgr, Get(m) PROVE TypeOK'
  BY <1>7, Outcome DEF Get
<1>8. ASSUME NEW m \in Mgr, Renew(m) PROVE TypeOK'
  BY <1>8, Outcome DEF Renew
<1>9. ASSUME NEW m \in Mgr, Dropped(m) PROVE TypeOK'
  BY <1>9 DEF Dropped
<1>10. ASSUME NEW m \in Mgr, ReleaseGet(m) PROVE TypeOK'
  BY <1>10, Outcome DEF ReleaseGet
<1>11. ASSUME NEW m \in Mgr, ReleaseDelete(m) PROVE TypeOK'
  BY <1>11, Outcome DEF ReleaseDelete
<1>12. ASSUME NEW m \in Mgr, Released(m) PROVE TypeOK'
  BY <1>12 DEF Released
<1>13. ASSUME NEW m \in Mgr, Boot(m) PROVE TypeOK'
  BY <1>13 DEF Boot
<1>14. ASSUME NEW m \in Mgr, Stop(m) PROVE TypeOK'
  BY <1>14 DEF Stop
<1>15. ASSUME NEW m \in Mgr, Crash(m) PROVE TypeOK'
  BY <1>15, FaultAssumption DEF Crash
<1>16. ASSUME NEW m \in Mgr, Stall(m) PROVE TypeOK'
  BY <1>16, FaultAssumption DEF Stall
<1>17. CASE Tick
  BY <1>17 DEF Tick, Fires
<1>18. CASE UNCHANGED vars
  BY <1>18 DEF vars, mgrVars
<1>19. QED
  BY <1>1, <1>2, <1>3, <1>4, <1>5, <1>6, <1>7, <1>8, <1>9, <1>10, <1>11,
     <1>12, <1>13, <1>14, <1>15, <1>16, <1>17, <1>18 DEF Next, Step

\* Type correctness of the manager, the ticker, the key and the fault counts.
THEOREM TypeCorrect == Spec => []TypeOK
<1>1. Init => TypeOK
  BY TimeAssumption, FaultAssumption DEF Init, TypeOK, PC, Parked, Forever, Hosts
<1>2. QED
  BY <1>1, TypeStep, PTL DEF Spec

-----------------------------------------------------------------------------
(* acquired and the runner follow the program counter, in every behaviour.  *)

\* acquired and running keep in step with the program counter.
LEMMA ControlStep == TypeOK /\ ControlInv /\ [Next]_vars => ControlInv'
<1> SUFFICES ASSUME TypeOK, ControlInv, [Next]_vars PROVE ControlInv'
    OBVIOUS
<1> USE TimeAssumption
<1> USE DEF TypeOK, ControlInv, Serving, PC, Parked, Acquiring, Keeping,
            Releasing, At, Set, Move, Goto, Reset
<1>1. ASSUME NEW m \in Mgr, SetNX(m) PROVE ControlInv'
  BY <1>1 DEF SetNX
<1>2. ASSUME NEW m \in Mgr, SetExpire(m) PROVE ControlInv'
  <2>1. PICK o \in RedisOutcomes : /\ Goto(m, IF o = "ok" THEN "start" ELSE "undo")
                                   /\ acquired' = Set(acquired, m, o = "ok")
    BY <1>2 DEF SetExpire
  <2>2. CASE o = "ok"
    BY <1>2, <2>1, <2>2 DEF SetExpire
  <2>3. CASE o # "ok"
    BY <1>2, <2>1, <2>3 DEF SetExpire
  <2>4. QED
    BY <2>2, <2>3
<1>3. ASSUME NEW m \in Mgr, Undo(m) PROVE ControlInv'
  BY <1>3 DEF Undo
<1>4. ASSUME NEW m \in Mgr, StartRunner(m) PROVE ControlInv'
  BY <1>4 DEF StartRunner
<1>5. ASSUME NEW m \in Mgr, OnTick(m) PROVE ControlInv'
  BY <1>5 DEF OnTick
<1>6. ASSUME NEW m \in Mgr, OnDone(m) PROVE ControlInv'
  BY <1>6 DEF OnDone
<1>7. ASSUME NEW m \in Mgr, Get(m) PROVE ControlInv'
  <2>1. PICK o \in RedisOutcomes :
            LET mine == o = "ok" /\ owner = HostOf[m] IN
            /\ Goto(m, IF mine THEN "renew" ELSE "drop")
            /\ acquired' = Set(acquired, m, mine)
    BY <1>7 DEF Get
  <2>2. CASE o = "ok" /\ owner = HostOf[m]
    BY <1>7, <2>1, <2>2 DEF Get
  <2>3. CASE ~(o = "ok" /\ owner = HostOf[m])
    BY <1>7, <2>1, <2>3 DEF Get
  <2>4. QED
    BY <2>2, <2>3
<1>8. ASSUME NEW m \in Mgr, Renew(m) PROVE ControlInv'
  <2>1. PICK o \in RedisOutcomes : /\ Goto(m, IF o = "ok" THEN "idle" ELSE "drop")
                                   /\ acquired' = Set(acquired, m, o = "ok")
    BY <1>8 DEF Renew
  <2>2. CASE o = "ok"
    BY <1>8, <2>1, <2>2 DEF Renew
  <2>3. CASE o # "ok"
    BY <1>8, <2>1, <2>3 DEF Renew
  <2>4. QED
    BY <2>2, <2>3
<1>9. ASSUME NEW m \in Mgr, Dropped(m) PROVE ControlInv'
  BY <1>9 DEF Dropped
<1>10. ASSUME NEW m \in Mgr, ReleaseGet(m) PROVE ControlInv'
  <2>1. PICK o \in RedisOutcomes :
            LET mine == o = "ok" /\ owner = HostOf[m] IN
            /\ Goto(m, IF mine THEN "rel_del" ELSE "rel_drain")
            /\ acquired' = Set(acquired, m, mine)
    BY <1>10 DEF ReleaseGet
  <2>2. CASE o = "ok" /\ owner = HostOf[m]
    BY <1>10, <2>1, <2>2 DEF ReleaseGet
  <2>3. CASE ~(o = "ok" /\ owner = HostOf[m])
    BY <1>10, <2>1, <2>3 DEF ReleaseGet
  <2>4. QED
    BY <2>2, <2>3
<1>11. ASSUME NEW m \in Mgr, ReleaseDelete(m) PROVE ControlInv'
  BY <1>11 DEF ReleaseDelete
<1>12. ASSUME NEW m \in Mgr, Released(m) PROVE ControlInv'
  BY <1>12 DEF Released
<1>13. ASSUME NEW m \in Mgr, Boot(m) PROVE ControlInv'
  BY <1>13 DEF Boot
<1>14. ASSUME NEW m \in Mgr, Stop(m) PROVE ControlInv'
  BY <1>14 DEF Stop
<1>15. ASSUME NEW m \in Mgr, Crash(m) PROVE ControlInv'
  BY <1>15 DEF Crash
<1>16. ASSUME NEW m \in Mgr, Stall(m) PROVE ControlInv'
  BY <1>16 DEF Stall
<1>17. CASE Tick
  BY <1>17 DEF Tick, Fires
<1>18. CASE UNCHANGED vars
  BY <1>18 DEF vars, mgrVars
<1>19. QED
  BY <1>1, <1>2, <1>3, <1>4, <1>5, <1>6, <1>7, <1>8, <1>9, <1>10, <1>11,
     <1>12, <1>13, <1>14, <1>15, <1>16, <1>17, <1>18 DEF Next, Step

-----------------------------------------------------------------------------
(* The lease, as long as nobody has stalled.                               *)

\* A behaviour without a stall so far had none before.
LEMMA NoStallBefore == TypeOK /\ [Next]_vars /\ stalls' = 0 => stalls = 0
<1> SUFFICES ASSUME TypeOK, [Next]_vars, stalls' = 0 PROVE stalls = 0
    OBVIOUS
<1>1. ASSUME NEW m \in Mgr, Step(m) PROVE stalls' = stalls
  BY <1>1 DEF Step, SetNX, SetExpire, Undo, StartRunner, OnTick, OnDone, Get,
              Renew, Dropped, ReleaseGet, ReleaseDelete, Released
<1>2. ASSUME NEW m \in Mgr, Boot(m) \/ Stop(m) \/ Crash(m) PROVE stalls' = stalls
  BY <1>2 DEF Boot, Stop, Crash
<1>3. ASSUME NEW m \in Mgr, Stall(m) PROVE stalls' # 0
  BY <1>3, FaultAssumption DEF Stall, TypeOK
<1>4. QED
  BY <1>1, <1>2, <1>3 DEF Next, Tick, vars

\* A step of one manager that is not a Stall leaves nobody behind its deadline.
LEMMA DeadlineStep ==
    TypeOK /\ [Next]_vars /\ stalls' = 0 /\ stalls = 0 /\ DeadlineInv => DeadlineInv'
<1> SUFFICES ASSUME TypeOK, [Next]_vars, stalls' = 0, stalls = 0, DeadlineInv
             PROVE  DeadlineInv'
    OBVIOUS
<1> USE TimeAssumption
<1> USE DEF TypeOK, DeadlineInv, Limit, PC, Parked, Acquiring, Keeping,
            Releasing, At, Set, Move, Goto, Reset
<1>1. ASSUME NEW m \in Mgr, NEW p \in PC, Move(m, p) PROVE DeadlineInv'
  BY <1>1
<1>2. ASSUME NEW m \in Mgr, Step(m) \/ Boot(m) \/ Crash(m)
      PROVE  \E p \in PC : Move(m, p)
  BY <1>2 DEF Step, SetNX, SetExpire, Undo, StartRunner, OnTick, OnDone, Get,
              Renew, Dropped, ReleaseGet, ReleaseDelete, Released, Boot, Crash
<1>3. ASSUME NEW m \in Mgr, Stop(m) PROVE DeadlineInv'
  BY <1>3 DEF Stop
<1>4. ASSUME NEW m \in Mgr, Stall(m) PROVE FALSE
  BY <1>4, FaultAssumption DEF Stall
<1>5. CASE Tick
  BY <1>5 DEF Tick, Timed
<1>6. CASE UNCHANGED vars
  BY <1>6 DEF vars, mgrVars
<1>7. QED
  BY <1>1, <1>2, <1>3, <1>4, <1>5, <1>6 DEF Next

\* A step of m leaves the others where they are.
Frame(m) ==
    \A n \in Mgr \ {m} :
        /\ pc'[n] = pc[n] /\ acquired'[n] = acquired[n]
        /\ wait'[n] = wait[n] /\ phase'[n] = phase[n] /\ due'[n] = due[n]

\* After the step m has what it needs of the key, if it needs the key.
Mine(m) ==
    /\ Leased(m)' => owner' = HostOf[m] /\ ttl' + Elapsed(m)' >= Lease
    /\ At(m, "setex")' => ttl' = Forever

Alone(m) == \A n \in Mgr \ {m} : ~Leased(n)

\* A manager may touch the key, and come to rely on it, when nobody else does.
LEMMA LeaseFrame ==
    ASSUME TypeOK, LeaseInv, NEW m \in Mgr, Frame(m), Mine(m),
           Leased(m)' => Alone(m),
           Alone(m) \/ UNCHANGED lockVars
    PROVE  LeaseInv'
<1>1. \A n \in Mgr \ {m} : /\ Leased(n)' <=> Leased(n)
                           /\ Elapsed(n)' = Elapsed(n)
                           /\ At(n, "setex")' <=> At(n, "setex")
  BY DEF Frame, Leased, Elapsed, At
<1>2. \A n \in Mgr : At(n, "setex") => Leased(n)
  BY DEF At, Leased
<1>3. ASSUME NEW n \in Mgr \ {m}, Leased(n)'
      PROVE  owner' = HostOf[n] /\ ttl' + Elapsed(n)' >= Lease
  BY <1>1, <1>3 DEF LeaseInv, Alone, lockVars
<1>4. ASSUME NEW n \in Mgr \ {m}, At(n, "setex")' PROVE ttl' = Forever
  BY <1>1, <1>2, <1>4 DEF LeaseInv, Alone, lockVars, Forever
<1>5. ASSUME NEW k \in Mgr, NEW n \in Mgr, Leased(k)', Leased(n)' PROVE k = n
  BY <1>1, <1>5 DEF LeaseInv, Alone
<1>6. QED
  BY <1>3, <1>4, <1>5 DEF LeaseInv, Mine

\* Every step of a behaviour without a stall leaves the key, with enough time,
\* to the manager that relies on it.
LEMMA LeaseStep ==
    ASSUME TypeOK, ControlInv, DeadlineInv, LeaseInv, [Next]_vars, ~\E m \in Mgr : Stall(m)
    PROVE  LeaseInv'
<1> USE TimeAssumption, HostAssumption
<1>a. ASSUME NEW m \in Mgr, Step(m) \/ Boot(m) \/ Crash(m) PROVE Frame(m)
  <2> USE DEF TypeOK, Frame, Set, Move, Goto, Reset
  <2>1. CASE Boot(m) \/ Crash(m)
    BY <2>1 DEF Boot, Crash
  <2>2. CASE SetNX(m) \/ SetExpire(m) \/ Undo(m) \/ StartRunner(m)
    BY <2>2 DEF SetNX, SetExpire, Undo, StartRunner
  <2>3. CASE OnTick(m) \/ OnDone(m) \/ Get(m) \/ Renew(m) \/ Dropped(m)
    BY <2>3 DEF OnTick, OnDone, Get, Renew, Dropped
  <2>4. CASE ReleaseGet(m) \/ ReleaseDelete(m) \/ Released(m)
    BY <2>4 DEF ReleaseGet, ReleaseDelete, Released
  <2>5. QED
    BY <1>a, <2>1, <2>2, <2>3, <2>4 DEF Step
<1>b. ASSUME NEW m \in Mgr, Leased(m) PROVE Alone(m)
  BY <1>b DEF LeaseInv, Alone
<1>c. ASSUME NEW m \in Mgr, owner = NoHost PROVE Alone(m)
  BY <1>c DEF LeaseInv, Alone
<1>1. ASSUME NEW m \in Mgr, SetNX(m) PROVE LeaseInv'
  <2>1. Mine(m)
    BY <1>1 DEF TypeOK, PC, Parked, Acquiring, Keeping, Releasing, At, Set, Move, Goto, Reset, Mine, Leased, Elapsed,
       Limit, SetKey, DeleteKey, lockVars, Forever, ControlInv, DeadlineInv, LeaseInv, SetNX
  <2>2. owner = NoHost \/ (~Leased(m)' /\ UNCHANGED lockVars)
    BY <1>1 DEF SetNX, Leased, At, TypeOK, Set, Move, Goto, ControlInv, lockVars
  <2>3. QED
    BY <1>1, <1>a, <1>c, <2>1, <2>2, LeaseFrame DEF Step
<1>2. ASSUME NEW m \in Mgr, SetExpire(m) PROVE LeaseInv'
  <2>1. Mine(m)
    BY <1>2 DEF TypeOK, PC, Parked, Acquiring, Keeping, Releasing, At, Set, Move, Goto, Reset, Mine, Leased, Elapsed,
       Limit, SetKey, DeleteKey, lockVars, Forever, ControlInv, DeadlineInv, LeaseInv, SetExpire
  <2>2. Leased(m)
    BY <1>2 DEF SetExpire, ControlInv, Leased, At
  <2>3. QED
    BY <1>2, <1>a, <1>b, <2>1, <2>2, LeaseFrame DEF Step
<1>3. ASSUME NEW m \in Mgr, Undo(m) PROVE LeaseInv'
  <2>1. Mine(m)
    BY <1>3 DEF TypeOK, PC, Parked, Acquiring, Keeping, Releasing, At, Set, Move, Goto, Reset, Mine, Leased, Elapsed,
       Limit, SetKey, DeleteKey, lockVars, Forever, ControlInv, DeadlineInv, LeaseInv, Undo
  <2>2. Leased(m)
    BY <1>3 DEF Undo, ControlInv, Leased, At
  <2>3. QED
    BY <1>3, <1>a, <1>b, <2>1, <2>2, LeaseFrame DEF Step
<1>4. ASSUME NEW m \in Mgr, StartRunner(m) PROVE LeaseInv'
  <2>1. Mine(m)
    BY <1>4 DEF TypeOK, PC, Parked, Acquiring, Keeping, Releasing, At, Set, Move, Goto, Reset, Mine, Leased, Elapsed,
       Limit, SetKey, DeleteKey, lockVars, Forever, ControlInv, DeadlineInv, LeaseInv, StartRunner
  <2>2. Leased(m)
    BY <1>4 DEF StartRunner, ControlInv, Leased, At
  <2>3. QED
    BY <1>4, <1>a, <1>b, <2>1, <2>2, LeaseFrame DEF Step
<1>5. ASSUME NEW m \in Mgr, OnTick(m) PROVE LeaseInv'
  <2>1. Mine(m)
    BY <1>5 DEF TypeOK, PC, Parked, Acquiring, Keeping, Releasing, At, Set, Move, Goto, Reset, Mine, Leased, Elapsed,
       Limit, SetKey, DeleteKey, lockVars, Forever, ControlInv, DeadlineInv, LeaseInv, OnTick
  <2>2. UNCHANGED lockVars /\ (Leased(m)' => Leased(m))
    BY <1>5 DEF OnTick, Leased, At, TypeOK, Set, Move, Goto, Reset, ControlInv, lockVars
  <2>3. QED
    BY <1>5, <1>a, <1>b, <2>1, <2>2, LeaseFrame DEF Step
<1>6. ASSUME NEW m \in Mgr, OnDone(m) PROVE LeaseInv'
  <2>1. Mine(m)
    BY <1>6 DEF TypeOK, PC, Parked, Acquiring, Keeping, Releasing, At, Set, Move, Goto, Reset, Mine, Leased, Elapsed,
       Limit, SetKey, DeleteKey, lockVars, Forever, ControlInv, DeadlineInv, LeaseInv, OnDone
  <2>2. UNCHANGED lockVars /\ (Leased(m)' => Leased(m))
    BY <1>6 DEF OnDone, Leased, At, TypeOK, Set, Move, Goto, Reset, ControlInv, lockVars
  <2>3. QED
    BY <1>6, <1>a, <1>b, <2>1, <2>2, LeaseFrame DEF Step
<1>7. ASSUME NEW m \in Mgr, Get(m) PROVE LeaseInv'
  <2>1. Mine(m)
    BY <1>7 DEF TypeOK, PC, Parked, Acquiring, Keeping, Releasing, At, Set, Move, Goto, Reset, Mine, Leased, Elapsed,
       Limit, SetKey, DeleteKey, lockVars, Forever, ControlInv, DeadlineInv, LeaseInv, Get
  <2>2. Leased(m)
    BY <1>7 DEF Get, ControlInv, Leased, At
  <2>3. QED
    BY <1>7, <1>a, <1>b, <2>1, <2>2, LeaseFrame DEF Step
<1>8. ASSUME NEW m \in Mgr, Renew(m) PROVE LeaseInv'
  <2>1. Mine(m)
    BY <1>8 DEF TypeOK, PC, Parked, Acquiring, Keeping, Releasing, At, Set, Move, Goto, Reset, Mine, Leased, Elapsed,
       Limit, SetKey, DeleteKey, lockVars, Forever, ControlInv, DeadlineInv, LeaseInv, Renew
  <2>2. Leased(m)
    BY <1>8 DEF Renew, ControlInv, Leased, At
  <2>3. QED
    BY <1>8, <1>a, <1>b, <2>1, <2>2, LeaseFrame DEF Step
<1>9. ASSUME NEW m \in Mgr, Dropped(m) PROVE LeaseInv'
  <2>1. Mine(m)
    BY <1>9 DEF TypeOK, PC, Parked, Acquiring, Keeping, Releasing, At, Set, Move, Goto, Reset, Mine, Leased, Elapsed,
       Limit, SetKey, DeleteKey, lockVars, Forever, ControlInv, DeadlineInv, LeaseInv, Dropped
  <2>2. Leased(m)
    BY <1>9 DEF Dropped, ControlInv, Leased, At
  <2>3. QED
    BY <1>9, <1>a, <1>b, <2>1, <2>2, LeaseFrame DEF Step
<1>10. ASSUME NEW m \in Mgr, ReleaseGet(m) PROVE LeaseInv'
  <2>1. Mine(m)
    BY <1>10 DEF TypeOK, PC, Parked, Acquiring, Keeping, Releasing, At, Set, Move, Goto, Reset, Mine, Leased, Elapsed,
       Limit, SetKey, DeleteKey, lockVars, Forever, ControlInv, DeadlineInv, LeaseInv, ReleaseGet
  <2>2. Leased(m)
    BY <1>10 DEF ReleaseGet, ControlInv, Leased, At
  <2>3. QED
    BY <1>10, <1>a, <1>b, <2>1, <2>2, LeaseFrame DEF Step
<1>11. ASSUME NEW m \in Mgr, ReleaseDelete(m) PROVE LeaseInv'
  <2>1. Mine(m)
    BY <1>11 DEF TypeOK, PC, Parked, Acquiring, Keeping, Releasing, At, Set, Move, Goto, Reset, Mine, Leased, Elapsed,
       Limit, SetKey, DeleteKey, lockVars, Forever, ControlInv, DeadlineInv, LeaseInv, ReleaseDelete
  <2>2. Leased(m)
    BY <1>11 DEF ReleaseDelete, ControlInv, Leased, At
  <2>3. QED
    BY <1>11, <1>a, <1>b, <2>1, <2>2, LeaseFrame DEF Step
<1>12. ASSUME NEW m \in Mgr, Released(m) PROVE LeaseInv'
  <2>1. Mine(m)
    BY <1>12 DEF TypeOK, PC, Parked, Acquiring, Keeping, Releasing, At, Set, Move, Goto, Reset, Mine, Leased, Elapsed,
       Limit, SetKey, DeleteKey, lockVars, Forever, ControlInv, DeadlineInv, LeaseInv, Released
  <2>2. UNCHANGED lockVars /\ (Leased(m)' => Leased(m))
    BY <1>12 DEF Released, Leased, At, TypeOK, Set, Move, Goto, Reset, ControlInv, lockVars
  <2>3. QED
    BY <1>12, <1>a, <1>b, <2>1, <2>2, LeaseFrame DEF Step
<1>13. ASSUME NEW m \in Mgr, Boot(m) PROVE LeaseInv'
  <2>1. Mine(m)
    BY <1>13 DEF TypeOK, PC, Parked, Acquiring, Keeping, Releasing, At, Set, Move, Goto, Reset, Mine, Leased, Elapsed,
       Limit, SetKey, DeleteKey, lockVars, Forever, ControlInv, DeadlineInv, LeaseInv, Boot
  <2>2. UNCHANGED lockVars /\ (Leased(m)' => Leased(m))
    BY <1>13 DEF Boot, Leased, At, TypeOK, Set, Move, Goto, Reset, ControlInv, lockVars
  <2>3. QED
    BY <1>13, <1>a, <1>b, <2>1, <2>2, LeaseFrame DEF Step
<1>14. ASSUME NEW m \in Mgr, Crash(m) PROVE LeaseInv'
  <2>1. Mine(m)
    BY <1>14 DEF TypeOK, PC, Parked, Acquiring, Keeping, Releasing, At, Set, Move, Goto, Reset, Mine, Leased, Elapsed,
       Limit, SetKey, DeleteKey, lockVars, Forever, ControlInv, DeadlineInv, LeaseInv, Crash
  <2>2. UNCHANGED lockVars /\ (Leased(m)' => Leased(m))
    BY <1>14 DEF Crash, Leased, At, TypeOK, Set, Move, Goto, Reset, ControlInv, lockVars
  <2>3. QED
    BY <1>14, <1>a, <1>b, <2>1, <2>2, LeaseFrame DEF Step
<1>15. ASSUME NEW m \in Mgr, Stop(m) PROVE LeaseInv'
  BY <1>15 DEF Stop, LeaseInv, Leased, Elapsed, At, lockVars, Forever
<1>16. CASE Tick
  <2>1. ASSUME NEW m \in Mgr, Leased(m)
        PROVE  owner' = HostOf[m] /\ ttl' + Elapsed(m)' >= Lease
    <3> USE DEF TypeOK, PC, Parked, Acquiring, Keeping, Releasing, At
    <3>1. Ready(m) => wait[m] < Limit(pc[m])
      BY <1>16 DEF Tick, Timed, DeadlineInv
    <3>2. /\ Elapsed(m) \in Int
          /\ Elapsed(m) < Lease - 1
      BY <2>1, <3>1 DEF Leased, Elapsed, Limit, Ready, ControlInv, DeadlineInv
    <3>3. Elapsed(m)' >= Elapsed(m) + 1
      BY <1>16, <2>1 DEF Tick, Timed, Ready, Fires, Leased, Elapsed, ControlInv, DeadlineInv
    <3>4. owner = HostOf[m] /\ ttl + Elapsed(m) >= Lease
      BY <2>1 DEF LeaseInv
    <3>5. owner' = owner /\ ttl' >= ttl - 1 /\ ttl \in Nat /\ ttl' \in Nat
      BY <1>16, <3>2, <3>4 DEF Tick, SetKey, lockVars, Forever
    <3>6. Elapsed(m)' \in Int
      BY <1>16, <2>1, TypeStep DEF Leased, Elapsed
    <3>7. ttl' + Elapsed(m)' >= Lease
      BY <3>2, <3>3, <3>4, <3>5, <3>6
    <3>8. QED
      BY <3>4, <3>5, <3>7
  <2>2. \A m \in Mgr : (Leased(m)' <=> Leased(m)) /\ (At(m, "setex")' <=> At(m, "setex"))
    BY <1>16 DEF Tick, Leased, At
  <2>3. QED
    BY <1>16, <2>1, <2>2 DEF LeaseInv, Tick, Leased, At, SetKey, lockVars, Forever
<1>17. CASE UNCHANGED vars
  BY <1>17 DEF vars, mgrVars, lockVars, LeaseInv, Leased, Elapsed, At, Forever
<1>18. QED
  BY <1>1, <1>2, <1>3, <1>4, <1>5, <1>6, <1>7, <1>8, <1>9, <1>10, <1>11,
     <1>12, <1>13, <1>14, <1>15, <1>16, <1>17 DEF Next, Step

-----------------------------------------------------------------------------
(* The theorems.                                                           *)

\* The parts of the inductive invariant together.
LEMMA InductiveStep == IndInv /\ [Next]_vars => IndInv'
<1> SUFFICES ASSUME IndInv, [Next]_vars PROVE IndInv'
    OBVIOUS
<1>1. TypeOK' /\ ControlInv'
  BY TypeStep, ControlStep DEF IndInv
<1>2. ASSUME stalls' = 0 PROVE DeadlineInv' /\ LeaseInv'
  <2>1. stalls = 0 /\ ~\E m \in Mgr : Stall(m)
    BY <1>2, NoStallBefore, FaultAssumption DEF IndInv, Stall, TypeOK
  <2>2. QED
    BY <1>2, <2>1, DeadlineStep, LeaseStep DEF IndInv
<1>3. QED
  BY <1>1, <1>2 DEF IndInv

\* The inductive invariant holds in every behaviour.
THEOREM Inductive == Spec => []IndInv
<1>1. Init => IndInv
  BY TimeAssumption, FaultAssumption, HostAssumption
     DEF Init, IndInv, TypeOK, ControlInv, DeadlineInv, LeaseInv, Leased, Serving,
         At, Limit, PC, Parked, Releasing, Forever, Hosts
<1>2. QED
  BY <1>1, InductiveStep, PTL DEF Spec

\* Whatever calls fail, the runner works exactly while the lock is held, and
\* none survives Stop().
THEOREM RunnerFollows == Spec => []RunnerFollowsLock
<1>1. IndInv => RunnerFollowsLock
  BY DEF IndInv, TypeOK, ControlInv, RunnerFollowsLock, Serving, At, Parked
<1>2. QED
  BY <1>1, Inductive, PTL

\* Nobody having stalled, at most one manager believes to hold the lock.
THEOREM LeaseIsExclusive == Spec => []LeaseExclusive
<1>1. IndInv => LeaseExclusive
  BY DEF IndInv, ControlInv, LeaseInv, Leased, LeaseExclusive
<1>2. QED
  BY <1>1, Inductive, PTL

\* Nobody having stalled, two runners overlap only in release().
THEOREM RunnersAreExclusive == Spec => []RunnerExclusive
<1>1. ASSUME IndInv, stalls = 0, NEW m \in Mgr, running[m]
      PROVE  Leased(m) \/ At(m, "rel_drain")
  BY <1>1 DEF IndInv, ControlInv, Serving, Leased, At
<1>2. IndInv => RunnerExclusive
  BY <1>1 DEF IndInv, LeaseInv, RunnerExclusive
<1>3. QED
  BY <1>2, Inductive, PTL

\* Nobody having stalled, the key of a host is deleted by its own manager, or
\* it runs out when nobody holds the lock; nobody overwrites it.
THEOREM KeyIsNotTakenOver == Spec => NoTakeover
<1> DEFINE Deleted == /\ owner' = NoHost
                      /\ \E m \in Mgr : /\ owner = HostOf[m] /\ pc'[m] # pc[m]
                                        /\ pc[m] \in {"undo", "unstart", "rel_del"}
           Expired == /\ owner' = NoHost /\ ttl = 1
                      /\ \A m \in Mgr : pc'[m] = pc[m] /\ ~acquired[m]
           Kept == stalls' = 0 /\ owner # NoHost /\ owner' # owner => Deleted \/ Expired
<1>1. ASSUME IndInv, [Next]_vars, stalls' = 0, owner # NoHost, owner' # owner
      PROVE  Deleted \/ Expired
  <2>1. stalls = 0 /\ TypeOK /\ ControlInv /\ LeaseInv
    BY <1>1, NoStallBefore DEF IndInv
  <2> HIDE DEF Deleted, Expired
  <2> USE <1>1, <2>1 DEF SetKey, lockVars
  <2>2. ASSUME NEW m \in Mgr, SetNX(m) \/ StartRunner(m) PROVE FALSE
    BY <2>2 DEF SetNX, StartRunner
  <2>3. ASSUME NEW m \in Mgr, SetExpire(m) \/ Renew(m) PROVE FALSE
    <3>1. Leased(m)
      BY <2>3 DEF SetExpire, Renew, ControlInv, Leased, At
    <3>2. QED
      BY <2>3, <3>1 DEF SetExpire, Renew, LeaseInv
  <2>4. ASSUME NEW m \in Mgr, OnTick(m) \/ OnDone(m) \/ Get(m) \/ Dropped(m) PROVE FALSE
    BY <2>4 DEF OnTick, OnDone, Get, Dropped
  <2>5. ASSUME NEW m \in Mgr, Undo(m) \/ ReleaseDelete(m) PROVE Deleted
    <3>1. pc[m] \in {"undo", "unstart", "rel_del"} /\ Leased(m)
      BY <2>5 DEF Undo, ReleaseDelete, ControlInv, Leased, At
    <3>2. owner = HostOf[m]
      BY <3>1 DEF LeaseInv
    <3>3. owner' = NoHost
      BY <2>5 DEF Undo, ReleaseDelete, DeleteKey
    <3>4. pc'[m] \in {"idle", "rel_drain"}
      BY <2>5 DEF Undo, ReleaseDelete, TypeOK, Goto, Move, Set
    <3>5. QED
      BY <3>1, <3>2, <3>3, <3>4 DEF Deleted
  <2>6. ASSUME NEW m \in Mgr, ReleaseGet(m) \/ Released(m) PROVE FALSE
    BY <2>6 DEF ReleaseGet, Released
  <2>7. ASSUME NEW m \in Mgr, Boot(m) \/ Stop(m) \/ Crash(m) \/ Stall(m) PROVE FALSE
    BY <2>7 DEF Boot, Stop, Crash, Stall
  <2>8. CASE Tick
    <3>1. ttl = 1 /\ owner' = NoHost /\ pc' = pc /\ acquired' = acquired
      BY <2>8 DEF Tick
    <3>2. ASSUME NEW m \in Mgr, acquired[m] PROVE FALSE
      <4>1. Leased(m)
        BY <3>2 DEF ControlInv, Leased
      <4>2. Leased(m)' /\ LeaseInv'
        BY <3>1, <4>1, InductiveStep DEF Leased, IndInv
      <4>3. owner' = HostOf[m]
        BY <4>2 DEF LeaseInv
      <4>4. QED
        BY <3>1, <4>3, HostAssumption
    <3>3. QED
      BY <3>1, <3>2 DEF Expired
  <2>9. CASE UNCHANGED vars
    BY <2>9 DEF vars
  <2>10. QED
    BY <2>2, <2>3, <2>4, <2>5, <2>6, <2>7, <2>8, <2>9 DEF Next, Step
<1>2. IndInv /\ [Next]_vars => [Kept]_vars
  BY <1>1
<1>3. Spec => [][Kept]_vars
  BY <1>2, Inductive, PTL DEF Spec
<1>4. Kept => (stalls' = 0 /\ owner # NoHost /\ owner' # owner =>
        /\ owner' = NoHost
        /\ \/ \E m \in Mgr : /\ owner = HostOf[m] /\ pc'[m] # pc[m]
                           /\ pc[m] \in {"undo", "unstart", "rel_del"}
           \/ ttl = 1 /\ \A m \in Mgr : pc'[m] = pc[m] /\ ~acquired[m])
  OBVIOUS
<1>5. QED
  BY <1>3, <1>4, PTL DEF NoTakeover

\* An answered call costs nothing; any other leaves a fault behind.
LEMMA FaultsStay ==
    ASSUME TypeOK, NEW o, Charge(o), faults' = 0
    PROVE  faults = 0 /\ o = "ok"
BY FaultAssumption DEF TypeOK, Charge

\* A manager that steps away from SETEX without a fault has set an expiry.
LEMMA LeakStep == TypeOK /\ NoLeakWithoutFault /\ [Next]_vars => NoLeakWithoutFault'
<1> SUFFICES ASSUME TypeOK, NoLeakWithoutFault, [Next]_vars, faults' = 0, ttl' = Forever
             PROVE  \E m \in Mgr : At(m, "setex")'
    BY DEF NoLeakWithoutFault, Forever
<1> USE TimeAssumption
<1> USE DEF TypeOK, NoLeakWithoutFault, At, Set, Move, Goto, Reset, lockVars, SetKey, Forever
<1>a. ASSUME NEW m \in Mgr, ~At(m, "setex"), ttl' = ttl, faults = 0,
             NEW p, pc' = Set(pc, m, p)
      PROVE  \E n \in Mgr : At(n, "setex")'
  BY <1>a
<1>1. ASSUME NEW m \in Mgr, SetNX(m) PROVE \E n \in Mgr : At(n, "setex")'
  <2>1. PICK o \in RedisOutcomes :
            /\ Charge(o)
            /\ IF o # "refused" /\ owner = NoHost
               THEN SetKey(HostOf[m], Forever) ELSE UNCHANGED lockVars
            /\ Goto(m, IF o = "ok" /\ owner = NoHost THEN "setex" ELSE "idle")
    BY <1>1 DEF SetNX
  <2>2. faults = 0 /\ o = "ok"
    BY <2>1, FaultsStay
  <2>3. CASE owner = NoHost
    BY <2>1, <2>2, <2>3
  <2>4. CASE owner # NoHost
    <3>1. ttl' = ttl /\ pc' = Set(pc, m, "idle") /\ ~At(m, "setex")
      BY <1>1, <2>1, <2>4 DEF SetNX
    <3>2. QED
      BY <1>a, <2>2, <3>1
  <2>5. QED
    BY <2>3, <2>4
<1>2. ASSUME NEW m \in Mgr, SetExpire(m) PROVE FALSE
  <2>1. PICK o \in RedisOutcomes :
            Charge(o) /\ IF o = "refused" THEN UNCHANGED lockVars ELSE SetKey(HostOf[m], Lease)
    BY <1>2 DEF SetExpire
  <2>2. o = "ok"
    BY <2>1, FaultsStay
  <2>3. ttl' = Lease
    BY <2>1, <2>2
  <2>4. QED
    BY <2>3
<1>3. ASSUME NEW m \in Mgr, Undo(m) \/ ReleaseDelete(m) PROVE \E n \in Mgr : At(n, "setex")'
  <2>1. PICK o \in RedisOutcomes : Charge(o) /\ DeleteKey(o)
    BY <1>3 DEF Undo, ReleaseDelete
  <2>2. o = "ok"
    BY <2>1, FaultsStay
  <2>3. ttl' = 0
    BY <2>1, <2>2 DEF DeleteKey
  <2>4. QED
    BY <2>3
<1>4. ASSUME NEW m \in Mgr, Renew(m) PROVE FALSE
  <2>1. PICK o \in RedisOutcomes :
            Charge(o) /\ IF o = "refused" THEN UNCHANGED lockVars ELSE SetKey(HostOf[m], Lease)
    BY <1>4 DEF Renew
  <2>2. o = "ok"
    BY <2>1, FaultsStay
  <2>3. ttl' = Lease
    BY <2>1, <2>2
  <2>4. QED
    BY <2>3
<1>5. ASSUME NEW m \in Mgr,
             StartRunner(m) \/ OnTick(m) \/ OnDone(m) \/ Get(m) \/ Dropped(m)
                 \/ ReleaseGet(m) \/ Released(m)
      PROVE  \E n \in Mgr : At(n, "setex")'
  <2>1. \E p : pc' = Set(pc, m, p)
    BY <1>5 DEF StartRunner, OnTick, OnDone, Get, Dropped, ReleaseGet, Released
  <2>2. ~At(m, "setex") /\ ttl' = ttl
    BY <1>5 DEF StartRunner, OnTick, OnDone, Get, Dropped, ReleaseGet, Released
  <2>3. faults = 0
    <3>1. (\E o : Charge(o)) \/ faults' = faults
      BY <1>5 DEF StartRunner, OnTick, OnDone, Get, Dropped, ReleaseGet, Released
    <3>2. QED
      BY <3>1, FaultsStay
  <2>4. QED
    BY <1>a, <2>1, <2>2, <2>3
<1>6. ASSUME NEW m \in Mgr, Boot(m) PROVE \E n \in Mgr : At(n, "setex")'
  <2>1. pc' = Set(pc, m, "setnx") /\ ~At(m, "setex") /\ ttl' = ttl /\ faults = 0
    BY <1>6 DEF Boot, Parked
  <2>2. QED
    BY <1>a, <2>1
<1>7. ASSUME NEW m \in Mgr, Crash(m) PROVE FALSE
  BY <1>7, FaultAssumption DEF Crash
<1>8. ASSUME NEW m \in Mgr, Stop(m) \/ Stall(m) PROVE \E n \in Mgr : At(n, "setex")'
  BY <1>8 DEF Stop, Stall
<1>9. CASE Tick
  <2>1. ttl = Forever
    BY <1>9 DEF Tick
  <2>2. QED
    BY <1>9, <2>1 DEF Tick
<1>10. CASE UNCHANGED vars
  BY <1>10 DEF vars, mgrVars
<1>11. QED
  BY <1>1, <1>2, <1>3, <1>4, <1>5, <1>6, <1>7, <1>8, <1>9, <1>10 DEF Next, Step

\* However the managers interleave, stall or are stopped, the key has no expiry
\* only between a SETNX and its SETEX (service.go, tryAcquire), as long as no
\* call has failed and no process has crashed.
THEOREM NothingLeaks == Spec => []NoLeakWithoutFault
<1>1. Init => NoLeakWithoutFault
  BY TimeAssumption DEF Init, NoLeakWithoutFault, Forever
<1>2. QED
  BY <1>1, LeakStep, TypeCorrect, PTL DEF Spec

-----------------------------------------------------------------------------
(* The lock implements RunnerLock.                                         *)

Holder == {m \in Mgr : Leased(m)}
Working == {m \in Mgr : running[m]}
Leaving == {m \in Mgr : cancelled[m]}

\* What a step may do to m, as RunnerLock has it.
Orderly(m) ==
    /\ Leased(m)' /\ ~Leased(m) => Holder = {} /\ ~running[m] /\ ~running'[m]
    /\ ~Leased(m)' /\ Leased(m) /\ running'[m] => cancelled[m]
    /\ running'[m] /\ ~running[m] => Leased(m) /\ Leased(m)'
    /\ running[m] /\ ~running'[m] => ~Leased(m)'

\* An orderly step of one manager is a step of RunnerLock, or none.
LEMMA OrderlyStep ==
    ASSUME NEW m \in Mgr, Orderly(m), stalls' = 0, stalls = 0, cancelled' = cancelled,
           \A n \in Mgr \ {m} : (Leased(n)' <=> Leased(n)) /\ (running'[n] <=> running[n])
    PROVE  [Lock!Next]_<<Holder, Working, Leaving, stalls > 0>>
<1>1. Leaving' = Leaving /\ (stalls' > 0) = (stalls > 0)
  BY DEF Leaving
<1>2. /\ Leased(m)' => Holder' = Holder \cup {m}
      /\ ~Leased(m)' => Holder' = Holder \ {m}
      /\ Leased(m) <=> m \in Holder
  BY DEF Holder
<1>3. /\ running'[m] => Working' = Working \cup {m}
      /\ ~running'[m] => Working' = Working \ {m}
      /\ running[m] <=> m \in Working
      /\ cancelled[m] <=> m \in Leaving
  BY DEF Working, Leaving
<1>4. CASE Leased(m)' /\ ~Leased(m)
  <2>1. Lock!Take(m)
    BY <1>1, <1>2, <1>3, <1>4 DEF Orderly, Lock!Take, Holder, Working, Leaving
  <2>2. QED
    BY <2>1 DEF Lock!Next, Lock!Promised
<1>5. CASE Leased(m)' /\ Leased(m)
  <2>1. Holder' = Holder
    BY <1>2, <1>5
  <2>2. CASE running'[m] /\ ~running[m]
    <3>1. Lock!Work(m)
      BY <1>1, <1>2, <1>3, <1>5, <2>1, <2>2 DEF Lock!Work, Holder, Working, Leaving
    <3>2. QED
      BY <3>1 DEF Lock!Next, Lock!Promised
  <2>3. CASE running'[m] <=> running[m]
    <3>1. Working' = Working
      BY <1>3, <2>3
    <3>2. QED
      BY <1>1, <2>1, <3>1
  <2>4. QED
    BY <1>5, <2>2, <2>3 DEF Orderly
<1>6. CASE ~Leased(m)'
  <2>1. CASE running[m] /\ ~running'[m]
    <3>1. Lock!Quit(m)
      BY <1>1, <1>2, <1>3, <1>6, <2>1 DEF Lock!Quit, Holder, Working, Leaving
    <3>2. QED
      BY <3>1 DEF Lock!Next, Lock!Promised
  <2>2. CASE running'[m] <=> running[m]
    <3>1. Working' = Working
      BY <1>3, <2>2
    <3>2. CASE Leased(m)
      <4>1. Lock!Give(m)
        BY <1>1, <1>2, <1>3, <1>6, <2>2, <3>1, <3>2
           DEF Orderly, Lock!Give, Holder, Working, Leaving
      <4>2. QED
        BY <4>1 DEF Lock!Next, Lock!Promised
    <3>3. CASE ~Leased(m)
      BY <1>1, <1>2, <1>6, <3>1, <3>3
    <3>4. QED
      BY <3>2, <3>3
  <2>3. QED
    BY <1>6, <2>1, <2>2 DEF Orderly
<1>7. QED
  BY <1>4, <1>5, <1>6

\* Every step of a behaviour in which nobody has stalled is one of RunnerLock.
LEMMA LockStep ==
    ASSUME IndInv, [Next]_vars, stalls' = 0
    PROVE  [Lock!Next]_<<Holder, Working, Leaving, stalls > 0>>
<1>1. TypeOK /\ ControlInv /\ LeaseInv /\ stalls = 0
  BY NoStallBefore DEF IndInv
<1> USE DEF TypeOK, At, Set, Move, Goto, Reset
<1>2. ASSUME NEW m \in Mgr, Step(m) \/ Crash(m)
      PROVE  /\ cancelled' = cancelled
             /\ \A n \in Mgr \ {m} : (Leased(n)' <=> Leased(n)) /\ (running'[n] <=> running[n])
  <2> USE <1>1
  <2>1. \A n \in Mgr \ {m} :
           pc'[n] = pc[n] /\ acquired'[n] = acquired[n] /\ running'[n] = running[n]
    <3>1. CASE SetNX(m) \/ SetExpire(m) \/ Undo(m) \/ StartRunner(m)
      BY <3>1 DEF SetNX, SetExpire, Undo, StartRunner
    <3>2. CASE OnTick(m) \/ OnDone(m) \/ Get(m) \/ Renew(m) \/ Dropped(m)
      BY <3>2 DEF OnTick, OnDone, Get, Renew, Dropped
    <3>3. CASE ReleaseGet(m) \/ ReleaseDelete(m) \/ Released(m) \/ Crash(m)
      BY <3>3 DEF ReleaseGet, ReleaseDelete, Released, Crash
    <3>4. QED
      BY <1>2, <3>1, <3>2, <3>3 DEF Step
  <2>2. cancelled' = cancelled
    BY <1>2 DEF Step, SetNX, SetExpire, Undo, StartRunner, OnTick, OnDone, Get,
                Renew, Dropped, ReleaseGet, ReleaseDelete, Released, Crash
  <2>3. QED
    BY <2>1, <2>2 DEF Leased
<1>3. ASSUME NEW m \in Mgr, Orderly(m), Step(m) \/ Crash(m)
      PROVE  [Lock!Next]_<<Holder, Working, Leaving, stalls > 0>>
  BY <1>1, <1>2, <1>3, OrderlyStep
<1>4. ASSUME NEW m \in Mgr, SetNX(m) PROVE Orderly(m)
  <2>1. Leased(m)' => owner = NoHost
    BY <1>1, <1>4 DEF SetNX, Leased, ControlInv
  <2>2. owner = NoHost => Holder = {}
    BY <1>1, HostAssumption DEF Holder, LeaseInv
  <2>3. ~running[m] /\ ~running'[m] /\ ~Leased(m)
    BY <1>1, <1>4 DEF SetNX, ControlInv, Serving, Leased
  <2>4. QED
    BY <2>1, <2>2, <2>3 DEF Orderly
<1>5. ASSUME NEW m \in Mgr, SetExpire(m) \/ Undo(m) \/ StartRunner(m) PROVE Orderly(m)
  <2>1. Leased(m) /\ ~running[m]
    BY <1>1, <1>5 DEF SetExpire, Undo, StartRunner, Leased, ControlInv, Serving
  <2>2. CASE SetExpire(m) \/ Undo(m)
    BY <1>1, <2>1, <2>2 DEF SetExpire, Undo, Orderly
  <2>3. CASE StartRunner(m)
    <3>1. Leased(m)'
      BY <1>1, <2>3 DEF StartRunner, Leased
    <3>2. QED
      BY <2>1, <3>1 DEF Orderly
  <2>4. QED
    BY <1>5, <2>2, <2>3
<1>6. ASSUME NEW m \in Mgr, OnTick(m) \/ OnDone(m) PROVE Orderly(m)
  <2>1. Leased(m)' <=> Leased(m)
    BY <1>1, <1>6 DEF OnTick, OnDone, Leased
  <2>2. running' = running
    BY <1>6 DEF OnTick, OnDone
  <2>3. QED
    BY <2>1, <2>2 DEF Orderly
<1>7. ASSUME NEW m \in Mgr, Get(m) \/ Renew(m) PROVE Orderly(m)
  <2>1. Leased(m) /\ running' = running
    BY <1>1, <1>7 DEF Get, Renew, Leased, ControlInv
  <2>2. Leased(m)'
    <3>1. CASE Get(m)
      <4>1. PICK o \in RedisOutcomes :
                LET mine == o = "ok" /\ owner = HostOf[m] IN
                Goto(m, IF mine THEN "renew" ELSE "drop") /\ acquired' = Set(acquired, m, mine)
        BY <3>1 DEF Get
      <4>2. CASE o = "ok" /\ owner = HostOf[m]
        BY <1>1, <4>1, <4>2 DEF Leased
      <4>3. CASE ~(o = "ok" /\ owner = HostOf[m])
        BY <1>1, <4>1, <4>3 DEF Leased
      <4>4. QED
        BY <4>2, <4>3
    <3>2. CASE Renew(m)
      <4>1. PICK o \in RedisOutcomes :
                Goto(m, IF o = "ok" THEN "idle" ELSE "drop") /\ acquired' = Set(acquired, m, o = "ok")
        BY <3>2 DEF Renew
      <4>2. CASE o = "ok"
        BY <1>1, <4>1, <4>2 DEF Leased
      <4>3. CASE o # "ok"
        BY <1>1, <4>1, <4>3 DEF Leased
      <4>4. QED
        BY <4>2, <4>3
    <3>3. QED
      BY <1>7, <3>1, <3>2
  <2>3. QED
    BY <2>1, <2>2 DEF Orderly
<1>8. ASSUME NEW m \in Mgr, Dropped(m) PROVE Orderly(m)
  BY <1>1, <1>8 DEF Dropped, Leased, Orderly, ControlInv
<1>9. ASSUME NEW m \in Mgr, ReleaseGet(m) \/ ReleaseDelete(m) \/ Released(m) PROVE Orderly(m)
  <2>1. cancelled[m] /\ (Leased(m)' => Leased(m))
    BY <1>1, <1>9 DEF ReleaseGet, ReleaseDelete, Released, Leased, ControlInv, Releasing
  <2>2. CASE ReleaseGet(m) \/ ReleaseDelete(m)
    BY <2>1, <2>2 DEF ReleaseGet, ReleaseDelete, Orderly
  <2>3. CASE Released(m)
    <3>1. ~Leased(m)' /\ ~running'[m]
      BY <1>1, <2>3 DEF Released, Leased
    <3>2. QED
      BY <2>1, <3>1 DEF Orderly
  <2>4. QED
    BY <1>9, <2>2, <2>3
<1>10. ASSUME NEW m \in Mgr, Crash(m) PROVE Orderly(m)
  <2>1. ~Leased(m)' /\ ~running'[m]
    BY <1>1, <1>10 DEF Crash, Leased
  <2>2. QED
    BY <2>1 DEF Orderly
<1>11. ASSUME NEW m \in Mgr, Boot(m) PROVE Lock!Next
  <2>1. m \notin Holder /\ m \notin Working
    BY <1>1, <1>11 DEF Boot, Holder, Working, Leased, ControlInv, Serving, Parked
  <2>2. Holder' = Holder /\ Working' = Working /\ Leaving' = Leaving \ {m}
    BY <1>1, <1>11, <2>1 DEF Boot, Holder, Working, Leaving, Leased
  <2>3. Lock!Return(m)
    BY <2>1, <2>2 DEF Lock!Return, Holder, Working, Leaving
  <2>4. QED
    BY <2>3 DEF Lock!Next, Lock!Promised
<1>12. ASSUME NEW m \in Mgr, Stop(m) PROVE Lock!Next
  <2>1. Holder' = Holder /\ Working' = Working /\ Leaving' = Leaving \cup {m}
    BY <1>1, <1>12 DEF Stop, Holder, Working, Leaving, Leased
  <2>2. Lock!Ask(m)
    BY <2>1 DEF Lock!Ask, Holder, Working, Leaving
  <2>3. QED
    BY <2>2 DEF Lock!Next, Lock!Promised
<1>13. ASSUME NEW m \in Mgr, Stall(m) PROVE FALSE
  BY <1>1, <1>13 DEF Stall
<1>14. CASE Tick \/ UNCHANGED vars
  <2>1. Holder' = Holder /\ Working' = Working /\ Leaving' = Leaving
    BY <1>14 DEF Tick, vars, mgrVars, Holder, Working, Leaving, Leased
  <2>2. QED
    BY <1>1, <2>1
<1>15. QED
  BY <1>3, <1>4, <1>5, <1>6, <1>7, <1>8, <1>9, <1>10, <1>11, <1>12, <1>13, <1>14
     DEF Next, Step

\* The manager implements RunnerLock: for any number of processes, as long as
\* none has slept through a deadline, a runner begins only under the lock, and the
\* lock of a working runner passes on only after Stop() was called for it.
THEOREM ImplementsLock == Spec => LockSpec
<1>1. Init => Lock!Init
  BY DEF Init, Lock!Init, Leased, At
<1>2. ASSUME IndInv, [Next]_vars
      PROVE  [Lock!Next]_<<Holder, Working, Leaving, stalls > 0>>
  <2>1. stalls' \in Nat
    BY <1>2, TypeStep, FaultAssumption DEF IndInv, TypeOK
  <2>2. CASE stalls' = 0
    BY <1>2, <2>2, LockStep
  <2>3. CASE stalls' > 0
    BY <2>3 DEF Lock!Next
  <2>4. QED
    BY <2>1, <2>2, <2>3
<1>3. QED
  BY <1>1, <1>2, Inductive, PTL DEF Spec, LockSpec, Lock!Spec, Holder, Working, Leaving

=============================================================================
