------------------------- MODULE SchemaServiceProofs -------------------------
(***************************************************************************)
(* What is proved of DDLManager and of the splitters of scripts, for any   *)
(* number of managers, tables, releases, runs and failures, and scripts of *)
(* any length and depth.                                                   *)
(*                                                                         *)
(* The splitters: as long as a script is of the kind that CutsAgree names, *)
(* a splitter is in the mode psql is in, but that AutoDDLManager's takes a *)
(* comment for plain text; what it cuts then follows.                      *)
(*                                                                         *)
(* A quiet run of ensure_schema or rebuild_tables leaves every table behind*)
(* it complete and with other columns, or without a parent, and what it    *)
(* does to a later one does not change that; the table it stops at is the  *)
(* first that is complete and has its columns.                             *)
(***************************************************************************)
EXTENDS SchemaService, TLAPS

-----------------------------------------------------------------------------
(* The splitters                                                            *)


Modes == {"plain"} \cup Quotes \cup Tags \cup Comments

ScanTypeOK ==
    /\ core \in [mode : Modes, cut : BOOLEAN]
    /\ schema \in [mode : Modes, outer : {"plain", "/*"}, depth : Nat, cut : BOOLEAN]
    /\ lex \in [mode : Modes, inner : Nat, depth : Nat, cut : BOOLEAN]
    /\ textOnly \in BOOLEAN
    /\ flat \in BOOLEAN

CoreFollows ==
    textOnly => core.mode = IF lex.mode \in Comments THEN "plain" ELSE lex.mode

SchemaFollows ==
    flat => /\ schema.mode = lex.mode
            /\ schema.depth = lex.depth
            /\ schema.outer = "plain"

LexFlat == (flat \/ textOnly) => lex.inner = 0

ScanInv == ScanTypeOK /\ CoreFollows /\ SchemaFollows /\ LexFlat /\ CutsAgree

LEMMA ScanInitInv == ScanInit => ScanInv
  BY DEF ScanInit, ScanInv, ScanTypeOK, CoreFollows, SchemaFollows, LexFlat, CutsAgree,
         Modes, Comments

LEMMA NestType ==
    ASSUME NEW d \in Nat, NEW m, NEW c
    PROVE  Nest(d, m, c) \in Nat
  BY DEF Nest

LEMMA FollowType ==
    ASSUME NEW m \in Modes, NEW c \in Items, NEW S \in SUBSET (Quotes \cup Tags \cup Comments)
    PROVE  Follow(m, c, S) \in Modes
  BY DEF Follow, Closer, Modes

LEMMA ScanStep == ASSUME ScanInv, [\E c \in Items : Scan(c)]_scanVars PROVE ScanInv'
  <1>1. CASE UNCHANGED scanVars
    BY <1>1 DEF ScanInv, ScanTypeOK, CoreFollows, SchemaFollows, LexFlat, CutsAgree, scanVars
  <1>2. ASSUME NEW c \in Items, Scan(c) PROVE ScanInv'
    <2> USE <1>2 DEF ScanInv
    <2>1. /\ textOnly' => textOnly /\ (lex.mode \in Comments => c \in {"x", "nl", "*/"})
          /\ flat' => flat /\ (lex.mode = "/*" => c \notin Tags \cup {"/*"})
      <3>1. /\ textOnly' = (textOnly /\ (lex.mode \in Comments => c \in {"x", "nl", "*/"}))
            /\ flat' = (flat /\ (lex.mode = "/*" => c \notin Tags \cup {"/*"}))
        BY DEF Scan
      <3>2. QED
        BY <3>1, Zenon
    <2>2. /\ lex'.mode = IF lex.inner > 0 THEN lex.mode
                          ELSE Follow(lex.mode, c, Quotes \cup Tags \cup Comments)
          /\ lex'.inner = CASE lex.mode = "/*" /\ c = "/*" -> lex.inner + 1
                            [] lex.mode = "/*" /\ c = "*/" /\ lex.inner > 0 -> lex.inner - 1
                            [] OTHER -> lex.inner
          /\ lex'.depth = Nest(lex.depth, lex.mode, c)
          /\ lex'.cut = (c = ";" /\ lex.mode = "plain" /\ lex.depth = 0)
          /\ lex' = [mode |-> lex'.mode, inner |-> lex'.inner, depth |-> lex'.depth,
                     cut |-> lex'.cut]
      BY DEF Scan, LexStep
    <2>3. lex.inner = 0 => ~(lex.inner > 0)
      OBVIOUS
    <2>4. lex.inner = 0 /\ ~(lex.mode = "/*" /\ c = "/*") => lex'.inner = 0
      BY <2>3, <2>2, Zenon
    <2>5. ScanTypeOK'
      <3>1. core' \in [mode : Modes, cut : BOOLEAN]
        BY FollowType DEF Scan, CoreStep, ScanTypeOK
      <3>2. schema' \in [mode : Modes, outer : {"plain", "/*"}, depth : Nat, cut : BOOLEAN]
        <4>1. schema.mode \in Modes /\ schema.depth \in Nat /\ schema.outer \in {"plain", "/*"}
          BY DEF ScanTypeOK
        <4>2. /\ Follow(schema.mode, c, Quotes \cup Tags \cup Comments) \in Modes
              /\ Nest(schema.depth, schema.mode, c) \in Nat
          BY <4>1, FollowType, NestType
        <4>3. {"/*"} \cup Tags \subseteq Modes
          BY DEF Modes, Comments
        <4>4. QED
          BY <4>1, <4>2, <4>3 DEF Scan, SchemaStep
      <3>3. lex' \in [mode : Modes, inner : Nat, depth : Nat, cut : BOOLEAN]
        <4>1. lex.mode \in Modes /\ lex.depth \in Nat /\ lex.inner \in Nat
          BY DEF ScanTypeOK
        <4>2. /\ Follow(lex.mode, c, Quotes \cup Tags \cup Comments) \in Modes
              /\ Nest(lex.depth, lex.mode, c) \in Nat
          BY <4>1, FollowType, NestType
        <4>3. QED
          <5>1. lex'.mode \in Modes
            BY <2>2, <4>1, <4>2
          <5>2. lex'.inner \in Nat
            <6> HIDE DEF Modes
            <6>1. CASE lex.mode = "/*" /\ c = "/*"
              BY <2>2, <4>1, <6>1
            <6>2. CASE lex.mode = "/*" /\ c = "*/" /\ lex.inner > 0
              BY <2>2, <4>1, <6>2
            <6>3. QED
              BY <2>2, <4>1, <6>1, <6>2
          <5>3. lex'.depth \in Nat /\ lex'.cut \in BOOLEAN
            BY <2>2, <4>2
          <5>4. QED
            BY <2>2, <5>1, <5>2, <5>3
      <3>4. textOnly' \in BOOLEAN /\ flat' \in BOOLEAN
        BY DEF Scan, ScanTypeOK
      <3>5. QED
        BY <3>1, <3>2, <3>3, <3>4 DEF ScanTypeOK
    <2>6. LexFlat'
      <3> SUFFICES ASSUME flat' \/ textOnly' PROVE lex'.inner = 0
        BY DEF LexFlat
      <3>1. lex.inner = 0 /\ ~(lex.mode = "/*" /\ c = "/*")
        BY <2>1 DEF LexFlat, Comments
      <3>2. QED
        BY <2>4, <2>3, <2>2, <3>1, Zenon
    <2>7. CoreFollows'
      <3> SUFFICES ASSUME textOnly'
                   PROVE  core'.mode = IF lex'.mode \in Comments THEN "plain" ELSE lex'.mode
        BY DEF CoreFollows
      <3>1. textOnly /\ lex.inner = 0 /\ (lex.mode \in Comments => c \in {"x", "nl", "*/"})
        BY <2>1 DEF LexFlat
      <3>2. core'.mode = Follow(core.mode, c, Quotes \cup Tags)
        BY DEF Scan, CoreStep
      <3>3. lex'.mode = Follow(lex.mode, c, Quotes \cup Tags \cup Comments)
        BY <2>4, <2>3, <2>2, <3>1, Zenon
      <3>4. QED
        BY <3>1, <3>2, <3>3
        DEF CoreFollows, Follow, Closer, ScanTypeOK, Modes, Quotes, Tags, Comments
    <2>8. SchemaFollows'
      <3> SUFFICES ASSUME flat'
                   PROVE  /\ schema'.mode = lex'.mode
                          /\ schema'.depth = lex'.depth
                          /\ schema'.outer = "plain"
        BY DEF SchemaFollows
      <3>1. /\ flat
            /\ lex.inner = 0
            /\ lex.mode = "/*" => c \notin Tags \cup {"/*"}
        BY <2>1 DEF LexFlat
      <3>2. schema.mode = lex.mode /\ schema.depth = lex.depth /\ schema.outer = "plain"
        BY <3>1 DEF SchemaFollows
      <3>3. lex'.mode = Follow(lex.mode, c, Quotes \cup Tags \cup Comments)
            /\ lex'.depth = Nest(lex.depth, lex.mode, c)
        BY <2>4, <2>3, <2>2, <3>1, Zenon
      <3>4. QED
        BY <3>1, <3>2, <3>3 DEF Scan, SchemaStep, Tags
    <2>9. CutsAgree'
      <3>1. textOnly' /\ lex'.depth = 0 => core'.cut = lex'.cut
        <4> SUFFICES ASSUME textOnly', lex'.depth = 0 PROVE core'.cut = lex'.cut
          OBVIOUS
        <4>1. /\ textOnly
              /\ lex.mode \in Comments => c # ";"
              /\ core'.cut = (c = ";" /\ core.mode = "plain")
              /\ lex'.cut = (c = ";" /\ lex.mode = "plain" /\ lex.depth = 0)
          BY <2>1 DEF Scan, CoreStep, LexStep
        <4>2. c = ";" => lex'.depth = lex.depth
          BY DEF Scan, LexStep, Nest
        <4>3. QED
          BY <4>1, <4>2 DEF CoreFollows, Comments
      <3>2. flat' => schema'.cut = lex'.cut
        BY <2>1 DEF Scan, SchemaStep, LexStep, SchemaFollows
      <3>3. QED
        BY <3>1, <3>2 DEF CutsAgree
    <2>10. QED
      BY <2>5, <2>6, <2>7, <2>8, <2>9
  <1>3. QED
    BY <1>1, <1>2

\* The splitters cut where psql does, on every script of the kinds that CutsAgree
\* names (core/ddl_manager.py:396-449, utils/ddl_manager.py:321-421).
THEOREM SplittersAgree == ScanSpec => []CutsAgree
  <1>1. ScanInv => CutsAgree
    BY DEF ScanInv
  <1>2. QED
    BY ScanInitInv, ScanStep, <1>1, PTL DEF ScanSpec

-----------------------------------------------------------------------------
(* The managers: what always holds                                          *)


\* A manager that works on a table has one to work on.
Working ==
    \A m \in Managers : pc[m] \in Work => More(m)

\* Who drops the database was asked to rebuild it, who drops tables to rebuild them,
\* and a dry run gets to no place where something is made.
OpFits ==
    \A m \in Managers :
        /\ pc[m] \in {"terminate", "drop"} => op[m] = "rebuild_database"
        /\ pc[m] = "drop_table" => op[m] = "rebuild_tables"
        /\ pc[m] \in {"create", "registry", "common", "extras", "comment"} => ~Dry(m)

IInv == TypeOK /\ Working /\ OpFits

-----------------------------------------------------------------------------
(* Types                                                                    *)

LEMMA Constants ==
    /\ Len(Names) \in Nat
    /\ \A i \in 1 .. Len(Names) : Names[i] \in Tables
    /\ \A t \in Tables, r \in Releases : Shape[t][r] \in Nat \ {0}
    /\ MaxRuns \in Nat /\ MaxFaults \in Nat
  <1>1. Len(Names) \in Nat /\ \A i \in 1 .. Len(Names) : Names[i] \in Tables
    <2>1. Names \in Seq(Tables)
      BY SchemaAssumption DEF SchemaAssumption
    <2>2. QED
      BY <2>1
  <1>2. QED
    BY <1>1, SchemaAssumption

LEMMA TableType ==
    ASSUME ManagersOK, NEW m \in Managers, More(m)
    PROVE  Table(m) \in Tables
  <1>1. at[m] \in 1 .. Len(Names) + 1
    BY DEF ManagersOK
  <1>2. at[m] \in 1 .. Len(Names)
    BY <1>1, Constants DEF More
  <1>3. QED
    BY <1>2, Constants DEF Table

LEMMA GotoType ==
    ASSUME ManagersOK, Working, NEW m \in Managers, NEW l \in Places,
           l \in Work => More(m), Goto(m, l)
    PROVE  ManagersOK' /\ Working'
  BY DEF Goto, ManagersOK, Working, More

LEMMA LeaveType ==
    ASSUME ManagersOK, Working, NEW m \in Managers, NEW l \in Places \ Work, Leave(m, l)
    PROVE  ManagersOK' /\ Working'
  <1>1. 1 \in 1 .. Len(Names) + 1
    BY Constants
  <1>2. ManagersOK'
    BY <1>1 DEF Leave, ManagersOK
  <1>3. Working'
    BY DEF Leave, ManagersOK, Working, More
  <1>4. QED
    BY <1>2, <1>3

LEMMA AdvanceType ==
    ASSUME ManagersOK, Working, NEW m \in Managers, NEW l \in Places \ Work, More(m),
           Advance(m, l)
    PROVE  ManagersOK' /\ Working'
  <1>1. at[m] + 1 \in 1 .. Len(Names) + 1
    BY Constants DEF ManagersOK, More
  <1>2. ManagersOK'
    BY <1>1 DEF Advance, ManagersOK
  <1>3. Working'
    BY DEF Advance, ManagersOK, Working, More
  <1>4. QED
    BY <1>2, <1>3

LEMMA ManagersStep == ASSUME IInv, Next PROVE ManagersOK' /\ Working'
  <1>1. PICK m \in Managers :
            \/ Step(m) \/ StatementFails(m) \/ Raise(m) \/ Crash(m)
            \/ \E o \in Operations, r \in Releases : Begin(m, o, r)
    BY DEF Next
  <1>2. ManagersOK /\ Working /\ 1 \in 1 .. Len(Names) + 1
    BY Constants DEF IInv, TypeOK
  <1>3. CASE Terminate(m)
    <2>1. conn' \in [Managers -> {"none", "open", "dead"}]
      BY <1>2, <1>3 DEF Terminate, ManagersOK
    <2>2. pc' = [pc EXCEPT ![m] = "drop"] /\ UNCHANGED <<op, release, targets, at>>
      BY <1>3 DEF Terminate
    <2>3. "drop" \in Places \ Work
      BY DEF Places, Work
    <2>4. QED
      BY <1>2, <2>1, <2>2, <2>3 DEF ManagersOK, Working, More
  <1>4. CASE DropDatabase(m)
    BY <1>2, <1>4, GotoType, LeaveType DEF DropDatabase, Places, Work
  <1>5. CASE CheckDatabase(m)
    BY <1>2, <1>5, GotoType DEF CheckDatabase, Places, Work
  <1>6. CASE CreateDatabase(m)
    <2>1. CASE present
      BY <1>2, <1>6, <2>1, LeaveType DEF CreateDatabase, Places, Work
    <2>2. CASE ~present
      BY <1>2, <1>6, <2>2
      DEF CreateDatabase, ManagersOK, Working, More, Places, Work, Operations
    <2>3. QED
      BY <2>1, <2>2
  <1>7. CASE Connect(m)
    <2>1. CASE ~present
      BY <1>2, <1>7, <2>1, LeaveType DEF Connect, Places, Work
    <2>2. CASE present
      <3>1. AfterConnect(m) \in Places \ Work
        BY DEF AfterConnect, Places, Work
      <3>2. QED
        BY <1>2, <1>7, <2>2, <3>1 DEF Connect, ManagersOK, Working, More
    <2>3. QED
      BY <2>1, <2>2
  <1>8. CASE DropTable(m)
    BY <1>2, <1>8, AdvanceType DEF DropTable, Places, Work
  <1>9. CASE AllDropped(m)
    <2>1. "registry" \in Places \ Work
      BY DEF Places, Work
    <2>2. QED
      BY <1>2, <1>9, <2>1 DEF AllDropped, ManagersOK, Working, More
  <1>10. CASE Skip(m)
    BY <1>2, <1>10, AdvanceType DEF Skip, Places, Work
  <1>11. CASE EnsureRegistry(m)
    BY <1>2, <1>11, GotoType DEF EnsureRegistry, Places, Work
  <1>12. CASE CommonStatements(m)
    BY <1>2, <1>12, GotoType DEF CommonStatements, Places, Work
  <1>13. CASE CreateTable(m)
    BY <1>2, <1>13, GotoType DEF CreateTable, Places, Work
  <1>14. CASE Extras(m)
    BY <1>2, <1>14, GotoType DEF Extras, On, Working, Places, Work
  <1>15. CASE DiffExists(m)
    BY <1>2, <1>15, GotoType, AdvanceType DEF DiffExists, On, Working, Places, Work
  <1>16. CASE DiffColumns(m)
    BY <1>2, <1>16, GotoType DEF DiffColumns, On, Working, Places, Work
  <1>17. CASE DiffHash(m)
    BY <1>2, <1>17, AdvanceType, LeaveType DEF DiffHash, On, Working, Places, Work
  <1>24. CASE WriteComment(m)
    BY <1>2, <1>24, LeaveType DEF WriteComment, Places, Work
  <1>18. CASE Finish(m)
    BY <1>2, <1>18, LeaveType DEF Finish, Places, Work
  <1>19. CASE StatementFails(m)
    BY <1>2, <1>19, GotoType DEF StatementFails, Working, Places, Work
  <1>20. CASE Raise(m)
    BY <1>2, <1>20, LeaveType DEF Raise, Places, Work
  <1>21. CASE Crash(m)
    BY <1>2, <1>21, LeaveType DEF Crash, Places, Work
  <1>22. ASSUME NEW o \in Operations, NEW r \in Releases, Begin(m, o, r)
        PROVE  ManagersOK' /\ Working'
    <2>1. PICK l \in Places \ Work : pc' = [pc EXCEPT ![m] = l]
      BY <1>22 DEF Begin, Places, Work
    <2>2. PICK T \in SUBSET Tables : targets' = [targets EXCEPT ![m] = T]
      BY <1>22 DEF Begin
    <2>3. /\ op' = [op EXCEPT ![m] = o]
          /\ release' = [release EXCEPT ![m] = r]
          /\ at' = [at EXCEPT ![m] = 1]
          /\ conn' = conn
      BY <1>22 DEF Begin
    <2>4. QED
      BY <1>2, <2>1, <2>2, <2>3 DEF ManagersOK, Working, More
  <1>23. QED
    BY <1>1, <1>2, <1>3, <1>4, <1>5, <1>6, <1>7, <1>8, <1>9, <1>10, <1>11, <1>12, <1>13,
       <1>14, <1>15, <1>16, <1>17, <1>18, <1>19, <1>20, <1>21, <1>22, <1>24 DEF Step

LEMMA DatabaseStep == ASSUME IInv, Next PROVE DatabaseOK'
  <1>1. PICK m \in Managers :
            \/ Step(m) \/ StatementFails(m) \/ Raise(m) \/ Crash(m)
            \/ \E o \in Operations, r \in Releases : Begin(m, o, r)
    BY DEF Next
  <1>2. DatabaseOK /\ ManagersOK /\ Working
    BY DEF IInv, TypeOK
  <1>3. CASE Terminate(m)
    BY <1>2, <1>3 DEF Terminate, DatabaseOK, database
  <1>4. CASE DropDatabase(m)
    <2>1. CASE \E n \in Managers : conn[n] = "open"
      BY <1>2, <1>4, <2>1 DEF DropDatabase, DatabaseOK, database
    <2>2. CASE ~\E n \in Managers : conn[n] = "open"
      <3>1. /\ present' = FALSE /\ registry' = FALSE /\ common' = FALSE
            /\ shape' = NoTables /\ extras' = {}
        BY <1>4, <2>2 DEF DropDatabase
      <3>2. NoTables \in [Tables -> Nat]
        BY DEF NoTables
      <3>3. QED
        BY <3>1, <3>2 DEF DatabaseOK
    <2>3. QED
      BY <2>1, <2>2
  <1>5. CASE CheckDatabase(m)
    BY <1>2, <1>5 DEF CheckDatabase, DatabaseOK, database
  <1>6. CASE CreateDatabase(m)
    BY <1>2, <1>6 DEF CreateDatabase, DatabaseOK, database
  <1>7. CASE Connect(m)
    BY <1>2, <1>7 DEF Connect, DatabaseOK, database
  <1>8. CASE DropTable(m)
    <2>1. Table(m) \in Tables
      BY <1>2, <1>8, TableType DEF DropTable
    <2>2. QED
      BY <1>2, <1>8, <2>1 DEF DropTable, DatabaseOK
  <1>9. CASE AllDropped(m)
    BY <1>2, <1>9 DEF AllDropped, DatabaseOK, database
  <1>10. CASE Skip(m)
    BY <1>2, <1>10 DEF Skip, DatabaseOK, database
  <1>11. CASE EnsureRegistry(m)
    BY <1>2, <1>11 DEF EnsureRegistry, DatabaseOK
  <1>12. CASE CommonStatements(m)
    BY <1>2, <1>12 DEF CommonStatements, DatabaseOK, database
  <1>13. CASE CreateTable(m)
    <2>1. Table(m) \in Tables /\ release[m] \in Releases
      BY <1>2, <1>13, TableType DEF CreateTable, ManagersOK
    <2>2. Shape[Table(m)][release[m]] \in Nat
      BY <2>1, Constants
    <2>3. QED
      BY <1>2, <1>13, <2>1, <2>2 DEF CreateTable, DatabaseOK
  <1>14. CASE Extras(m)
    <2>1. Table(m) \in Tables /\ release[m] \in Releases
      BY <1>2, <1>14, TableType DEF Extras, On, Working, Work, ManagersOK
    <2>2. QED
      BY <1>2, <1>14, <2>1 DEF Extras, DatabaseOK
  <1>15. CASE DiffExists(m)
    BY <1>2, <1>15 DEF DiffExists, DatabaseOK, database
  <1>16. CASE DiffColumns(m)
    BY <1>2, <1>16 DEF DiffColumns, DatabaseOK, database
  <1>17. CASE DiffHash(m)
    BY <1>2, <1>17 DEF DiffHash, DatabaseOK, database
  <1>24. CASE WriteComment(m)
    BY <1>2, <1>24 DEF WriteComment, DatabaseOK, database
  <1>18. CASE Finish(m)
    BY <1>2, <1>18 DEF Finish, DatabaseOK, database
  <1>19. CASE StatementFails(m)
    BY <1>2, <1>19 DEF StatementFails, DatabaseOK, database
  <1>20. CASE Raise(m)
    BY <1>2, <1>20 DEF Raise, DatabaseOK, database
  <1>21. CASE Crash(m)
    BY <1>2, <1>21 DEF Crash, DatabaseOK, database
  <1>22. ASSUME NEW o \in Operations, NEW r \in Releases, Begin(m, o, r)
        PROVE  DatabaseOK'
    BY <1>2, <1>22 DEF Begin, DatabaseOK, database
  <1>23. QED
    BY <1>1, <1>2, <1>3, <1>4, <1>5, <1>6, <1>7, <1>8, <1>9, <1>10, <1>11, <1>12, <1>13,
       <1>14, <1>15, <1>16, <1>17, <1>18, <1>19, <1>20, <1>21, <1>22, <1>24 DEF Step

LEMMA CountersStep ==
    ASSUME IInv, Next
    PROVE  quiet' \subseteq Managers /\ runs' \in 0 .. MaxRuns /\ faults' \in 0 .. MaxFaults
  <1>1. PICK m \in Managers :
            \/ Step(m) \/ StatementFails(m) \/ Raise(m) \/ Crash(m)
            \/ \E o \in Operations, r \in Releases : Begin(m, o, r)
    BY DEF Next
  <1>2. quiet \subseteq Managers /\ runs \in 0 .. MaxRuns /\ faults \in 0 .. MaxFaults
    BY DEF IInv, TypeOK
  <1>3. CASE Keep
    BY <1>2, <1>3 DEF Keep
  <1>4. Step(m) => Keep
    BY DEF Step, Terminate, DropDatabase, CheckDatabase, CreateDatabase, Connect,
           DropTable, AllDropped, Skip, EnsureRegistry, CommonStatements, CreateTable,
           Extras, DiffExists, DiffColumns, DiffHash, WriteComment, Finish, On
  <1>5. CASE StatementFails(m) \/ Raise(m)
    BY <1>2, <1>5, Constants DEF StatementFails, Raise
  <1>6. CASE Crash(m)
    BY <1>2, <1>6 DEF Crash
  <1>7. CASE \E o \in Operations, r \in Releases : Begin(m, o, r)
    <2>1. quiet' \subseteq Managers /\ faults' = faults
      BY <1>7 DEF Begin
    <2>2. runs' = runs + 1 /\ runs < MaxRuns
      BY <1>7 DEF Begin
    <2>3. QED
      BY <1>2, <2>1, <2>2, Constants
  <1>8. QED
    BY <1>1, <1>3, <1>4, <1>5, <1>6, <1>7

-----------------------------------------------------------------------------
(* A quiet run of ensure_schema or rebuild_tables                           *)

\* How far m has got with table t when it is at place l.
HalfwayAt(m, l, t) ==
    /\ l \in Work => t \in targets[m]
    /\ l = "extras" => There(t) \/ \E p \in Refs[t] : ~There(p)
    /\ l = "diff" => IF There(t) THEN t \in extras ELSE \E p \in Refs[t] : ~There(p)
    /\ l \in {"columns", "hash", "comment"} => There(t) /\ t \in extras
    /\ l = "hash" => ~ColumnsClean(m, t)
    /\ l = "comment" => ColumnsClean(m, t)

Halfway(m) == HalfwayAt(m, pc[m], Table(m))

\* The tables before the one m is at are passed, but that one itself if it is
\* listed twice.
PassedBehind(m) ==
    \A i \in 1 .. at[m] - 1 :
        LET t == Names[i] IN
        t \in targets[m] /\ ~(pc[m] \in Work \cup {"raised"} /\ t = Table(m)) => Passed(m, t)

Ended == {"done", "raised"}
Connected == {"connect", "drop_table", "registry", "common", "table"} \cup Work \cup Ended

RunGoesOn(m) ==
    /\ pc[m] \notin {"terminate", "drop"}
    /\ pc[m] \in Connected => present
    /\ pc[m] \in {"common", "table"} \cup Work \cup Ended => registry
    /\ pc[m] \in {"table"} \cup Work \cup Ended => common
    /\ Halfway(m)
    /\ pc[m] \in {"table"} \cup Work \cup Ended => PassedBehind(m)
    /\ pc[m] = "done" => ~More(m)
    /\ pc[m] = "raised" =>
          More(m) /\ Table(m) \in targets[m] \cap extras /\ ColumnsClean(m, Table(m))

RunsAlone(m) == \A n \in Managers : Running(n) => n = m

Repairs(m) == op[m] = "ensure" \/ (op[m] = "rebuild_tables" /\ present)

QuietOne(m) ==
    /\ RunsAlone(m)
    /\ pc[m] = "create" => ~present
    /\ pc[m] \in {"database", "connect", "registry", "common", "create", "terminate", "drop"}
          => at[m] = 1
    /\ Repairs(m) => RunGoesOn(m)

QuietInv == \A m \in quiet : QuietOne(m)

\* A step is of one manager that runs, and leaves the others where they are.
LEMMA StepMoves ==
    ASSUME ManagersOK, NEW m \in Managers, Step(m)
    PROVE  /\ Running(m) /\ Keep
           /\ release' = release
           /\ \A n \in Managers \ {m} :
                 pc'[n] = pc[n] /\ op'[n] = op[n] /\ at'[n] = at[n] /\ targets'[n] = targets[n]
  <1> USE DEF ManagersOK
  <1>1. CASE Terminate(m)
    BY <1>1 DEF Terminate, Running, Keep
  <1>2. CASE DropDatabase(m)
    BY <1>2 DEF DropDatabase, Running, Keep, Leave, Goto
  <1>3. CASE CheckDatabase(m)
    BY <1>3 DEF CheckDatabase, Running, Keep, Goto
  <1>4. CASE CreateDatabase(m)
    BY <1>4 DEF CreateDatabase, Running, Keep, Leave
  <1>5. CASE Connect(m)
    BY <1>5 DEF Connect, Running, Keep, Leave
  <1>6. CASE DropTable(m)
    BY <1>6 DEF DropTable, On, Running, Keep, Advance
  <1>7. CASE AllDropped(m)
    BY <1>7 DEF AllDropped, On, Running, Keep
  <1>8. CASE Skip(m)
    BY <1>8 DEF Skip, On, Running, Keep, Advance
  <1>9. CASE EnsureRegistry(m)
    BY <1>9 DEF EnsureRegistry, On, Running, Keep, Goto
  <1>10. CASE CommonStatements(m)
    BY <1>10 DEF CommonStatements, On, Running, Keep, Goto
  <1>11. CASE CreateTable(m)
    BY <1>11 DEF CreateTable, On, Running, Keep, Goto
  <1>12. CASE Extras(m)
    BY <1>12 DEF Extras, On, Running, Keep, Goto
  <1>13. CASE DiffExists(m)
    BY <1>13 DEF DiffExists, On, Running, Keep, Goto, Advance
  <1>14. CASE DiffColumns(m)
    BY <1>14 DEF DiffColumns, On, Running, Keep, Goto
  <1>15. CASE DiffHash(m)
    BY <1>15 DEF DiffHash, On, Running, Keep, Advance, Leave
  <1>18. CASE WriteComment(m)
    BY <1>18 DEF WriteComment, On, Running, Keep, Leave
  <1>16. CASE Finish(m)
    BY <1>16 DEF Finish, Running, Keep, Leave
  <1>17. QED
    BY <1>1, <1>2, <1>3, <1>4, <1>5, <1>6, <1>7, <1>8, <1>9, <1>10, <1>11, <1>12, <1>13,
       <1>14, <1>15, <1>16, <1>18 DEF Step

\* So is a failure or a crash, which touches nothing that is shared.
LEMMA FailureMoves ==
    ASSUME ManagersOK, NEW m \in Managers, StatementFails(m) \/ Raise(m) \/ Crash(m)
    PROVE  /\ Running(m)
           /\ quiet' = quiet \ {m}
           /\ UNCHANGED <<database, op, release>>
           /\ pc'[m] \in {"extras", "diff", "raised", "idle"}
           /\ pc'[m] = "extras" => pc[m] = "table" /\ ~Dry(m)
           /\ \A n \in Managers \ {m} : pc'[n] = pc[n] /\ at'[n] = at[n]
  BY DEF ManagersOK, StatementFails, Raise, Crash, Goto, Leave, Running

LEMMA BeginMoves ==
    ASSUME ManagersOK, NEW m \in Managers, NEW o \in Operations, NEW r \in Releases, Begin(m, o, r)
    PROVE  /\ ~Running(m)
           /\ UNCHANGED database
           /\ quiet' = {} \/ (quiet' = {m} /\ \A n \in Managers : ~Running(n))
           /\ pc'[m] = CASE o = "rebuild_database" -> "terminate"
                         [] o = "rebuild_tables" -> "connect"
                         [] OTHER -> "database"
           /\ op'[m] = o /\ at'[m] = 1 /\ release'[m] = r
           /\ \A n \in Managers \ {m} : pc'[n] = pc[n] /\ op'[n] = op[n] /\ at'[n] = at[n]
  BY DEF ManagersOK, Begin

\* Who is quiet after a step has begun with it, or has taken it.
LEMMA QuietMoves ==
    ASSUME IInv, QuietInv, Next, NEW m \in quiet'
    PROVE  /\ m \in Managers
           /\ \/ \E o \in Operations, r \in Releases : Begin(m, o, r) /\ \A n \in Managers : ~Running(n)
              \/ m \in quiet /\ Step(m)
  <1>1. PICK n \in Managers :
            \/ Step(n) \/ StatementFails(n) \/ Raise(n) \/ Crash(n)
            \/ \E o \in Operations, r \in Releases : Begin(n, o, r)
    BY DEF Next
  <1>2. ManagersOK /\ quiet \subseteq Managers
    BY DEF IInv, TypeOK
  <1>3. CASE Step(n)
    <2>1. Running(n) /\ quiet' = quiet
      BY <1>2, <1>3, StepMoves DEF Keep
    <2>2. m = n
      BY <2>1 DEF QuietInv, QuietOne, RunsAlone
    <2>3. QED
      BY <1>3, <2>1, <2>2
  <1>4. CASE StatementFails(n) \/ Raise(n) \/ Crash(n)
    <2>1. Running(n) /\ quiet' = quiet \ {n}
      BY <1>2, <1>4, FailureMoves
    <2>2. QED
      BY <2>1 DEF QuietInv, QuietOne, RunsAlone
  <1>5. ASSUME NEW o \in Operations, NEW r \in Releases, Begin(n, o, r)
        PROVE  m = n /\ \A k \in Managers : ~Running(k)
    BY <1>2, <1>5, BeginMoves
  <1>6. QED
    BY <1>1, <1>3, <1>4, <1>5

LEMMA OpFitsStep == ASSUME IInv, Next PROVE OpFits'
  <1>1. PICK n \in Managers :
            \/ Step(n) \/ StatementFails(n) \/ Raise(n) \/ Crash(n)
            \/ \E o \in Operations, r \in Releases : Begin(n, o, r)
    BY DEF Next
  <1>2. ManagersOK /\ OpFits
    BY DEF IInv, TypeOK
  <1> DEFINE Fits == /\ pc'[n] \in {"terminate", "drop"} => op'[n] = "rebuild_database"
                     /\ pc'[n] = "drop_table" => op'[n] = "rebuild_tables"
                     /\ pc'[n] \in {"create", "registry", "common", "extras", "comment"} =>
                           op'[n] # "diff"
  <1>3. CASE Step(n)
    <2>1. Fits
      <3> USE DEF ManagersOK
      <3>1. CASE Terminate(n)
        BY <1>2, <3>1 DEF Terminate, OpFits
      <3>2. CASE DropDatabase(n)
        BY <1>2, <3>2 DEF DropDatabase, Leave, Goto, OpFits
      <3>3. CASE CheckDatabase(n)
        BY <1>2, <3>3 DEF CheckDatabase, Goto, Dry
      <3>4. CASE CreateDatabase(n)
        BY <1>2, <3>4 DEF CreateDatabase, Leave
      <3>5. CASE Connect(n)
        BY <1>2, <3>5 DEF Connect, AfterConnect, Leave, Dry
      <3>6. CASE AllDropped(n)
        BY <1>2, <3>6 DEF AllDropped, On, OpFits
      <3>7. CASE EnsureRegistry(n)
        BY <1>2, <3>7 DEF EnsureRegistry, On, Goto, OpFits, Dry
      <3>8. CASE DropTable(n) \/ Skip(n) \/ CommonStatements(n) \/ CreateTable(n) \/ Extras(n)
        BY <1>2, <3>8
        DEF DropTable, Skip, CommonStatements, CreateTable, Extras, On, Goto, Advance, OpFits, Dry
      <3>9. CASE \/ DiffExists(n) \/ DiffColumns(n) \/ DiffHash(n) \/ WriteComment(n)
                 \/ Finish(n)
        BY <1>2, <3>9
        DEF DiffExists, DiffColumns, DiffHash, WriteComment, Finish, On, Goto, Advance, Leave, Dry
      <3>10. QED
        BY <1>3, <3>1, <3>2, <3>3, <3>4, <3>5, <3>6, <3>7, <3>8, <3>9 DEF Step
    <2>2. QED
      BY <1>2, <1>3, <2>1, StepMoves DEF OpFits, Dry
  <1>4. CASE StatementFails(n) \/ Raise(n) \/ Crash(n)
    BY <1>2, <1>4, FailureMoves DEF OpFits, Dry
  <1>5. ASSUME NEW o \in Operations, NEW r \in Releases, Begin(n, o, r) PROVE OpFits'
    BY <1>2, <1>5, BeginMoves DEF OpFits, Dry
  <1>6. QED
    BY <1>1, <1>3, <1>4, <1>5

\* What m does at the table it is at changes no other one that it has passed.
LEMMA PassedKept ==
    ASSUME NEW m \in Managers, NEW t \in Tables, Passed(m, t),
           release' = release,
           shape'[t] = shape[t],
           t \in extras => t \in extras',
           \A p \in Tables : ~There(p) /\ There(p)' => Before(t, p)
    PROVE  Passed(m, t)'
  <1>1. CASE There(t)
    BY <1>1 DEF Passed, There, ColumnsClean
  <1>2. CASE ~There(t)
    <2>1. PICK p \in Refs[t] : ~There(p) \/ Before(t, p)
      BY <1>2 DEF Passed, Orphan
    <2>2. p \in Tables
      BY SchemaAssumption DEF SchemaAssumption
    <2>3. ~There(p)' \/ Before(t, p)
      BY <2>1, <2>2
    <2>4. ~There(t)'
      BY <1>2 DEF There
    <2>5. QED
      BY <2>3, <2>4 DEF Passed, Orphan, Before
  <1>3. QED
    BY <1>1, <1>2

\* Behind the table m is at, it finds the table listed before that one.
LEMMA BehindIsBefore ==
    ASSUME ManagersOK, NEW m \in Managers, More(m), NEW i \in 1 .. at[m] - 1
    PROVE  /\ i \in 1 .. Len(Names) /\ at[m] \in 1 .. Len(Names)
           /\ Names[i] \in Tables
           /\ Before(Names[i], Table(m))
  <1>1. at[m] \in 1 .. Len(Names) + 1 /\ Len(Names) \in Nat /\ at[m] <= Len(Names)
    BY Constants DEF ManagersOK, More
  <1>2. i \in 1 .. Len(Names) /\ at[m] \in 1 .. Len(Names) /\ i < at[m]
    BY <1>1
  <1>3. DOMAIN Names = 1 .. Len(Names)
    BY SchemaAssumption DEF SchemaAssumption
  <1>4. QED
    BY <1>2, <1>3, Constants DEF Before, Table

\* While m goes on at its table or stops there, what is behind stays passed.
LEMMA BehindKept ==
    ASSUME ManagersOK, NEW m \in Managers, More(m), PassedBehind(m),
           pc[m] \in {"table"} \cup Work, pc'[m] \in Work \cup {"raised"},
           UNCHANGED <<release, targets, at>>,
           \A t \in Tables \ {Table(m)} :
               /\ shape'[t] = shape[t]
               /\ t \in extras => t \in extras'
    PROVE  PassedBehind(m)'
  <1> SUFFICES ASSUME NEW i \in 1 .. at[m] - 1, Names[i] \in targets[m], Names[i] # Table(m)
               PROVE  Passed(m, Names[i])'
    BY DEF PassedBehind, Table
  <1>1. Passed(m, Names[i])
    BY DEF PassedBehind
  <1>2. Names[i] \in Tables /\ Before(Names[i], Table(m))
    BY BehindIsBefore
  <1>3. \A p \in Tables : ~There(p) /\ There(p)' => Before(Names[i], p)
    BY <1>2 DEF There
  <1>4. QED
    BY <1>1, <1>2, <1>3, PassedKept

\* When it goes on to the next one, it has passed its own, or was not asked for it.
LEMMA BehindGrows ==
    ASSUME ManagersOK, NEW m \in Managers, More(m), PassedBehind(m),
           pc[m] \in {"table"} \cup Work, pc'[m] = "table",
           UNCHANGED <<release, targets, shape, extras>>, at'[m] = at[m] + 1,
           Table(m) \in targets[m] => Passed(m, Table(m))
    PROVE  PassedBehind(m)'
  <1> SUFFICES ASSUME NEW i \in 1 .. at[m], Names[i] \in targets[m]
               PROVE  Passed(m, Names[i])'
    <2>1. at[m] \in Nat
      BY Constants DEF ManagersOK
    <2>2. 1 .. at'[m] - 1 = 1 .. at[m]
      BY <2>1
    <2>3. QED
      BY <2>2 DEF PassedBehind
  <1>1. Passed(m, Names[i])
    <2>1. CASE Names[i] = Table(m)
      BY <2>1
    <2>2. CASE Names[i] # Table(m)
      <3>1. at[m] \in Nat /\ i # at[m]
        BY <2>2, Constants DEF ManagersOK, Table
      <3>2. i \in 1 .. at[m] - 1
        BY <3>1
      <3>3. QED
        BY <2>2, <3>2 DEF PassedBehind
    <2>3. QED
      BY <2>1, <2>2
  <1>2. QED
    BY <1>1 DEF Passed, Orphan, There, ColumnsClean

LEMMA BeginQuiet ==
    ASSUME IInv, NEW m \in Managers, NEW o \in Operations, NEW r \in Releases, Begin(m, o, r),
           \A n \in Managers : ~Running(n)
    PROVE  QuietOne(m)'
  <1>1. ManagersOK
    BY DEF IInv, TypeOK
  <1>2. /\ pc'[m] = CASE o = "rebuild_database" -> "terminate"
                      [] o = "rebuild_tables" -> "connect"
                      [] OTHER -> "database"
        /\ op'[m] = o /\ at'[m] = 1 /\ present' = present
        /\ \A n \in Managers \ {m} : pc'[n] = pc[n]
    BY <1>1, BeginMoves DEF database
  <1>3. RunsAlone(m)'
    BY <1>2 DEF RunsAlone, Running
  <1>4. /\ pc'[m] # "create"
        /\ o = "ensure" => pc'[m] = "database"
        /\ o = "rebuild_tables" => pc'[m] = "connect"
    BY <1>2
  <1>5. Repairs(m)' => RunGoesOn(m)'
    BY <1>2, <1>4 DEF Repairs, RunGoesOn, Halfway, HalfwayAt, Connected, Ended, Work
  <1>6. QED
    BY <1>2, <1>3, <1>4, <1>5 DEF QuietOne

\* Before the tables, a run goes on with the database it has found or made.
LEMMA QuietBefore ==
    ASSUME IInv, NEW m \in Managers, QuietOne(m),
           \/ Terminate(m) \/ DropDatabase(m) \/ CheckDatabase(m) \/ CreateDatabase(m)
           \/ Connect(m) \/ DropTable(m) \/ AllDropped(m)
           \/ EnsureRegistry(m) \/ CommonStatements(m)
    PROVE  /\ pc'[m] = "create" => ~present'
           /\ pc'[m] \in {"database", "connect", "registry", "common", "create", "terminate",
                          "drop"} => at'[m] = 1
           /\ Repairs(m)' => RunGoesOn(m)'
  <1> USE DEF ManagersOK
  <1>1. ManagersOK /\ DatabaseOK /\ OpFits
    BY DEF IInv, TypeOK
  <1>2. CASE Terminate(m)
    BY <1>1, <1>2 DEF Terminate, OpFits, QuietOne, Repairs
  <1>3. CASE DropDatabase(m)
    BY <1>1, <1>3 DEF DropDatabase, Leave, Goto, OpFits, QuietOne, Repairs
  <1>4. CASE CheckDatabase(m)
    <2>1. /\ pc[m] = "database" /\ UNCHANGED <<database, op, at>>
          /\ pc'[m] = IF present \/ Dry(m) THEN "connect" ELSE "create"
      BY <1>1, <1>4 DEF CheckDatabase, Goto
    <2>2. Repairs(m)' => ~Dry(m)
      BY <2>1 DEF Repairs, Dry
    <2>3. QED
      BY <2>1, <2>2
      DEF QuietOne, RunGoesOn, Halfway, HalfwayAt, Connected, Ended, Work, database
  <1>5. CASE CreateDatabase(m)
    <2>1. /\ ~present /\ pc'[m] = "database" /\ at' = at /\ pc[m] = "create"
      BY <1>1, <1>5 DEF CreateDatabase, QuietOne
    <2>2. QED
      BY <2>1 DEF QuietOne, RunGoesOn, Halfway, HalfwayAt, Connected, Ended, Work
  <1>6. CASE Connect(m)
    <2>1. pc[m] = "connect" /\ UNCHANGED <<database, op, at>> /\ at[m] = 1
      BY <1>1, <1>6 DEF Connect, Leave, QuietOne
    <2>2. ASSUME Repairs(m)' PROVE present /\ pc'[m] \in {"registry", "drop_table"}
      <3>1. Repairs(m) /\ ~Dry(m)
        BY <2>1, <2>2 DEF Repairs, database, Dry
      <3>2. present
        BY <2>1, <3>1 DEF QuietOne, RunGoesOn, Connected
      <3>3. pc' = [pc EXCEPT ![m] = AfterConnect(m)]
        BY <1>6, <3>2 DEF Connect
      <3>4. QED
        BY <1>1, <3>1, <3>2, <3>3 DEF AfterConnect
    <2>3. pc'[m] # "create"
      BY <1>1, <1>6 DEF Connect, AfterConnect, Leave
    <2>4. QED
      BY <2>1, <2>2, <2>3
      DEF RunGoesOn, Halfway, HalfwayAt, Connected, Ended, Work, database
  <1>7. CASE DropTable(m) \/ AllDropped(m)
    <2>1. pc[m] = "drop_table" /\ op' = op /\ op[m] = "rebuild_tables" /\ present' = present
      BY <1>1, <1>7 DEF DropTable, AllDropped, On, Advance, OpFits, database
    <2>2. /\ pc'[m] \in {"drop_table", "registry"}
          /\ pc'[m] = "registry" => at'[m] = 1
      BY <1>1, <1>7 DEF DropTable, AllDropped, On, Advance
    <2>3. QED
      BY <2>1, <2>2 DEF Repairs, RunGoesOn, Halfway, HalfwayAt, Connected, Ended, Work
  <1>8. CASE EnsureRegistry(m)
    <2>1. /\ pc[m] = "registry" /\ UNCHANGED <<present, op, at>> /\ pc'[m] = "common"
          /\ registry'
      BY <1>1, <1>8 DEF EnsureRegistry, On, Goto
    <2>2. QED
      BY <2>1
      DEF QuietOne, Repairs, RunGoesOn, Halfway, HalfwayAt, Connected, Ended, Work
  <1>9. CASE CommonStatements(m)
    <2>1. /\ pc[m] = "common" /\ UNCHANGED <<present, registry, op, at>>
          /\ pc'[m] = "table" /\ common'
      BY <1>1, <1>9 DEF CommonStatements, On, Goto
    <2>2. at[m] = 1
      BY <2>1 DEF QuietOne
    <2>3. PassedBehind(m)'
      BY <2>1, <2>2 DEF PassedBehind
    <2>4. QED
      BY <2>1, <2>3
      DEF QuietOne, Repairs, RunGoesOn, Halfway, HalfwayAt, Connected, Ended, Work
  <1>10. QED
    BY <1>2, <1>3, <1>4, <1>5, <1>6, <1>7, <1>8, <1>9

\* A run at its tables.
AtTables(m) ==
    /\ pc[m] \in {"table"} \cup Work
    /\ present /\ registry /\ common
    /\ Halfway(m)
    /\ PassedBehind(m)

\* The steps at a table that go on with it.
LEMMA QuietAtTable ==
    ASSUME IInv, NEW m \in Managers, ~Dry(m), AtTables(m),
           \/ CreateTable(m) \/ Extras(m) \/ DiffColumns(m)
           \/ DiffExists(m) /\ There(Table(m))
    PROVE  AtTables(m)'
  <1>1. ManagersOK /\ DatabaseOK
    BY DEF IInv, TypeOK
  <1>2. More(m)
    BY DEF CreateTable, Extras, DiffExists, DiffColumns, On, IInv, Working, Work
  <1>3. PICK t \in Tables : t = Table(m)
    BY <1>1, <1>2, TableType
  <1>4. /\ UNCHANGED <<op, release, targets, at, present, common, registry>>
        /\ pc'[m] \in Work
    BY <1>1 DEF CreateTable, Extras, DiffExists, DiffColumns, Goto, ManagersOK, Work, database
  <1>5. Table(m)' = t
    BY <1>3, <1>4 DEF Table
  <1>6. \A u \in Tables \ {t} :
            /\ shape'[u] = shape[u]
            /\ u \in extras => u \in extras'
    BY <1>1, <1>3 DEF CreateTable, Extras, DiffExists, DiffColumns, database, DatabaseOK
  <1>7. PassedBehind(m)'
    BY <1>1, <1>2, <1>3, <1>4, <1>6, BehindKept DEF AtTables
  <1>8. HalfwayAt(m, pc[m], t)
    BY <1>3 DEF AtTables, Halfway
  <1>9. Halfway(m)'
    <2>1. CASE CreateTable(m)
      <3>1. /\ pc'[m] = "extras" /\ t \in targets[m]
            /\ shape' = IF ~There(t) /\ \A p \in Refs[t] : There(p)
                          THEN [shape EXCEPT ![t] = Shape[t][release[m]]] ELSE shape
        BY <1>1, <2>1, <1>3 DEF CreateTable, Goto, ManagersOK
      <3>2. Shape[t][release[m]] # 0
        BY <1>1, <1>3, Constants DEF ManagersOK
      <3>3. There(t)' \/ \E p \in Refs[t] : ~There(p)'
        <4>1. CASE ~There(t) /\ \A p \in Refs[t] : There(p)
          BY <1>1, <1>3, <3>1, <3>2, <4>1 DEF There, DatabaseOK
        <4>2. CASE There(t) \/ \E p \in Refs[t] : ~There(p)
          <5>1. There(t) => There(t)'
            BY <3>1, <4>2 DEF There
          <5>2. ~There(t) => shape' = shape
            BY <3>1, <4>2
          <5>3. QED
            BY <4>2, <5>1, <5>2 DEF There
        <4>3. QED
          BY <4>1, <4>2
      <3>4. QED
        BY <1>4, <1>5, <3>1, <3>3 DEF Halfway, HalfwayAt
    <2>2. CASE Extras(m)
      <3>1. /\ pc[m] = "extras" /\ pc'[m] = "diff" /\ shape' = shape
            /\ extras' = IF There(t) THEN extras \cup {t} ELSE extras
        BY <1>1, <2>2, <1>3 DEF Extras, On, Goto, ManagersOK
      <3>2. t \in targets[m] /\ (There(t) \/ \E p \in Refs[t] : ~There(p))
        BY <1>8, <3>1 DEF HalfwayAt, Work
      <3>3. QED
        BY <1>4, <1>5, <3>1, <3>2 DEF Halfway, HalfwayAt, There
    <2>3. CASE DiffExists(m) /\ There(Table(m))
      <3>1. /\ There(t) /\ pc[m] = "diff" /\ pc'[m] = "columns"
            /\ UNCHANGED <<shape, extras>>
        BY <1>1, <2>3, <1>3 DEF DiffExists, On, Goto, ManagersOK, database
      <3>2. t \in extras /\ t \in targets[m]
        BY <1>8, <3>1 DEF HalfwayAt, Work
      <3>3. QED
        BY <1>4, <1>5, <3>1, <3>2 DEF Halfway, HalfwayAt, There
    <2>4. CASE DiffColumns(m)
      <3>1. /\ pc[m] = "columns" /\ UNCHANGED <<shape, extras>>
            /\ pc'[m] = IF ColumnsClean(m, t) THEN "comment" ELSE "hash"
        BY <1>1, <2>4, <1>3 DEF DiffColumns, On, Goto, ManagersOK, database
      <3>2. There(t) /\ t \in extras /\ t \in targets[m]
        BY <1>8, <3>1 DEF HalfwayAt, Work
      <3>3. ColumnsClean(m, t)' <=> ColumnsClean(m, t)
        BY <1>4, <3>1 DEF ColumnsClean, There
      <3>4. There(t)'
        BY <3>1, <3>2 DEF There
      <3>5. CASE ColumnsClean(m, t)
        BY <1>4, <1>5, <3>1, <3>2, <3>3, <3>4, <3>5 DEF Halfway, HalfwayAt
      <3>6. CASE ~ColumnsClean(m, t)
        BY <1>4, <1>5, <3>1, <3>2, <3>3, <3>4, <3>6 DEF Halfway, HalfwayAt
      <3>7. QED
        BY <3>5, <3>6
    <2>5. QED
      BY <2>1, <2>2, <2>3, <2>4
  <1>10. QED
    BY <1>4, <1>7, <1>9 DEF AtTables

\* Those that go on to the next table.
LEMMA QuietToNext ==
    ASSUME IInv, NEW m \in Managers, ~Dry(m), AtTables(m),
           Skip(m) \/ DiffHash(m) \/ (DiffExists(m) /\ ~There(Table(m)))
    PROVE  AtTables(m)'
  <1>1. ManagersOK
    BY DEF IInv, TypeOK
  <1>2. More(m)
    BY DEF Skip, DiffHash, DiffExists, On, IInv, Working, Work
  <1>3. HalfwayAt(m, pc[m], Table(m))
    BY DEF AtTables, Halfway
  <1>4. /\ UNCHANGED <<release, targets, present, registry, common, shape, extras>>
        /\ pc'[m] = "table" /\ at'[m] = at[m] + 1
    <2>1. CASE Skip(m)
      BY <1>1, <2>1 DEF Skip, Advance, ManagersOK, database, AtTables, Work
    <2>2. CASE DiffHash(m)
      <3>1. There(Table(m))
        BY <1>3, <2>2 DEF DiffHash, On, HalfwayAt
      <3>2. QED
        BY <1>1, <2>2, <3>1 DEF DiffHash, Advance, ManagersOK, database
    <2>3. CASE DiffExists(m) /\ ~There(Table(m))
      BY <1>1, <2>3 DEF DiffExists, Advance, ManagersOK, database
    <2>4. QED
      BY <2>1, <2>2, <2>3
  <1>5. Table(m) \in targets[m] => Passed(m, Table(m))
    BY <1>3 DEF Skip, DiffHash, DiffExists, On, HalfwayAt, Passed, Orphan
  <1>6. PassedBehind(m)'
    BY <1>1, <1>2, <1>4, <1>5, BehindGrows DEF AtTables
  <1>7. Halfway(m)'
    BY <1>4 DEF Halfway, HalfwayAt, Work
  <1>8. QED
    BY <1>4, <1>6, <1>7 DEF AtTables

\* The comment that PostgreSQL rejects ends the run at a table with its columns.
LEMMA QuietRaises ==
    ASSUME IInv, NEW m \in Managers, AtTables(m), WriteComment(m)
    PROVE  RunGoesOn(m)'
  <1>1. ManagersOK /\ More(m)
    BY DEF IInv, TypeOK, Working, Work, WriteComment, On
  <1>2. /\ pc[m] = "comment" /\ pc'[m] = "raised"
        /\ UNCHANGED <<database, release, at, targets>>
    BY <1>1 DEF WriteComment, On, Leave, ManagersOK
  <1>3. Table(m)' = Table(m) /\ More(m)'
    BY <1>1, <1>2 DEF Table, More
  <1>4. /\ Table(m) \in targets[m] /\ Table(m) \in extras
        /\ ColumnsClean(m, Table(m))
    BY <1>2 DEF AtTables, Halfway, HalfwayAt, Work
  <1>5. ColumnsClean(m, Table(m))'
    BY <1>2, <1>3, <1>4 DEF ColumnsClean, There, database
  <1>6. PassedBehind(m)'
    BY <1>1, <1>2, BehindKept DEF AtTables, Work, database
  <1>7. Halfway(m)'
    BY <1>2 DEF Halfway, HalfwayAt, Work
  <1>8. QED
    BY <1>2, <1>3, <1>4, <1>5, <1>6, <1>7 DEF RunGoesOn, Connected, Ended, Work, AtTables, database

\* After the last table all that was asked for are passed.
LEMMA QuietFinish ==
    ASSUME IInv, NEW m \in Managers, AtTables(m), Finish(m)
    PROVE  RunGoesOn(m)'
  <1>1. ManagersOK
    BY DEF IInv, TypeOK
  <1>2. /\ pc[m] = "table" /\ pc'[m] = "done" /\ ~More(m)
        /\ at'[m] = at[m] /\ targets'[m] = targets[m]
        /\ UNCHANGED <<database, release>>
    BY <1>1 DEF Finish, Leave, ManagersOK
  <1>3. ~More(m)'
    BY <1>2 DEF More
  <1>4. PassedBehind(m)'
    BY <1>2
    DEF AtTables, PassedBehind, Passed, Orphan, There, ColumnsClean, Work, database
  <1>5. Halfway(m)'
    BY <1>2 DEF Halfway, HalfwayAt, Work
  <1>6. QED
    BY <1>2, <1>3, <1>4, <1>5 DEF RunGoesOn, Connected, Ended, Work, AtTables, database

LEMMA QuietOneStep ==
    ASSUME IInv, NEW m \in Managers, QuietOne(m), Step(m)
    PROVE  QuietOne(m)'
  <1>1. ManagersOK
    BY DEF IInv, TypeOK
  <1>2. RunsAlone(m)'
    BY <1>1, StepMoves DEF QuietOne, RunsAlone, Running
  <1>3. CASE \/ Terminate(m) \/ DropDatabase(m) \/ CheckDatabase(m) \/ CreateDatabase(m)
             \/ Connect(m) \/ DropTable(m) \/ AllDropped(m)
             \/ EnsureRegistry(m) \/ CommonStatements(m)
    BY <1>2, <1>3, QuietBefore DEF QuietOne
  <1>4. CASE Skip(m) /\ pc[m] = "drop_table"
    <2>1. pc'[m] = "drop_table" /\ UNCHANGED <<op, database>>
      BY <1>1, <1>4 DEF Skip, Advance, ManagersOK
    <2>2. Repairs(m)' => RunGoesOn(m)'
      BY <1>4, <2>1
      DEF QuietOne, Repairs, RunGoesOn, Halfway, HalfwayAt, Connected, Ended, Work, database
    <2>3. QED
      BY <1>2, <2>1, <2>2 DEF QuietOne
  <1>5. CASE \/ Skip(m) /\ pc[m] # "drop_table"
             \/ CreateTable(m) \/ Extras(m) \/ DiffExists(m) \/ DiffColumns(m)
             \/ DiffHash(m) \/ WriteComment(m) \/ Finish(m)
    <2>1. op' = op /\ present' = present /\ pc[m] \in {"table"} \cup Work
      BY <1>5
      DEF Skip, CreateTable, Extras, DiffExists, DiffColumns, DiffHash, WriteComment, Finish,
          On, Goto, Advance, Leave, Work, database
    <2>2. pc'[m] \in {"table"} \cup Work \cup Ended
      BY <1>1, <1>5, <2>1
      DEF Skip, CreateTable, Extras, DiffExists, DiffColumns, DiffHash, WriteComment, Finish,
          Goto, Advance, Leave, Work, Ended, ManagersOK
    <2>3. ASSUME Repairs(m)' PROVE RunGoesOn(m)'
      <3>1. ~Dry(m) /\ Repairs(m)
        BY <2>1, <2>3 DEF Repairs, Dry
      <3>2. AtTables(m)
        BY <2>1, <3>1 DEF QuietOne, RunGoesOn, AtTables, Connected, Ended
      <3>3. AtTables(m)' => RunGoesOn(m)'
        BY DEF AtTables, RunGoesOn, Connected, Ended, Work
      <3>4. QED
        BY <1>5, <2>1, <3>1, <3>2, <3>3, QuietAtTable, QuietToNext, QuietRaises, QuietFinish
    <2>4. QED
      BY <1>2, <2>2, <2>3 DEF QuietOne, Work, Ended
  <1>6. QED
    BY <1>3, <1>4, <1>5 DEF Step

LEMMA QuietStep == ASSUME IInv, QuietInv, Next PROVE QuietInv'
  BY QuietMoves, BeginQuiet, QuietOneStep DEF QuietInv

-----------------------------------------------------------------------------
(* The theorems                                                             *)

LEMMA InitInv == Init => IInv
  <1> SUFFICES ASSUME Init PROVE IInv
    OBVIOUS
  <1>1. (CHOOSE r \in Releases : TRUE) \in Releases
    BY SchemaAssumption DEF SchemaAssumption
  <1>2. DatabaseOK
    BY DEF Init, DatabaseOK, NoTables
  <1>3. ManagersOK
    BY <1>1, Constants DEF Init, ManagersOK, Operations, Places
  <1>4. TypeOK
    BY <1>2, <1>3, Constants DEF Init, TypeOK
  <1>5. Working /\ OpFits
    BY DEF Init, Working, Work, OpFits
  <1>6. QED
    BY <1>4, <1>5 DEF IInv

LEMMA InvStep == IInv /\ [Next]_vars => IInv'
  <1> SUFFICES ASSUME IInv, [Next]_vars PROVE IInv'
    OBVIOUS
  <1>1. CASE Next
    <2>1. TypeOK' /\ Working'
      BY <1>1, ManagersStep, DatabaseStep, CountersStep DEF TypeOK
    <2>2. QED
      BY <1>1, <2>1, OpFitsStep DEF IInv
  <1>2. CASE UNCHANGED vars
    BY <1>2
    DEF vars, database, manager, IInv, TypeOK, DatabaseOK, ManagersOK, Working, More, OpFits, Dry
  <1>3. QED
    BY <1>1, <1>2

\* The state of the database and of every manager has its type: no place of the code is
\* reached with a table, a connection or a registry of another kind.
THEOREM TypeCorrect == Spec => []TypeOK
  <1>1. IInv => TypeOK
    BY DEF IInv
  <1>2. QED
    BY <1>1, InitInv, InvStep, PTL DEF Spec

LEMMA QuietInit == Init => QuietInv
  BY DEF Init, QuietInv

LEMMA QuietNext == IInv /\ QuietInv /\ [Next]_vars => QuietInv'
  <1> SUFFICES ASSUME IInv, QuietInv, [Next]_vars PROVE QuietInv'
    OBVIOUS
  <1>1. CASE Next
    BY <1>1, QuietStep
  <1>2. CASE UNCHANGED vars
    BY <1>2
    DEF vars, database, manager, Dry, QuietInv, QuietOne, RunsAlone, Running, Repairs, RunGoesOn,
        Halfway, HalfwayAt, Table, More, There, PassedBehind, Passed, Orphan, ColumnsClean
  <1>3. QED
    BY <1>1, <1>2

\* A run of ensure_schema or rebuild_tables in which nothing failed by itself and no
\* other manager took part repairs what failures, crashes and other managers before it
\* have left, up to the first table with the columns of its script, and that table is
\* where and why it raises: for any order of the tables, any references between them
\* and any way in which the scripts are misread.
THEOREM QuietRunsReach == Spec => []QuietRunReaches
  <1>1. QuietInv => QuietRunReaches
    BY DEF QuietInv, QuietOne, Repairs, RunGoesOn, PassedBehind, Connected, Ended, Work,
           QuietRunReaches
  <1>2. QED
    BY <1>1, InitInv, InvStep, QuietInit, QuietNext, PTL DEF Spec

\* diff_schema changes nothing in the database, whatever other managers do and wherever
\* it fails: a step that moves a dry run leaves the database as it is.
THEOREM DryRunWritesNothing == Spec => DiffWritesNothing
  <1> DEFINE A == \A m \in Managers :
                     Dry(m) /\ Running(m) /\ <<pc[m], at[m]>>' # <<pc[m], at[m]>>
                         => UNCHANGED database
  <1>1. ASSUME IInv, Next PROVE A
    <2> SUFFICES ASSUME NEW m \in Managers, Dry(m), Running(m),
                        <<pc[m], at[m]>>' # <<pc[m], at[m]>>
                 PROVE  UNCHANGED database
      OBVIOUS
    <2>1. ManagersOK /\ OpFits
      BY <1>1 DEF IInv, TypeOK
    <2>2. PICK n \in Managers :
              \/ Step(n) \/ StatementFails(n) \/ Raise(n) \/ Crash(n)
              \/ \E o \in Operations, r \in Releases : Begin(n, o, r)
      BY <1>1 DEF Next
    <2>3. CASE StatementFails(n) \/ Raise(n) \/ Crash(n)
      BY <2>1, <2>3, FailureMoves
    <2>4. ASSUME NEW o \in Operations, NEW r \in Releases, Begin(n, o, r) PROVE UNCHANGED database
      BY <2>1, <2>4, BeginMoves
    <2>5. CASE Step(n)
      <3>1. n = m
        BY <2>1, <2>5, StepMoves
      <3>2. pc[m] \notin {"terminate", "drop", "create", "drop_table", "registry", "common",
                          "extras"}
        BY <2>1 DEF OpFits, Dry
      <3>3. CASE CreateTable(m)
        BY <3>3 DEF CreateTable, database
      <3>4. CASE \/ CheckDatabase(m) \/ Connect(m) \/ AllDropped(m) \/ Skip(m)
                 \/ DiffExists(m) \/ DiffColumns(m) \/ DiffHash(m) \/ WriteComment(m)
                 \/ Finish(m)
        BY <3>4
        DEF CheckDatabase, Connect, AllDropped, Skip, DiffExists, DiffColumns, DiffHash,
            WriteComment, Finish
      <3>5. QED
        BY <2>5, <3>1, <3>2, <3>3, <3>4
        DEF Step, Terminate, DropDatabase, CreateDatabase, DropTable, EnsureRegistry,
            CommonStatements, Extras, On
    <2>6. QED
      BY <2>2, <2>3, <2>4, <2>5
  <1>2. IInv /\ [Next]_vars => [A]_vars
    BY <1>1
  <1>3. QED
    BY <1>2, InitInv, InvStep, PTL DEF Spec, DiffWritesNothing

-----------------------------------------------------------------------------
(* The loader in front of the managers                                      *)

\* What the managers do behind a loader they do without it as well: what is proved of
\* them alone holds of the service.
THEOREM ServiceApplies == ServiceSpec => Spec
  <1>1. ServiceInit => Init
    BY DEF ServiceInit
  <1>2. [ServiceNext]_serviceVars => [Next]_vars
    BY DEF ServiceNext, LoadItem, EndOfFile, Apply, serviceVars
  <1>3. QED
    BY <1>1, <1>2, PTL DEF ServiceSpec, Spec

\* The files of a directory are cut one after the other, and the end of one leaves nothing
\* behind that would make the splitters cut the next one where psql does not.
THEOREM FilesCutAlike == ServiceSpec => []CutsAgree
  <1>1. ServiceInit => ScanInv
    BY ScanInitInv DEF ServiceInit
  <1>2. ASSUME ScanInv, [ServiceNext]_serviceVars PROVE ScanInv'
    <2>1. CASE LoadItem
      BY <1>2, <2>1, ScanStep DEF LoadItem
    <2>2. CASE EndOfFile
      BY <2>2 DEF EndOfFile, ScanInv, ScanTypeOK, CoreFollows, SchemaFollows, LexFlat, CutsAgree,
         Modes, Comments
    <2>3. CASE UNCHANGED scanVars
      BY <1>2, <2>3, ScanStep
    <2>4. QED
      BY <1>2, <2>1, <2>2, <2>3 DEF ServiceNext, Apply, serviceVars
  <1>3. ScanInv => CutsAgree
    BY DEF ScanInv
  <1>4. QED
    BY <1>1, <1>2, <1>3, PTL DEF ServiceSpec
=============================================================================
