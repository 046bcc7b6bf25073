------------------------------ MODULE Redline ------------------------------
(***************************************************************************)
(* redlineparser, main and writeParquetFile: a run reads the six kinds of  *)
(* file of one input folder, one after the other, and writes the rows of   *)
(* each to a file of the output folder that is named by the kind and the   *)
(* folder's UniqueID: its HWID, or one made up, and the date of its log,   *)
(* or today's.  The program is run on one folder after another into the    *)
(* same output folder.                                                     *)
(*                                                                         *)
(* A row is known by the run that read it and its number.  An output file  *)
(* is truncated when it is created and can be read only after WriteStop.   *)
(* How rows come out of the text is in RedlineParse.                       *)
(***************************************************************************)
EXTENDS Naturals, Sequences

CONSTANTS HWID, Date,       \* values the folders' UserInformation.txt has
          Stages,           \* the kinds in order: user_info, passwords,
                            \* autofills, installed_software, processes,
                            \* cookies, or some of them
          MaxRows,          \* bound on the rows of a file
          RlMaxRuns         \* bound on runs

Kind == {Stages[k] : k \in 1..Len(Stages)}
Missing == "missing"
Today == "today"
ASSUME RedlineAssumption ==
    /\ Len(Stages) > 0 /\ Stages[1] = "user_info"
    /\ \A i, j \in 1..Len(Stages) : Stages[i] = Stages[j] => i = j
    /\ MaxRows \in Nat \ {0} /\ RlMaxRuns \in Nat /\ Missing \notin HWID \cup Date

VARIABLES rlPc,         \* "read", "create", "rows", "stop", "done" or "panic"
          rlRun,
          stage,        \* index of the kind at work
          uid,          \* UniqueID
          rows,         \* rows read of this kind
          written,      \* ... and how many of them are in the writer
          output,       \* output[k, u]: the rows of the file, whether it is
                        \* whole, or NoFile
          told          \* kinds that this run printed an error of

rlVars == <<rlPc, rlRun, stage, uid, rows, written, output, told>>

\* uuid.NewString makes up one that no folder and no other run has.
Made(r) == <<"uuid", r>>
UniqueIDs == ({<<"hwid", h>> : h \in HWID} \cup {Made(r) : r \in 1..RlMaxRuns}) \X (Date \cup {Today})
NoFile == [rows |-> <<>>, whole |-> FALSE, run |-> 0]
RlRow == (1..RlMaxRuns) \X (1..MaxRows)

Now == Stages[stage]
Out == output[<<Now, uid>>]

RlInit ==
    /\ rlPc = "done" /\ rlRun = 0 /\ stage = 1 /\ uid = <<>> /\ rows = <<>> /\ written = 0
    /\ output = [f \in Kind \X UniqueIDs |-> NoFile]
    /\ told = {}

Tell == told' = told \cup {Now}

\* The next kind, or the end.
Advance ==
    /\ rlPc' = IF stage < Len(Stages) THEN "read" ELSE "done"
    /\ stage' = IF stage < Len(Stages) THEN stage + 1 ELSE stage
    /\ rows' = <<>> /\ written' = 0

-----------------------------------------------------------------------------
(* readUserInformation and the UniqueID: an error leaves all fields empty, *)
(* and goes on.                                                            *)
UniqueID(h, d) == <<IF h = Missing THEN Made(rlRun') ELSE <<"hwid", h>>, IF d = Missing THEN Today ELSE d>>
RunRedline ==
    /\ rlPc \in {"done", "panic"} /\ rlRun < RlMaxRuns /\ rlRun' = rlRun + 1
    /\ \/ /\ \E h \in HWID \cup {Missing}, d \in Date \cup {Missing} : uid' = UniqueID(h, d)
          /\ told' = {}
       \/ /\ uid' = UniqueID(Missing, Missing)
          /\ told' = {"user_info"}
    /\ stage' = 1 /\ rlPc' = "create" /\ rows' = <<<<rlRun', 1>>>> /\ written' = 0
    /\ UNCHANGED output

ReadFails == Tell /\ Advance

(* One of the other five readers: an error is told and nothing written;    *)
(* readInstalledSoftware panics on a name without a space.                 *)
ReadKind ==
    /\ rlPc = "read"
    /\ \/ /\ \E n \in 0..MaxRows : rows' = [i \in 1..n |-> <<rlRun, i>>]
          /\ rlPc' = "create" /\ UNCHANGED <<stage, written, told>>
       \/ ReadFails
       \/ /\ Now = "installed_software" /\ rlPc' = "panic"
          /\ UNCHANGED <<stage, rows, written, told>>
    /\ UNCHANGED <<rlRun, uid, output>>

Replace(f) == output' = [output EXCEPT ![<<Now, uid>>] = f]

\* writeParquetFile returns an error, which main prints.
Fails == Advance /\ Tell

\* Mutant: the file is opened without truncating it.
CreateKeeps ==
    /\ rlPc = "create"
    /\ \/ Replace([Out EXCEPT !.whole = FALSE, !.run = rlRun]) /\ rlPc' = "rows" /\ UNCHANGED <<stage, rows, written, told>>
       \/ Fails /\ UNCHANGED output
    /\ UNCHANGED <<rlRun, uid>>
(* writeParquetFile: the file is created, its old content gone; the        *)
(* writer may refuse the data then.                                        *)
CreateFile ==
    /\ rlPc = "create"
    /\ \/ Replace([rows |-> <<>>, whole |-> FALSE, run |-> rlRun]) /\ rlPc' = "rows"
          /\ UNCHANGED <<stage, rows, written, told>>
       \/ Fails /\ UNCHANGED output
       \/ Fails /\ Replace([rows |-> <<>>, whole |-> FALSE, run |-> rlRun])
    /\ UNCHANGED <<rlRun, uid>>

WriteRow ==
    /\ rlPc = "rows" /\ written < Len(rows)
    /\ \/ /\ Replace([Out EXCEPT !.rows = Append(@, rows[written + 1])])
          /\ written' = written + 1 /\ UNCHANGED <<rlPc, stage, rows, told>>
       \/ Fails /\ UNCHANGED output
    /\ UNCHANGED <<rlRun, uid>>

WriteStop ==
    /\ rlPc = "rows" /\ written = Len(rows)
    /\ \/ Replace([Out EXCEPT !.whole = TRUE]) /\ Advance /\ UNCHANGED told
       \/ Fails /\ UNCHANGED output
    /\ UNCHANGED <<rlRun, uid>>

RlWork == ReadKind \/ CreateFile \/ WriteRow \/ WriteStop
RlNext == RunRedline \/ RlWork

RlSpec == RlInit /\ [][RlNext]_rlVars
RlFairSpec == RlSpec /\ WF_rlVars(RlWork)

-----------------------------------------------------------------------------
RlTypeOK ==
    /\ rlPc \in {"read", "create", "rows", "done", "panic"}
    /\ rlRun \in 0..RlMaxRuns /\ stage \in 1..Len(Stages)
    /\ uid \in UniqueIDs \cup {<<>>}
    /\ rows \in Seq(RlRow) /\ written \in 0..Len(rows)
    /\ output \in [Kind \X UniqueIDs -> [rows : Seq(RlRow), whole : BOOLEAN, run : 0..RlMaxRuns]]
    /\ told \subseteq Kind

(* A file holds the first rows of one run and of no other, in order,       *)
(* whatever a run before it left under the same name (main.go:564-629).    *)
OneRunPerFile ==
    \A f \in DOMAIN output : LET o == output[f] IN
        o.rows = [i \in 1..Len(o.rows) |-> <<o.run, i>>]

(* When a run has come to its end, each kind is in a whole file of its own *)
(* run, or an error was told of it (main.go:120-206).                      *)
WholeOrTold ==
    rlPc = "done" /\ rlRun > 0 =>
        \A k \in Kind : \/ k \in told
                        \/ output[<<k, uid>>].whole /\ output[<<k, uid>>].run = rlRun

(* A run that panics has left no later kind of its own, and the earlier    *)
(* ones whole or told of: nothing half-written is passed off as whole.     *)
PanicKeepsOrder ==
    rlPc = "panic" =>
        \A s \in 1..Len(Stages) : LET o == output[<<Stages[s], uid>>] IN
            /\ s < stage => Stages[s] \in told \/ (o.whole /\ o.run = rlRun)
            /\ s >= stage => o.run # rlRun

(* The three together: what is found in the output folder is one run's, and *)
(* whole or told of.                                                       *)
FilesOfRuns == OneRunPerFile /\ WholeOrTold /\ PanicKeepsOrder

(* UniqueID "is unique across all entries" (main.go:22): no run replaces a *)
(* whole file of another.                                                  *)
WholeStays ==
    [][\A f \in DOMAIN output : output[f].whole => output'[f].run = output[f].run]_rlVars
=============================================================================
