------------------------------- MODULE UserImport -------------------------------
(***************************************************************************)
(* Bulk import of users in two requests: one validates the rows and keeps  *)
(* them under a token in the memory of the process, for 30 minutes; the    *)
(* other inserts every row in one transaction, then drops the token.       *)
(* Usernames stand for usernames and emails. The other rules (required     *)
(* fields, departments, roles, scopes) refuse nondeterministically.        *)
(***************************************************************************)
EXTENDS Naturals, FiniteSets, Sequences, SequencesExt

CONSTANTS
    Names,
    ImportTokens,
    Importers,      \* requests executed at the same time
    MaxRows,        \* 500
    MaxAccounts,    \* accounts with one name (bound)
    MaxEvents,      \* events with one name (bound)
    MaxBoots,       \* restarts (bound)
    NoToken

ASSUME UserImportAssumption ==
    /\ MaxRows \in Nat \ {0} /\ MaxAccounts \in Nat \ {0} /\ MaxEvents \in Nat \ {0}
    /\ MaxBoots \in Nat
    /\ NoToken \notin ImportTokens /\ IsFiniteSet(Importers)

VARIABLES
    accounts,    \* users with each name
    logged,      \* USER_INVITED_VIA_IMPORT events with each name
    swallowed,   \* such events whose INSERT failed (auxiliary)
    batch,       \* tokenCache
    importer,
    imported,    \* accounts that came by an import, by name (auxiliary)
    runs,        \* commits of a token's rows (auxiliary)
    boots        \* restarts of the process

importVars == <<accounts, logged, swallowed, batch, importer, imported, runs, boots>>

-----------------------------------------------------------------------------
Rows == BoundedSeq(Names, MaxRows)

\* stale: an account was added since the names were looked up (auxiliary).
\* unanswered: the rows were committed, and the answer was lost (auxiliary).
Batch == [state : {"none", "cached", "gone"}, rows : Rows,
          expired : BOOLEAN, stale : BOOLEAN, unanswered : BOOLEAN]

NoBatch == [state |-> "none", rows |-> <<>>, expired |-> FALSE, stale |-> FALSE,
            unanswered |-> FALSE]

\* validateImport() looks names up, then judges; commitImport() inserts and logs row
\* by row, commits, then drops the token. overlaps: another commit of the same token
\* ran meanwhile (auxiliary).
ImporterSteps == {"idle", "lookup", "judge", "insert", "log", "drop"}

Importer == [at : ImporterSteps, token : ImportTokens \cup {NoToken}, rows : Rows,
             found : SUBSET Names, row : Nat,
             stale : BOOLEAN, overlaps : BOOLEAN]

NoImporter == [at |-> "idle", token |-> NoToken, rows |-> <<>>, found |-> {},
               row |-> 0, stale |-> FALSE, overlaps |-> FALSE]

Zero == [n \in Names |-> 0]

Occurrences(n, rows) == Cardinality({i \in DOMAIN rows : rows[i] = n})

\* No name of an account, and none twice.
Clean(rows, found) ==
    \A i \in DOMAIN rows :
       /\ rows[i] \notin found
       /\ \A j \in 1..(i - 1) : rows[j] # rows[i]

ImportInit ==
    /\ accounts = Zero /\ logged = Zero /\ swallowed = Zero
    /\ batch = [t \in ImportTokens |-> NoBatch]
    /\ importer = [c \in Importers |-> NoImporter]
    /\ imported = Zero
    /\ runs = [t \in ImportTokens |-> 0]
    /\ boots = 0

ImporterAt(c, step) == importer[c].at = step

Goes(c, new) == importer' = [importer EXCEPT ![c] = new]

-----------------------------------------------------------------------------
(* validateImport.                                                         *)

Validate(c) ==
    /\ ImporterAt(c, "idle")
    /\ \E rows \in Rows \ {<<>>} :
          Goes(c, [NoImporter EXCEPT !.at = "lookup", !.rows = rows])
    /\ UNCHANGED <<accounts, logged, swallowed, batch, imported, runs, boots>>

FindNames(c) ==
    /\ ImporterAt(c, "lookup")
    /\ Goes(c, [importer[c] EXCEPT !.at = "judge",
                                   !.found = {n \in Names : accounts[n] > 0}])
    /\ UNCHANGED <<accounts, logged, swallowed, batch, imported, runs, boots>>

\* Errors are answered, and nothing is kept; without any, a fresh token keeps the
\* rows. Another rule may find errors too (ImporterFails).
JudgeRows(c) ==
    /\ ImporterAt(c, "judge")
    /\ \/ ~Clean(importer[c].rows, importer[c].found) /\ UNCHANGED batch
       \/ /\ Clean(importer[c].rows, importer[c].found)
          /\ \E t \in ImportTokens :
                /\ batch[t].state = "none"
                /\ batch' = [batch EXCEPT ![t] =
                      [state |-> "cached", rows |-> importer[c].rows,
                       expired |-> FALSE, stale |-> importer[c].stale,
                       unanswered |-> FALSE]]
    /\ Goes(c, NoImporter)
    /\ UNCHANGED <<accounts, logged, swallowed, imported, runs, boots>>

-----------------------------------------------------------------------------
(* commitImport. Whoever has the token may commit it.                      *)

\* An expired batch is dropped and refused.
Refuse(c, t) ==
    /\ batch[t].expired
    /\ batch' = [batch EXCEPT ![t].state = "gone"]
    /\ UNCHANGED importer

Committing(k, t) == importer[k].token = t

BeginTransaction(c, t) ==
    LET others == {k \in Importers \ {c} : Committing(k, t)} IN
    /\ ~batch[t].expired
    /\ importer' = [k \in Importers |->
          IF k = c
          THEN [NoImporter EXCEPT !.at = "insert", !.token = t, !.rows = batch[t].rows,
                                  !.row = 1, !.overlaps = others # {}]
          ELSE IF k \in others THEN [importer[k] EXCEPT !.overlaps = TRUE]
          ELSE importer[k]]
    /\ UNCHANGED batch

Commit(c) ==
    /\ ImporterAt(c, "idle")
    /\ \E t \in ImportTokens :
          /\ batch[t].state = "cached"
          /\ Refuse(c, t) \/ BeginTransaction(c, t)
    /\ UNCHANGED <<accounts, logged, swallowed, imported, runs, boots>>

\* Five kinds of rows, none visible before the commit.
InsertRow(c) ==
    /\ ImporterAt(c, "insert") /\ importer[c].row <= Len(importer[c].rows)
    /\ Goes(c, [importer[c] EXCEPT !.at = "log"])
    /\ UNCHANGED <<accounts, logged, swallowed, batch, imported, runs, boots>>

LoggedName(c) == importer[c].rows[importer[c].row]

\* On a connection of its own: the event stays when the transaction is rolled back.
\* The repository catches every error of its INSERT, and the import goes on without.
LogRow(c) ==
    LET n == LoggedName(c) IN
    /\ ImporterAt(c, "log")
    /\ logged[n] + swallowed[n] < MaxEvents
    /\ \/ logged' = [logged EXCEPT ![n] = @ + 1] /\ UNCHANGED swallowed
       \/ swallowed' = [swallowed EXCEPT ![n] = @ + 1] /\ UNCHANGED logged
    /\ Goes(c, [importer[c] EXCEPT !.at = "insert", !.row = @ + 1])
    /\ UNCHANGED <<accounts, batch, imported, runs, boots>>

\* Mutant: the loop stops one row early.
AllInsertedButOne(c) == importer[c].row >= Len(importer[c].rows)

AllInserted(c) == importer[c].row > Len(importer[c].rows)

\* New accounts are there: lookups done so far and batches kept are stale. unheard:
\* the token whose commit is not answered.
Added(c, new, unheard) ==
    /\ importer' = [k \in Importers |->
          IF k = c THEN new
          ELSE IF ImporterAt(k, "judge") THEN [importer[k] EXCEPT !.stale = TRUE]
          ELSE importer[k]]
    /\ batch' = [t \in ImportTokens |->
          [batch[t] EXCEPT !.stale = batch[t].state # "none",
                           !.unanswered = @ \/ t = unheard]]

RowsCommitted(c) ==
    LET inserted == SubSeq(importer[c].rows, 1, importer[c].row - 1)
        Plus(count) == [n \in Names |-> count[n] + Occurrences(n, inserted)]
    IN
    /\ ImporterAt(c, "insert") /\ AllInserted(c)
    /\ \A n \in Names : Plus(accounts)[n] <= MaxAccounts
    /\ accounts' = Plus(accounts) /\ imported' = Plus(imported)
    /\ runs' = [runs EXCEPT ![importer[c].token] = @ + 1]
    /\ UNCHANGED <<logged, swallowed, boots>>

CommitTransaction(c) ==
    RowsCommitted(c) /\ Added(c, [importer[c] EXCEPT !.at = "drop"], NoToken)

\* The database commits, but the request is told that COMMIT failed, and keeps the
\* token like after any other failure.
CommitUnanswered(c) ==
    RowsCommitted(c) /\ Added(c, NoImporter, importer[c].token)

\* Mutant: the token stays.
RemainingAll(t) == batch[t]

Remaining(t) == [batch[t] EXCEPT !.state = "gone"]

DropToken(c) ==
    /\ ImporterAt(c, "drop")
    /\ batch' = [batch EXCEPT ![importer[c].token] = Remaining(importer[c].token)]
    /\ Goes(c, NoImporter)
    /\ UNCHANGED <<accounts, logged, swallowed, imported, runs, boots>>

BatchAfterFailure(c) == batch

\* A rule refuses or a statement fails: rollback. The token may be tried again.
ImporterFails(c) ==
    /\ ~ImporterAt(c, "idle") /\ ~ImporterAt(c, "drop")
    /\ batch' = BatchAfterFailure(c)
    /\ Goes(c, NoImporter)
    /\ UNCHANGED <<accounts, logged, swallowed, imported, runs, boots>>

-----------------------------------------------------------------------------
(* The rest of the system.                                                 *)

\* POST users, which asks for the name itself.
CreateAccount ==
    /\ \E n \in Names : /\ accounts[n] = 0
                        /\ accounts' = [accounts EXCEPT ![n] = 1]
    /\ \E c \in Importers : Added(c, IF ImporterAt(c, "judge")
                                     THEN [importer[c] EXCEPT !.stale = TRUE]
                                     ELSE importer[c], NoToken)
    /\ UNCHANGED <<logged, swallowed, imported, runs, boots>>

ExpireBatch ==
    /\ \E t \in ImportTokens : /\ batch[t].state = "cached" /\ ~batch[t].expired
                               /\ batch' = [batch EXCEPT ![t].expired = TRUE]
    /\ UNCHANGED <<accounts, logged, swallowed, importer, imported, runs, boots>>

\* The process restarts: its memory and its transactions are lost.
RestartProcess ==
    /\ boots < MaxBoots
    /\ boots' = boots + 1
    /\ batch' = [t \in ImportTokens |->
          IF batch[t].state = "none" THEN NoBatch ELSE Remaining(t)]
    /\ importer' = [c \in Importers |-> NoImporter]
    /\ UNCHANGED <<accounts, logged, swallowed, imported, runs>>

ImportNext ==
    \/ \E c \in Importers :
          \/ Validate(c) \/ FindNames(c) \/ JudgeRows(c)
          \/ Commit(c) \/ InsertRow(c) \/ LogRow(c) \/ CommitTransaction(c)
          \/ CommitUnanswered(c) \/ DropToken(c) \/ ImporterFails(c)
    \/ CreateAccount \/ ExpireBatch \/ RestartProcess

ImportSpec == ImportInit /\ [][ImportNext]_importVars

-----------------------------------------------------------------------------
\* Every variable keeps its type.
ImportTypeOK ==
    /\ accounts \in [Names -> 0..MaxAccounts]
    /\ logged \in [Names -> 0..MaxEvents] /\ swallowed \in [Names -> 0..MaxEvents]
    /\ batch \in [ImportTokens -> Batch]
    /\ importer \in [Importers -> Importer]
    /\ imported \in [Names -> 0..MaxAccounts]
    /\ runs \in [ImportTokens -> Nat] /\ boots \in 0..MaxBoots

\* c's own COMMIT is applied.
Commits(c) == ImporterAt(c, "insert") /\ importer'[c].at # "insert" /\ runs' # runs

\* A token imports its rows twice only in two commits that overlap, or after a COMMIT
\* that was applied without an answer: the request takes it for a failure and keeps
\* the token. No other failure, no other retry and no restart doubles an import.
ImportedTwiceExplained ==
    [][\A c \in Importers :
          Commits(c) /\ runs[importer[c].token] > 0
          => importer[c].overlaps \/ batch[importer[c].token].unanswered]_importVars

\* A commit gives a name a second account only if accounts were added after the
\* names were looked up: the rows are validated once, and not again in the 30
\* minutes before they are inserted.
ImportedClashExplained ==
    [][\A c \in Importers, n \in Names :
          Commits(c) /\ accounts'[n] > accounts[n] /\ accounts'[n] > 1
          => batch[importer[c].token].stale]_importVars

\* All or nothing: a commit adds every row of its batch.
AllOrNothing ==
    [][\A c \in Importers, n \in Names :
          Commits(c) => accounts'[n] = accounts[n] + Occurrences(n, batch[importer[c].token].rows)
      ]_importVars

\* An account that came by an import has an event of its own, or the INSERT of that
\* event failed and the repository swallowed the error: whatever else fails, no loop
\* iteration skips the event. The converse is false, events of a rolled-back import
\* stay.
UnloggedSwallowed == \A n \in Names : imported[n] <= logged[n] + swallowed[n]

\* A failed import can be tried again: a batch neither committed nor expired is lost
\* only with the process.
RetryPossible ==
    [][\A t \in ImportTokens :
          /\ batch[t].state = "cached" /\ batch'[t].state = "gone"
          => batch[t].expired \/ runs[t] > 0 \/ boots' # boots
      ]_importVars

\* What an overlapping, unanswered or late commit can do wrong, and nothing else can.
ImportsExplained == ImportedTwiceExplained /\ ImportedClashExplained

\* Whatever fails and wherever the process dies, an import happens entirely, each
\* account's event written or swallowed, or can be tried again.
ImportsWhole == []UnloggedSwallowed /\ AllOrNothing /\ RetryPossible
=============================================================================
