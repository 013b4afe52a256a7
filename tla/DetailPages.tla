---------------------------- MODULE DetailPages ----------------------------
(***************************************************************************)
(* The pages that show one record and let the operator change it: the      *)
(* details of a customer (back office and agent), a script, a subscription *)
(* and an agent, the profile and the settings.  Most copy the loaded       *)
(* record into a form by an effect and save the whole form.  Loads, saves, *)
(* typing, other actors' writes and visits of the page interleave.         *)
(*                                                                         *)
(* A record is a function from fields to values; every value typed is a    *)
(* new number, and 0 stands for an empty field.                            *)
(***************************************************************************)
EXTENDS QueryCache, Naturals, FiniteSets, Sequences

CONSTANTS
    Fields,          \* fields of the record and of the form
    MaxValues,       \* bound: values typed here or elsewhere
    MaxSteps,        \* bound: visits and saves
    MaxMishaps       \* bound: loads that fail, answers lost, writes of other actors

ASSUME DetailAssumption ==
    Fields # {} /\ MaxValues \in Nat \ {0} /\ MaxSteps \in Nat /\ MaxMishaps \in Nat

VARIABLES
    dfPage,          \* the page the tab is on
    dfMount,         \* tells one visit of the page from the next
    dfOpen,          \* the dialog of a subscription or an agent is open
    dfForm,          \* what the form or the dialog holds
    dfTouched,       \* the fields typed since the form was last filled
    dfRecord,        \* the record in the database, and how often it was written
    dfEntry,         \* the query of the record
    dfCalls,         \* saves of this tab, in the order they were sent
    dfValue,         \* the last value anybody typed
    dfSteps,         \* visits and saves so far
    dfMishaps        \* mishaps so far

dfFormVars == <<dfOpen, dfForm, dfTouched>>
dfVisit == <<dfPage, dfMount>>
detailVars == <<dfVisit, dfFormVars, dfRecord, dfEntry, dfCalls, dfValue, dfSteps, dfMishaps>>

Step == dfSteps < MaxSteps /\ dfSteps' = dfSteps + 1
Mishap == dfMishaps < MaxMishaps /\ dfMishaps' = dfMishaps + 1
NoMishap == UNCHANGED dfMishaps
NewValue == dfValue < MaxValues /\ dfValue' = dfValue + 1

Blank == [f \in Fields |-> 0]
FormPages == {"customer", "agentCustomer", "script", "profile"}
DialogPages == {"subscription", "agent"}

DetailInit ==
    /\ dfPage \in FormPages \cup DialogPages \cup {"settings"} /\ dfMount = 0
    /\ dfOpen = FALSE /\ dfForm = Blank /\ dfTouched = {}
    /\ dfRecord = [fields |-> [f \in Fields |-> 1], writes |-> 0]
    /\ dfEntry = Observe(EmptyEntry) /\ dfCalls = <<>> /\ dfValue = 1
    /\ dfSteps = 0 /\ dfMishaps = 0

\* ---- what the page shows

\* These pages read the record without a branch for a failed load: without
\* data there is nothing to work with.
Shown == dfEntry.data # NoData

\* The profile falls back on the user of the session; the settings show
\* their form unless every query of the page is loading.
FormShown == CASE dfPage \in {"customer", "agentCustomer", "script"} -> Shown
               [] dfPage = "profile" -> ~FirstLoad(dfEntry)
               [] dfPage \in DialogPages -> dfOpen
               [] dfPage = "settings" -> TRUE

SaveRunning == \E i \in DOMAIN dfCalls : dfCalls[i].mount = dfMount /\ dfCalls[i].state # "done"

\* ---- the effect that copies the record into the form

\* Profile, customers and scripts: whenever the data are another object.
\* The renewal dialog: whenever it is opened or the subscription is another
\* object, while it is open.
Filling == dfPage \in FormPages \/ (dfPage = "subscription" /\ dfOpen)

Fill(entry) == IF entry.data = NoData THEN Blank ELSE entry.data.fields

\* Mutant: the effect runs for every answer, not for every new object.
EveryAnswer(old, new) == new.data # NoData

\* The cache keeps the object when an answer is equal to what was there;
\* every write changes the time of the last update in it.
NewObject(old, new) == new.data # NoData /\ new.data # old.data

\* ---- the operator

\* The page is left and visited again: its state starts anew and the effect
\* runs on what the cache holds.
VisitDetail ==
    /\ Step /\ dfMount' = dfMount + 1
    /\ dfEntry' = Observe(dfEntry)
    /\ dfForm' = IF dfPage \in FormPages THEN Fill(dfEntry) ELSE Blank
    /\ dfOpen' = FALSE /\ dfTouched' = {}
    /\ UNCHANGED <<dfPage, dfRecord, dfCalls, dfValue, dfMishaps>>

TypeField(f) == /\ FormShown /\ NewValue
                /\ dfForm' = [dfForm EXCEPT ![f] = dfValue'] /\ dfTouched' = dfTouched \cup {f}
                /\ UNCHANGED <<dfVisit, dfOpen, dfRecord, dfEntry, dfCalls, dfSteps, dfMishaps>>

Save == /\ FormShown /\ ~SaveRunning /\ Step
        /\ dfCalls' = Append(dfCalls, [form |-> dfForm, mount |-> dfMount, state |-> "sent", ok |-> FALSE, at |-> 0])
        /\ UNCHANGED <<dfVisit, dfFormVars, dfRecord, dfEntry, dfValue, dfMishaps>>

SaveCustomerDetail == dfPage = "customer" /\ Save
SaveAgentCustomerDetail == dfPage = "agentCustomer" /\ Save
SaveScript == dfPage = "script" /\ Save
SaveProfile == dfPage = "profile" /\ dfForm # Blank /\ Save
SaveCookies == dfPage = "settings" /\ Save
RenewSubscription == dfPage = "subscription" /\ Save
SaveAgentPassword == dfPage = "agent" /\ dfForm # Blank /\ Save

\* The buttons of a subscription are there while it is active; the renewal
\* dialog takes its plan over, the password dialog starts empty.
OpenDetailDialog == /\ dfPage \in DialogPages /\ Shown /\ ~dfOpen /\ dfOpen' = TRUE
                    /\ dfForm' = IF dfPage = "subscription" THEN Fill(dfEntry) ELSE Blank
                    /\ dfTouched' = {}
                    /\ UNCHANGED <<dfVisit, dfRecord, dfEntry, dfCalls, dfValue, dfSteps, dfMishaps>>

CloseDetailDialog == /\ dfOpen /\ dfOpen' = FALSE
                     /\ UNCHANGED <<dfVisit, dfForm, dfTouched, dfRecord, dfEntry, dfCalls, dfValue, dfSteps, dfMishaps>>

\* ---- the server, other actors and the network

\* The server writes the form as it is, the fields nobody typed included.
ServeSave(i) ==
    /\ dfCalls[i].state = "sent"
    /\ \E accepted, arrives \in BOOLEAN :
         /\ IF accepted /\ arrives THEN NoMishap ELSE (accepted \/ arrives) /\ Mishap
         /\ dfRecord' = IF accepted THEN [fields |-> dfCalls[i].form, writes |-> dfRecord.writes + 1] ELSE dfRecord
         /\ dfCalls' = [dfCalls EXCEPT ![i].state = "answered", ![i].ok = accepted /\ arrives,
                                       ![i].at = dfRecord'.writes]
    /\ UNCHANGED <<dfVisit, dfFormVars, dfEntry, dfValue, dfSteps>>

WriteField(f) == /\ Mishap /\ NewValue
                 /\ dfRecord' = [fields |-> [dfRecord.fields EXCEPT ![f] = dfValue'], writes |-> dfRecord.writes + 1]
                 /\ UNCHANGED <<dfVisit, dfFormVars, dfEntry, dfCalls, dfSteps>>

\* The profile keeps the answer in the store and leaves its query alone.
Refreshes == dfPage \in {"customer", "agentCustomer", "script", "subscription", "settings"}

\* Mutant: nor do the others touch it.
NoRefresh(entry) == entry

RefreshRecord(entry) == IF Refreshes THEN Invalidate(entry, TRUE) ELSE entry

\* onSuccess closes the dialog that is open by then, and empties the form of
\* the settings with whatever was typed meanwhile.
SaveAnswered(i) ==
    /\ dfCalls[i].state = "answered"
    /\ dfCalls' = [dfCalls EXCEPT ![i].state = "done"]
    /\ LET here == dfCalls[i].ok /\ dfCalls[i].mount = dfMount
       IN  /\ dfOpen' = (dfOpen /\ ~here)
           /\ IF here /\ dfPage = "settings" THEN dfForm' = Blank /\ dfTouched' = {}
              ELSE UNCHANGED <<dfForm, dfTouched>>
    /\ dfEntry' = IF dfCalls[i].ok THEN RefreshRecord(dfEntry) ELSE dfEntry
    /\ UNCHANGED <<dfVisit, dfRecord, dfValue, dfSteps, dfMishaps>>

LoadRecord ==
    /\ \/ dfEntry.load = "sent" /\ NoMishap
          /\ dfEntry' = Answer(dfEntry, [fields |-> dfRecord.fields, asOf |-> dfRecord.writes])
       \/ Loading(dfEntry) /\ Mishap /\ dfEntry' = Fail(dfEntry)
    /\ UNCHANGED <<dfVisit, dfFormVars, dfRecord, dfCalls, dfValue, dfSteps>>

RecordArrives ==
    /\ dfEntry.load = "answered" /\ dfEntry' = Arrive(dfEntry)
    /\ IF Filling /\ NewObject(dfEntry, dfEntry')
       THEN dfForm' = Fill(dfEntry') /\ dfTouched' = {}
       ELSE UNCHANGED <<dfForm, dfTouched>>
    /\ UNCHANGED <<dfVisit, dfOpen, dfRecord, dfCalls, dfValue, dfSteps, dfMishaps>>

\* The browser is online again and the data have become old: a reload.
Reconnect == /\ Mishap /\ Shown /\ ~dfEntry.fresh /\ ~Loading(dfEntry) /\ dfEntry' = Reload(dfEntry)
             /\ UNCHANGED <<dfVisit, dfFormVars, dfRecord, dfCalls, dfValue, dfSteps>>

ExpireRecord == /\ dfEntry.fresh /\ dfEntry' = Expire(dfEntry)
                /\ UNCHANGED <<dfVisit, dfFormVars, dfRecord, dfCalls, dfValue, dfSteps, dfMishaps>>

DetailNext ==
    \/ \E f \in Fields : TypeField(f) \/ WriteField(f)
    \/ \E i \in DOMAIN dfCalls : ServeSave(i) \/ SaveAnswered(i)
    \/ SaveCustomerDetail \/ SaveAgentCustomerDetail \/ SaveScript \/ SaveProfile \/ SaveCookies
    \/ RenewSubscription \/ SaveAgentPassword
    \/ VisitDetail \/ OpenDetailDialog \/ CloseDetailDialog
    \/ LoadRecord \/ RecordArrives \/ Reconnect \/ ExpireRecord

DetailSpec == DetailInit /\ [][DetailNext]_detailVars

\* ---- properties

\* After a save has succeeded, the form of a customer or a script that nobody
\* has touched since shows a record at least as new as that save.  Excepted
\* are a failed load and a load the invalidation could not restart; and the
\* profile, which goes back to the old name for as long as its query is fresh.
FormShowsOwnSave ==
    dfPage \in {"customer", "agentCustomer", "script"} /\ Settled(dfEntry) /\ dfTouched = {} =>
        /\ dfForm = dfEntry.data.fields
        /\ \A i \in DOMAIN dfCalls : dfCalls[i].state = "done" /\ dfCalls[i].ok => dfEntry.data.asOf >= dfCalls[i].at

\* What the operator has typed into a form gives way to another record only:
\* a load that brings what was there before does not undo it.
EditsYieldToNewsOnly ==
    [][\A f \in dfTouched :
         dfPage # "settings" /\ dfMount' = dfMount /\ dfOpen' = dfOpen /\ f \notin dfTouched'
         => dfEntry'.data # dfEntry.data]_detailVars
=============================================================================
