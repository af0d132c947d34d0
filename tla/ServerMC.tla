------------------------------ MODULE ServerMC ------------------------------
(***************************************************************************)
(* Small instances for TLC of what the SaaS server does: its cloud         *)
(* machines, its scrape jobs, and its account; of the wizard that installs *)
(* it; and of the lead pipeline, which runs beside it on a schedule.  They *)
(* share no state, so each behaviour here is one of one of them; the jobs  *)
(* are checked in two slices, several jobs under a delete-all and one job  *)
(* under all there is.                                                     *)
(***************************************************************************)
EXTENDS Provisioning, JobStore, AdminAuth, Wizard, LeadPipeline, TLC

CONSTANTS w1, d1, d2, c1, t1, t2, p1, p2

VARIABLE area   \* what this behaviour is about

serverVars == <<area, provisionVars, storeVars, adminVars, wizardVars, leadVars>>

Areas == {"machines", "all jobs", "one job", "account", "installation", "leads"}

ServerTypeOK ==
    /\ area \in Areas
    /\ ProvisionTypeOK /\ StoreTypeOK /\ AdminTypeOK /\ WizardTypeOK /\ LeadTypeOK

ServerInit ==
    /\ area \in Areas
    /\ ProvisionInit /\ StoreInit /\ AdminInit /\ WizardInit
    /\ LeadInit
    /\ area # "leads" => branch = 0

MachinesStep ==
    /\ area = "machines" /\ ProvisionNext
    /\ UNCHANGED <<storeVars, adminVars, wizardVars, leadVars>>

\* Nobody ticks jobs, asks for a status, or waits for a month, and no removal is
\* tried twice.
AllJobsStep ==
    /\ area = "all jobs" /\ StoreNext
    /\ UNCHANGED <<reader, old, provisionVars, adminVars, wizardVars, leadVars>>
    /\ request'["some"] = request["some"]
    /\ \A x \in Requests \X JobIds : removal'[x].tries <= 1

OneJobStep ==
    /\ area = "one job" /\ StoreNext
    /\ \A j \in JobIds \ {1} : job'[j] = "none"
    /\ UNCHANGED <<provisionVars, adminVars, wizardVars, leadVars>>

AccountStep ==
    /\ area = "account" /\ AdminNext
    /\ UNCHANGED <<provisionVars, storeVars, wizardVars, leadVars>>

InstallationStep ==
    /\ area = "installation" /\ WizardNext
    /\ UNCHANGED <<provisionVars, storeVars, adminVars, leadVars>>

LeadsStep ==
    /\ area = "leads" /\ LeadNext
    /\ UNCHANGED <<provisionVars, storeVars, adminVars, wizardVars>>

ServerNext ==
    /\ MachinesStep \/ AllJobsStep \/ OneJobStep \/ AccountStep \/ InstallationStep
       \/ LeadsStep
    /\ UNCHANGED area

\* The fairness of the machines, of the wizard and of the leads, ProvisionFairness,
\* WizardFairness and LeadFairness; where something else happens it asks for nothing.
MachinesRun == area = "machines"

ServerFairness ==
    /\ \A r \in Workers : /\ WF_provisionVars(MachinesRun /\ ProvisionStep(r))
                          /\ WF_provisionVars(MachinesRun /\ Boots(r))
                          /\ SF_provisionVars(MachinesRun /\ ProvisionStarts(r))
    /\ \A d \in Clicks : /\ WF_provisionVars(MachinesRun /\ DeleteStep(d))
                         /\ SF_provisionVars(MachinesRun /\ DeleteStarts(d))
    /\ \A c \in Checkers : WF_provisionVars(MachinesRun /\ CheckStep(c))
    /\ WF_wizardVars(area = "installation" /\ step # "complete" /\ WizardStep)
    /\ WF_leadVars(area = "leads" /\ Triggers) /\ WF_leadVars(area = "leads" /\ Starts)
    /\ WF_leadVars(area = "leads" /\ RunStep)

ServerSpec == ServerInit /\ [][ServerNext]_serverVars /\ ServerFairness
=============================================================================
