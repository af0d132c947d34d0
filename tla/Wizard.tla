------------------------------- MODULE Wizard -------------------------------
(***************************************************************************)
(* The provision command, which installs a SaaS server step by step        *)
(* (cmd/gmapssaas/cmdprovision), and the update command, which deploys     *)
(* again from what it saved (cmd/gmapssaas/cmdupdate).                     *)
(*                                                                         *)
(* A run of the wizard loads the state file, works on a copy in memory,    *)
(* and saves the copy after each step.  The steps act on the world: a      *)
(* server is bought, a database made, settings stored, the server deployed *)
(* and its first user created.  A run may stop at any point: a step        *)
(* returns an error, or the user interrupts it; what it had not saved is   *)
(* lost, what it did to the world is not.  The user then runs it again and *)
(* resumes, or starts over.  What is bought has a fixed name (the SSH key, *)
(* the server and the managed database), which the provider gives but      *)
(* once, and nobody removes it.                                            *)
(*                                                                         *)
(* Every run has a number.  A secret (password, key, salt, key pair) is    *)
(* named by the run that generated it and 0 is none; a Hetzner server or a *)
(* managed database by the run that bought it.                             *)
(***************************************************************************)
EXTENDS Integers, FiniteSets

CONSTANT MaxRuns    \* runs of the wizard; the last one meets no fault

ASSUME WizardAssumption == MaxRuns \in Nat \ {0}

VARIABLES
    file,       \* provision-state.json: there is none, it is whole, or it was cut while written
    mem,        \* *state of the run
    held,       \* the private key the run's provisioner holds (vps.WithPrivateKey)
    step,       \* where the run is
    dirty,      \* SaveState(state) is what the run does next
    run,        \* the number of the run
    cloud,      \* what is bought: the key pair registered, the server and the database
    local,      \* per server the password of the database on it, 0 where there is none
    users,      \* per database the password of its user "admin", 0 where there is none
    config,     \* per database and setting the value stored and the key it is encrypted with
    app,        \* per host what the server deployed there was given
    lost        \* history: what runs had done when they stopped and no state file said

wizardVars == <<file, mem, held, step, dirty, run, cloud, local, users, config, app, lost>>

WizardRuns == 1..MaxRuns
Secret == 0..MaxRuns

Nowhere == <<"nowhere", 0>>
OwnServer == <<"vps", 0>>
AppPlatform == <<"do", 0>>
BoughtServer(n) == <<"hetzner", n>>

Servers == {OwnServer} \cup {BoughtServer(n) : n \in WizardRuns}
Hosts == Servers \cup {AppPlatform}

NoDatabase == <<"none", 0>>
GivenDatabase == <<"given", 0>>     \* an existing one, whose URL the user types
ManagedDatabase(n) == <<"managed", n>>

\* The database on a server is named like the server.
Databases == Servers \cup {GivenDatabase} \cup {ManagedDatabase(n) : n \in WizardRuns}

Providers == {"vps", "do", "hetzner"}
Settings == {"hash_salt", "app_key_pair"}

\* ProvisionState: VPS.Host or the App Platform, the steps completed, the
\* database's URL (its database and password), and what was generated.
SavedStates ==
    [image : BOOLEAN, provider : Providers \cup {"none"}, host : Hosts \cup {Nowhere},
     connected : BOOLEAN, setup : BOOLEAN,
     db : Databases \cup {NoDatabase}, password : Secret,
     key : Secret, salt : Secret, ssh : Secret,
     deployed : BOOLEAN, admin : Secret]

FreshState ==
    [image |-> FALSE, provider |-> "none", host |-> Nowhere,
     connected |-> FALSE, setup |-> FALSE, db |-> NoDatabase, password |-> 0,
     key |-> 0, salt |-> 0, ssh |-> 0, deployed |-> FALSE, admin |-> 0]

Effects == {"key", "server", "database", "admin"}

NotDeployed == [db |-> NoDatabase, key |-> 0, salt |-> 0]

WizardSteps == {"image", "provider", "buying", "booting", "connect", "setup", "database", "verify",
                "secrets", "config", "deploy", "admin", "summary"}

WizardTypeOK ==
    /\ file \in [is : {"none", "whole", "cut"}, state : SavedStates]
    /\ mem \in SavedStates
    /\ held \in Secret
    /\ step \in WizardSteps \cup {"stopped", "complete"}
    /\ dirty \in BOOLEAN
    /\ run \in 0..MaxRuns
    /\ cloud \in [key : Secret, server : 0..MaxRuns, database : 0..MaxRuns]
    /\ local \in [Servers -> Secret]
    /\ users \in [Databases -> Secret]
    /\ config \in [Databases -> [Settings -> [key : Secret, value : Secret]]]
    /\ app \in [Hosts -> [db : Databases \cup {NoDatabase}, key : Secret, salt : Secret]]
    /\ lost \in SUBSET Effects

WizardInit ==
    /\ file = [is |-> "none", state |-> FreshState]
    /\ mem = FreshState
    /\ held = 0
    /\ step = "stopped"
    /\ dirty = FALSE
    /\ run = 0
    /\ cloud = [key |-> 0, server |-> 0, database |-> 0]
    /\ local = [h \in Servers |-> 0]
    /\ users = [d \in Databases |-> 0]
    /\ config = [d \in Databases |-> [s \in Settings |-> [key |-> 0, value |-> 0]]]
    /\ app = [h \in Hosts |-> NotDeployed]
    /\ lost = {}

world == <<cloud, local, users, config, app>>

Ended == step \in {"stopped", "complete"}

\* Nothing goes wrong in the last run.
FaultAllowed == run < MaxRuns

\* A bought server takes the commands of whoever holds the registered key; the
\* user's own server those of the key file named in the state.
Admits(host, key) ==
    \/ host \in {OwnServer, AppPlatform}
    \/ host = BoughtServer(cloud.server) /\ key = cloud.key

\* The URL of the database on a server holds the password; those of the other
\* databases are right as they are.
UrlOpens(s) == s.db \in Servers => local[s.db] = s.password

\* What the next run will know.
Saved == IF file.is = "whole" THEN file.state ELSE FreshState

\* What the runs of a set did to the world that a state does not say.
Unsaid(s, by) ==
    {what \in Effects :
        \/ what = "key" /\ cloud.key \in by /\ s.ssh # cloud.key
        \/ what = "server" /\ cloud.server \in by /\ s.host # BoughtServer(cloud.server)
        \/ /\ what = "database"
           /\ \/ cloud.database \in by /\ s.db # ManagedDatabase(cloud.database)
              \/ \E h \in Servers : /\ local[h] \in by
                                    /\ s.db # h \/ s.password # local[h]
        \/ /\ what = "admin"
           /\ \E d \in Databases : users[d] \in by /\ (s.db # d \/ s.admin # users[d])}
-----------------------------------------------------------------------------
At(s) == step = s /\ ~dirty
Goes(s) == step' = s /\ dirty' = FALSE

\* Goes on to s once the state is saved.
SavesThen(s) == step' = s /\ dirty' = TRUE

\* The run starts: it loads the state file, and fails on one that was cut.  The
\* user resumes, or starts over, which deletes the file (but not in the last run).
StartsRun ==
    /\ Ended /\ run < MaxRuns
    /\ run' = run + 1 /\ held' = 0
    /\ \/ file.is = "cut" /\ Goes("stopped") /\ UNCHANGED <<file, mem, lost>>
       \/ file.is = "whole" /\ mem' = file.state /\ Goes("image") /\ UNCHANGED <<file, lost>>
       \/ /\ file.is # "cut" /\ (file.is = "whole" => run + 1 < MaxRuns)
          /\ mem' = FreshState /\ Goes("image")
          /\ file' = [is |-> "none", state |-> FreshState]
          /\ lost' = lost \cup Unsaid(FreshState, WizardRuns)
    /\ UNCHANGED world

\* SaveState.
SaveState ==
    /\ dirty
    /\ file' = [is |-> "whole", state |-> mem]
    /\ dirty' = FALSE
    /\ UNCHANGED <<mem, held, step, run, world, lost>>

\* The file is written in place: a run killed meanwhile leaves part of it.
SaveStateKilled ==
    /\ dirty /\ FaultAllowed
    /\ file' = [file EXCEPT !.is = "cut"]
    /\ Goes("stopped")
    /\ UNCHANGED <<mem, held, run, world, lost>>

\* A step returns an error, or the user interrupts the run.
StopsRun ==
    /\ ~Ended /\ FaultAllowed
    /\ Goes("stopped")
    /\ lost' = lost \cup Unsaid(Saved, {run})
    /\ UNCHANGED <<file, mem, held, run, world>>

\* The image: built and pushed, named, or pushed before and kept.
PushesImage ==
    /\ At("image")
    /\ \/ mem' = [mem EXCEPT !.image = TRUE] /\ SavesThen("provider")
       \/ mem.image /\ UNCHANGED mem /\ Goes("provider")
    /\ UNCHANGED <<file, held, run, world, lost>>

\* The user's own server, or the App Platform, whose token is tried here.
InitVPS ==
    /\ At("provider") /\ mem.provider \in {"vps", "none"}
    /\ mem' = [mem EXCEPT !.provider = "vps", !.host = OwnServer]
    /\ SavesThen("connect")
    /\ UNCHANGED <<file, held, run, world, lost>>

InitDO ==
    /\ At("provider") /\ mem.provider \in {"do", "none"}
    /\ mem' = [mem EXCEPT !.provider = "do", !.host = AppPlatform]
    /\ SavesThen("connect")
    /\ UNCHANGED <<file, held, run, world, lost>>

\* initHetzner registers a key pair, which it generates if the state has none; where
\* one is registered by that name, EnsureSSHKey takes that one, whatever key it is.
RegistersKey ==
    /\ At("provider") /\ mem.provider \in {"hetzner", "none"} /\ mem.host = Nowhere
    /\ LET pair == IF mem.ssh = 0 THEN run ELSE mem.ssh
       IN  /\ mem' = [mem EXCEPT !.provider = "hetzner", !.ssh = pair]
           /\ cloud' = [cloud EXCEPT !.key = IF @ = 0 THEN pair ELSE @]
    /\ Goes("buying")
    /\ UNCHANGED <<file, held, run, local, users, config, app, lost>>

\* The server is bought, for the registered key, if there is none of that name.
BuysServer ==
    /\ At("buying") /\ cloud.server = 0
    /\ cloud' = [cloud EXCEPT !.server = run]
    /\ Goes("booting")
    /\ UNCHANGED <<file, mem, held, run, local, users, config, app, lost>>

\* The server has an address: the run holds its key and saves.
ServerAddressed ==
    /\ At("booting")
    /\ mem' = [mem EXCEPT !.host = BoughtServer(run)]
    /\ held' = mem.ssh
    /\ SavesThen("connect")
    /\ UNCHANGED <<file, run, world, lost>>

\* A resumed run goes on with the server bought before.
KeepsServer ==
    /\ At("provider") /\ mem.provider = "hetzner" /\ mem.host # Nowhere
    /\ held' = mem.ssh
    /\ SavesThen("connect")
    /\ UNCHANGED <<file, mem, run, world, lost>>

Connects ==
    /\ At("connect")
    /\ \/ mem.connected /\ UNCHANGED mem /\ Goes("setup")
       \/ /\ ~mem.connected /\ Admits(mem.host, held)
          /\ mem' = [mem EXCEPT !.connected = TRUE]
          /\ SavesThen("setup")
    /\ UNCHANGED <<file, held, run, world, lost>>

SetsUp ==
    /\ At("setup")
    /\ \/ mem.setup /\ UNCHANGED mem /\ Goes("database")
       \/ /\ ~mem.setup /\ Admits(mem.host, held)
          /\ mem' = [mem EXCEPT !.setup = TRUE]
          /\ SavesThen("database")
    /\ UNCHANGED <<file, held, run, world, lost>>

KeepsDatabase ==
    /\ At("database") /\ mem.db # NoDatabase
    /\ Goes("verify")
    /\ UNCHANGED <<file, mem, held, run, world, lost>>

UsesExistingDB ==
    /\ At("database") /\ mem.db = NoDatabase
    /\ mem' = [mem EXCEPT !.db = GivenDatabase]
    /\ SavesThen("verify")
    /\ UNCHANGED <<file, held, run, world, lost>>

\* Its container sets the password where the data directory is empty, and keeps
\* the one there is where it is not.
DatabaseScript(host, password) ==
    local' = [local EXCEPT ![host] = IF @ = 0 THEN password ELSE @]

\* createNewDB: a script on the server, with a password it generates, or a managed
\* database that is bought.
CreatesDatabase ==
    /\ At("database") /\ mem.db = NoDatabase
    /\ mem.host \in Servers /\ Admits(mem.host, held)
    /\ DatabaseScript(mem.host, run)
    /\ mem' = [mem EXCEPT !.db = mem.host, !.password = run]
    /\ SavesThen("verify")
    /\ UNCHANGED <<file, held, run, cloud, users, config, app, lost>>

BuysDatabase ==
    /\ At("database") /\ mem.db = NoDatabase /\ mem.host = AppPlatform
    /\ cloud.database = 0
    /\ cloud' = [cloud EXCEPT !.database = run]
    /\ mem' = [mem EXCEPT !.db = ManagedDatabase(run)]
    /\ SavesThen("verify")
    /\ UNCHANGED <<file, held, run, local, users, config, app, lost>>

\* The URL is tried, and the migrations run.
Verifies ==
    /\ At("verify") /\ UrlOpens(mem)
    /\ Goes("secrets")
    /\ UNCHANGED <<file, mem, held, run, world, lost>>

\* As if every run generated a key.
GeneratesKey_EachRun ==
    /\ At("secrets") /\ mem.key # run
    /\ mem' = [mem EXCEPT !.key = run]
    /\ SavesThen("secrets")
    /\ UNCHANGED <<file, held, run, world, lost>>

GeneratesKey ==
    /\ At("secrets") /\ mem.key = 0
    /\ mem' = [mem EXCEPT !.key = run]
    /\ SavesThen("secrets")
    /\ UNCHANGED <<file, held, run, world, lost>>

GeneratesSalt ==
    /\ At("secrets") /\ mem.key # 0 /\ mem.salt = 0
    /\ mem' = [mem EXCEPT !.salt = run]
    /\ SavesThen("secrets")
    /\ UNCHANGED <<file, held, run, world, lost>>

\* As if every run generated a key pair, also where a server was bought with one.
GeneratesKeyPair_Anyway ==
    /\ At("secrets") /\ mem.key # 0 /\ mem.salt # 0 /\ mem.ssh # run
    /\ mem' = [mem EXCEPT !.ssh = run]
    /\ SavesThen("secrets")
    /\ UNCHANGED <<file, held, run, world, lost>>

GeneratesKeyPair ==
    /\ At("secrets") /\ mem.key # 0 /\ mem.salt # 0 /\ mem.ssh = 0
    /\ mem' = [mem EXCEPT !.ssh = run]
    /\ SavesThen("secrets")
    /\ UNCHANGED <<file, held, run, world, lost>>

HasSecrets ==
    /\ At("secrets") /\ mem.key # 0 /\ mem.salt # 0 /\ mem.ssh # 0
    /\ Goes("config")
    /\ UNCHANGED <<file, mem, held, run, world, lost>>

Encrypted(s) ==
    [key |-> mem.key, value |-> IF s = "hash_salt" THEN mem.salt ELSE mem.ssh]

\* SetConfig, setting by setting in the order of a Go map.
StoresSetting(s) ==
    /\ At("config") /\ config[mem.db][s] # Encrypted(s)
    /\ config' = [config EXCEPT ![mem.db][s] = Encrypted(s)]
    /\ UNCHANGED <<file, mem, held, step, dirty, run, cloud, local, users, app, lost>>

StoredSettings ==
    /\ At("config") /\ \A s \in Settings : config[mem.db][s] = Encrypted(s)
    /\ Goes("deploy")
    /\ UNCHANGED <<file, mem, held, run, world, lost>>

KeepsDeployment ==
    /\ At("deploy") /\ mem.deployed
    /\ Goes("admin")
    /\ UNCHANGED <<file, mem, held, run, world, lost>>

\* The server is deployed again where there is one: by its script, or as the App
\* Platform's application of that name.
Deploy(s) == app' = [app EXCEPT ![s.host] = [db |-> s.db, key |-> s.key, salt |-> s.salt]]

Deploys ==
    /\ At("deploy") /\ Admits(mem.host, held)
    /\ Deploy(mem)
    /\ mem' = [mem EXCEPT !.deployed = TRUE]
    /\ SavesThen("admin")
    /\ UNCHANGED <<file, held, run, cloud, local, users, config, lost>>

KeepsAdmin ==
    /\ At("admin") /\ mem.admin # 0
    /\ Goes("summary")
    /\ UNCHANGED <<file, mem, held, run, world, lost>>

\* CreateUser fails where the database has the user already.
CreatesAdmin ==
    /\ At("admin") /\ mem.admin = 0 /\ users[mem.db] = 0
    /\ users' = [users EXCEPT ![mem.db] = run]
    /\ mem' = [mem EXCEPT !.admin = run]
    /\ SavesThen("summary")
    /\ UNCHANGED <<file, held, run, cloud, local, config, app, lost>>

Summary ==
    /\ At("summary")
    /\ Goes("complete")
    /\ UNCHANGED <<file, mem, held, run, world, lost>>

\* The step cannot be done: the run ends, in the last one too.
Fails ==
    /\ ~dirty
    /\ \/ step \in {"connect", "setup", "deploy"} /\ ~Admits(mem.host, held)
       \/ step = "buying" /\ cloud.server # 0
       \/ /\ step = "database" /\ mem.db = NoDatabase
          /\ ~Admits(mem.host, held) \/ (mem.host = AppPlatform /\ cloud.database # 0)
       \/ step = "verify" /\ ~UrlOpens(mem)
       \/ step = "admin" /\ mem.admin = 0 /\ users[mem.db] # 0
    /\ Goes("stopped")
    /\ UNCHANGED <<file, mem, held, run, world, lost>>

\* runUpdate: migrates the database and deploys from the file; the App Platform
\* takes the provider's token, a server the key of the file.
Update ==
    /\ Ended /\ file.is = "whole" /\ file.state.host # Nowhere
    /\ file.state.db # NoDatabase /\ UrlOpens(file.state)
    /\ Admits(file.state.host, file.state.ssh)
    /\ Deploy(file.state)
    /\ UNCHANGED <<file, mem, held, step, dirty, run, cloud, local, users, config, lost>>

WizardStep ==
    \/ StartsRun \/ SaveState \/ PushesImage
    \/ InitVPS \/ InitDO \/ RegistersKey \/ BuysServer \/ ServerAddressed \/ KeepsServer
    \/ Connects \/ SetsUp
    \/ KeepsDatabase \/ UsesExistingDB \/ CreatesDatabase \/ BuysDatabase
    \/ Verifies
    \/ GeneratesKey \/ GeneratesSalt \/ GeneratesKeyPair \/ HasSecrets
    \/ (\E s \in Settings : StoresSetting(s)) \/ StoredSettings
    \/ KeepsDeployment \/ Deploys \/ KeepsAdmin \/ CreatesAdmin \/ Summary
    \/ Fails

WizardNext == WizardStep \/ SaveStateKilled \/ StopsRun \/ Update

\* The user runs the wizard until it has installed the server.
WizardFairness == WF_wizardVars(step # "complete" /\ WizardStep)

WizardSpec == WizardInit /\ [][WizardNext]_wizardVars /\ WizardFairness
-----------------------------------------------------------------------------
\* What a wizard that completed has printed works, whatever runs stopped where
\* before it and whatever the user kept of them: the server deployed uses the
\* database, with the key its settings are encrypted with and the salt and key
\* pair that are stored there; the password printed is the admin's; and the
\* state file says so, for the next update.
InstallWorks ==
    step = "complete" =>
        /\ file = [is |-> "whole", state |-> mem]
        /\ UrlOpens(mem)
        /\ app[mem.host] = [db |-> mem.db, key |-> mem.key, salt |-> mem.salt]
        /\ \A s \in Settings : config[mem.db][s] = Encrypted(s)
        /\ users[mem.db] = mem.admin /\ mem.admin # 0

\* What keeps the last run from completing: the file was cut; or what a run that stopped
\* had done unsaved is in the way.  The server or the managed database exists and the
\* file does not name it; the registered key is not the one saved with the server; the
\* database kept a password that the saved URL does not have; or the first user
\* exists, with a password that was not saved.
Stuck ==
    \/ file.is = "cut"
    \/ "server" \in lost /\ cloud.server # 0 /\ Saved.host = Nowhere
    \/ "key" \in lost /\ Saved.host = BoughtServer(cloud.server) /\ Saved.ssh # cloud.key
    \/ /\ "database" \in lost
       /\ \/ Saved.db # NoDatabase /\ ~UrlOpens(Saved)
          \/ Saved.db = NoDatabase /\ Saved.host = AppPlatform /\ cloud.database # 0
    \/ "admin" \in lost /\ Saved.db # NoDatabase /\ Saved.admin = 0 /\ users[Saved.db] # 0

\* A wizard that is run again after every run that stopped installs the server in the
\* end: whatever a run had saved when it stopped, the next one resumes.  The exceptions
\* are the runs that stopped, or were started over, with something done that the file
\* does not say, where the last run then fails on that very thing.
WizardCompletes ==
    run > 0 ~> (step = "complete" \/ (run = MaxRuns /\ step = "stopped" /\ Stuck))
=============================================================================
