----------------------------- MODULE Credentials -----------------------------
(***************************************************************************)
(* Keys, setup links and the reload of the agent (src/main.rs, with        *)
(* setup_tokens.rs of the gateway).  Every chat worker of the gateway, and *)
(* the terminal chat, which is a process of its own, reads the whole of    *)
(* credentials.toml, changes its copy and writes it back; a write empties  *)
(* the file first.  The workers share one agent.  A provider answers a     *)
(* validation with success, with an error about the key or the model, or   *)
(* with some other error, which counts as success.                         *)
(***************************************************************************)
EXTENDS Integers, Sequences, FiniteSets, Functions

CONSTANTS Workers,       \* chat workers of the gateway
          Cli,           \* the terminal chat
          Pasted,        \* credentials users send: [name, base, key]
          Placeholders,  \* keys is_placeholder_key rejects
          Bad,           \* keys the provider rejects
          Models,        \* models a user may ask for
          Known,         \* provider |-> its known models, default first
          Files,         \* credentials.toml a process may start with
          ConfigCreds,   \* credentials of config.toml: [name, key, model] or None
          MaxHandlers,   \* bound on handlers begun
          MaxLinks       \* bound on setup links

VARIABLES file,      \* credentials.toml: <<>> if absent or being written
          agent,     \* process |-> the provider its agent uses, None offline
          at,        \* actor |-> where its handler stands
          token,     \* chat |-> its setup token, NoToken if none
          links,     \* chat of every link made so far
          begun,     \* handlers begun, 0 before the start
          config,    \* the credential of config.toml
          accepted,  \* keys that came with the start or passed a validation (history)
          saved,     \* credentials stored and not removed since (history)
          opened,    \* links whose blob was decrypted, by which chat (history)
          raced      \* two handlers have overlapped (history)

credentialVars == <<file, agent, at, token, links, begun, config, accepted,
                    saved, opened, raced>>

None == [name |-> "none"]
NoToken == [id |-> 0, fresh |-> FALSE]
Actors == Workers \union {Cli}
Process(a) == IF a = Cli THEN "cli" ELSE "gateway"
Idle == [pc |-> "idle"]
DefaultModel(name) == Known[name][1]

(* The subsequence of s at the positions K. *)
Pick(s, K) ==
  LET rank(i) == Cardinality({j \in K : j <= i})
  IN [n \in 1..Cardinality(K) |-> s[CHOOSE i \in K : rank(i) = n]]

ValidKeys(keys) == Pick(keys, {i \in DOMAIN keys : keys[i] \notin Placeholders})

(* load_credentials_file: none when there is no provider in the file. *)
Load(f) == IF f = <<>> \/ f.providers = <<>> THEN <<>> ELSE f
Found(f) == {i \in DOMAIN f.providers : f.providers[i].name = f.active}
ActiveEntry(f) == f.providers[CHOOSE i \in Found(f) : \A j \in Found(f) : i <= j]

(* load_active_provider_keys (and, of it, load_saved_credentials) *)
LoadActive(f) ==
  IF Load(f) = <<>> THEN None
  ELSE LET p == IF Found(f) = {} THEN f.providers[1] ELSE ActiveEntry(f)
       IN IF ValidKeys(p.keys) = <<>> THEN None
          ELSE [name |-> p.name, keys |-> ValidKeys(p.keys), model |-> p.model, base |-> p.base]

(* save_credentials: the key joins the entry of its name and address. *)
Save(f, c) ==
  LET old == IF Load(f) = <<>> THEN <<>> ELSE f.providers
      hits == {i \in DOMAIN old : old[i].name = c.name /\ old[i].base = c.base}
      first == CHOOSE i \in hits : \A j \in hits : i <= j
      Joined(p) == [p EXCEPT !.keys = IF c.key \in Range(@) THEN @ ELSE Append(@, c.key),
                             !.model = DefaultModel(c.name)]
      entry == [name |-> c.name, base |-> c.base, keys |-> <<c.key>>, model |-> DefaultModel(c.name)]
  IN [active |-> c.name,
      providers |-> IF hits = {} THEN Append(old, entry)
                    ELSE [old EXCEPT ![first] = Joined(@)]]

SetModel(f, name, m) ==
  LET ps == f.providers
  IN [active |-> f.active,
      providers |-> [i \in DOMAIN ps |-> IF ps[i].name = name THEN [ps[i] EXCEPT !.model = m] ELSE ps[i]]]

(* remove_provider *)
Removed(f, name) ==
  LET rest == Pick(f.providers, {i \in DOMAIN f.providers : f.providers[i].name # name})
  IN [active |-> IF f.active # name THEN f.active
                 ELSE IF rest = <<>> THEN "" ELSE rest[1].name,
      providers |-> rest]

-----------------------------------------------------------------------------
Init == /\ file = <<>> /\ begun = 0 /\ config = None
        /\ agent = [p \in {"gateway", "cli"} |-> None]
        /\ at = [a \in Actors |-> Idle]
        /\ token = [a \in Actors |-> NoToken] /\ links = <<>>
        /\ accepted = {} /\ saved = {} /\ opened = <<>> /\ raced = FALSE

KeysIn(f) == IF f = <<>> THEN {} ELSE UNION {Range(f.providers[i].keys) : i \in DOMAIN f.providers}

CredsIn(f) == IF f = <<>> THEN {}
              ELSE UNION {{[name |-> f.providers[i].name, base |-> f.providers[i].base, key |-> k] :
                             k \in Range(f.providers[i].keys)} : i \in DOMAIN f.providers}

(* Both processes start: the key of config.toml comes before the saved one, *)
(* but the list of keys is the saved one whenever there is one.             *)
Boot(f, c) ==
  LET usable == c # None /\ c.key \notin Placeholders
      loaded == LoadActive(f)
      chosen == IF c = None THEN loaded
                ELSE IF ~usable THEN None
                ELSE [name |-> c.name, model |-> c.model,
                      keys |-> IF loaded = None THEN <<c.key>> ELSE loaded.keys,
                      base |-> IF loaded = None THEN "none" ELSE loaded.base]
  IN /\ begun = 0 /\ begun' = 1 /\ config' = c
     /\ file' = f
     /\ agent' = [p \in DOMAIN agent |-> chosen]
     /\ accepted' = KeysIn(f) \union (IF c = None THEN {} ELSE {c.key})
     /\ saved' = CredsIn(f)
     /\ UNCHANGED <<at, token, links, opened, raced>>

(* A worker takes its next message. *)
Begin(a) == /\ at[a] = Idle /\ begun \in 1..MaxHandlers
            /\ begun' = begun + 1
            /\ raced' = (raced \/ \E b \in Actors : at[b] # Idle)
Go(a, r) == at' = [at EXCEPT ![a] = r]
End(a) == Go(a, Idle)

(* /addkey, key_manage "add", or any text while offline: a fresh link       *)
(* replaces the one the chat had.                                          *)
Link(a) == /\ at[a] = Idle /\ begun > 0 /\ Len(links) < MaxLinks
           /\ links' = Append(links, a)
           /\ token' = [token EXCEPT ![a] = [id |-> Len(links) + 1, fresh |-> TRUE]]
           /\ UNCHANGED <<file, agent, at, begun, config, accepted, saved, opened, raced>>

Expire(a) == /\ token[a].fresh
             /\ token' = [token EXCEPT ![a].fresh = FALSE]
             /\ UNCHANGED <<file, agent, at, links, begun, config, accepted, saved, opened, raced>>

(* A credential is looked at unless its key is a placeholder. *)
Check(a, job, c) == IF c.key \in Placeholders THEN End(a)
                    ELSE Go(a, [pc |-> "validate", job |-> job, cred |-> c,
                                with |-> [name |-> c.name, keys |-> <<c.key>>,
                                          model |-> DefaultModel(c.name), base |-> c.base]])

(* SetupTokenStore::consume removes the token whatever comes of it. *)
Consume(a) == token' = [token EXCEPT ![a] = NoToken]

(* An enc:v1: blob, made with the key of link id. *)
Blob(a, id, c) ==
  /\ Begin(a)
  /\ Consume(a)
  /\ IF token[a].fresh /\ token[a].id = id
     THEN opened' = Append(opened, <<id, a>>) /\ Check(a, "single", c)
     ELSE UNCHANGED <<opened, at>>
  /\ UNCHANGED <<file, agent, links, config, accepted, saved>>

(* A key in plain text.  A worker without an agent also tries the keys it   *)
(* already has for that provider; the terminal saves and switches.         *)
Paste(a, c) ==
  LET first == {i \in DOMAIN Load(file).providers : file.providers[i].name = c.name}
      old == IF Load(file) = <<>> \/ first = {} THEN <<>>
             ELSE file.providers[CHOOSE i \in first : \A j \in first : i <= j].keys
      all == <<c.key>> \o Pick(old, {i \in DOMAIN old : old[i] # c.key})
  IN /\ Begin(a)
     /\ IF a = Cli THEN Check(a, "single", c)
        ELSE IF agent["gateway"] # None THEN Check(a, "paste", c)
        ELSE IF c.key \in Placeholders THEN End(a)
        ELSE Go(a, [pc |-> "validate", job |-> "onboard", cred |-> c,
                    with |-> [name |-> c.name, keys |-> all,
                              model |-> DefaultModel(c.name), base |-> c.base]])
     /\ UNCHANGED <<file, agent, token, links, config, accepted, saved, opened>>

(* /model: refused, or the model of every entry of the active name. *)
SwitchModel(a, m) ==
  LET p == ActiveEntry(file)
  IN /\ a \in Workers /\ Begin(a)
     /\ IF Load(file) = <<>> \/ Found(file) = {} THEN End(a)
        ELSE IF p.model = m \/ (p.base = "none" /\ m \notin Range(Known[p.name])) THEN End(a)
        ELSE Go(a, [pc |-> "truncate", job |-> "model", copy |-> SetModel(file, file.active, m)])
     /\ UNCHANGED <<file, agent, token, links, config, accepted, saved, opened>>

(* After the write the file is read again and the new model tried. *)
Recheck(a) ==
  /\ at[a].pc = "recheck"
  /\ IF Load(file) = <<>> \/ Found(file) = {} THEN End(a)
     ELSE LET p == ActiveEntry(file)
          IN Go(a, [pc |-> "validate", job |-> "model", copy |-> file,
                    with |-> [name |-> p.name, keys |-> ValidKeys(p.keys), model |-> p.model, base |-> p.base]])
  /\ UNCHANGED <<file, agent, token, links, begun, config, accepted, saved, opened, raced>>

RemoveKey(a, name) ==
  /\ Begin(a)
  /\ IF Load(file) = <<>> \/ \A i \in DOMAIN file.providers : file.providers[i].name # name
     THEN Go(a, [pc |-> "offline"]) /\ UNCHANGED saved
     ELSE /\ Go(a, [pc |-> "truncate", job |-> "remove", copy |-> Removed(file, name)])
          /\ saved' = {c \in saved : c.name # name}
  /\ UNCHANGED <<file, agent, token, links, config, accepted, opened>>

(* Mutant of Offline: the agent is left as it is. *)
OfflineNever(a) == /\ at[a].pc = "offline" /\ End(a)
                   /\ UNCHANGED <<file, agent, token, links, begun, config, accepted, saved, opened, raced>>

(* After a removal: with no usable key left the agent goes offline. *)
Offline(a) ==
  /\ at[a].pc = "offline"
  /\ agent' = IF LoadActive(file) = None THEN [agent EXCEPT ![Process(a)] = None] ELSE agent
  /\ End(a)
  /\ UNCHANGED <<file, token, links, begun, config, accepted, saved, opened, raced>>

(* An ordinary turn, on the agent the worker took at its beginning, ends in *)
(* HotReload.                                                              *)
Turn(a) == /\ a \in Workers /\ agent["gateway"] # None /\ Begin(a)
           /\ Go(a, [pc |-> "turn", mine |-> agent["gateway"]])
           /\ UNCHANGED <<file, agent, token, links, config, accepted, saved, opened>>

HotReload(a) ==
  LET new == LoadActive(file)
  IN /\ at[a].pc = "turn"
     /\ IF new = None THEN End(a)
        ELSE IF new.model = at[a].mine.model /\ Len(new.keys) <= 1 THEN End(a)
        ELSE Go(a, [pc |-> "validate", job |-> "reload", mine |-> at[a].mine, with |-> new])
     /\ UNCHANGED <<file, agent, token, links, begun, config, accepted, saved, opened, raced>>

(* The answers validate_provider_key may get for a configuration; without  *)
(* a key create_provider refuses before anything is sent.                  *)
Answers(w) == IF w.keys = <<>> THEN {"rejected"}
              ELSE {"other"} \union
                   IF Head(w.keys) \notin Bad /\ w.model \in Range(Known[w.name])
                   THEN {"ok"} ELSE {"rejected"}

Online(a) == agent' = [agent EXCEPT ![Process(a)] = at[a].with]

(* An error that is not about the key or the model is taken for success. *)
Validated(a, answer) == answer \in {"ok", "other"}

(* validate_provider_key, and what each handler does with the answer. *)
Validate(a, answer) ==
  LET r == at[a]
      reload == r.job \in {"model", "reload"}
  IN /\ r.pc = "validate"
     /\ IF Validated(a, answer)
        THEN /\ accepted' = accepted \union (IF answer = "rejected" \/ reload THEN {} ELSE {r.cred.key})
             /\ IF reload THEN Online(a) /\ End(a)
                ELSE /\ Go(a, [r EXCEPT !.pc = "save"])
                     /\ IF r.job = "onboard" THEN Online(a) ELSE UNCHANGED agent
        ELSE /\ UNCHANGED <<accepted, agent>>
             /\ IF r.job = "reload" THEN Go(a, [r EXCEPT !.pc = "revert"])
                ELSE IF r.job = "model" /\ agent["gateway"] # None
                THEN Go(a, [pc |-> "truncate", job |-> "revert",
                            copy |-> SetModel(r.copy, r.copy.active, agent["gateway"].model)])
                ELSE End(a)
     /\ UNCHANGED <<file, token, links, begun, config, saved, opened, raced>>

(* A failed hot reload writes back the model of the agent the turn ran on. *)
Revert(a) ==
  /\ at[a].pc = "revert"
  /\ IF Load(file) = <<>> THEN End(a)
     ELSE Go(a, [pc |-> "truncate", job |-> "revert",
                 copy |-> SetModel(file, at[a].with.name, at[a].mine.model)])
  /\ UNCHANGED <<file, agent, token, links, begun, config, accepted, saved, opened, raced>>

SaveRead(a) == /\ at[a].pc = "save"
               /\ Go(a, [pc |-> "truncate", job |-> at[a].job, cred |-> at[a].cred,
                         with |-> at[a].with, copy |-> Save(file, at[a].cred)])
               /\ UNCHANGED <<file, agent, token, links, begun, config, accepted, saved, opened, raced>>

(* A write empties the file, then fills it. *)
Truncate(a) == /\ at[a].pc = "truncate"
               /\ file' = <<>>
               /\ Go(a, [at[a] EXCEPT !.pc = "fill"])
               /\ UNCHANGED <<agent, token, links, begun, config, accepted, saved, opened, raced>>

Fill(a) == /\ at[a].pc = "fill"
           /\ file' = at[a].copy
           /\ saved' = saved \union IF at[a].job \in {"paste", "single", "onboard"} THEN {at[a].cred} ELSE {}
           /\ CASE at[a].job \in {"paste", "single"} -> Go(a, [at[a] EXCEPT !.pc = "activate"])
                [] at[a].job = "model"  -> Go(a, [pc |-> "recheck"])
                [] at[a].job = "remove" -> Go(a, [pc |-> "offline"])
                [] OTHER                -> End(a)
           /\ UNCHANGED <<agent, token, links, begun, config, accepted, opened, raced>>

(* The agent moves to the key just tried or, when a worker already had one, *)
(* to whatever the file now names.                                         *)
Activate(a) ==
  /\ at[a].pc = "activate"
  /\ IF at[a].job = "single" THEN Online(a)
     ELSE agent' = IF LoadActive(file) = None THEN agent
                   ELSE [agent EXCEPT !["gateway"] = LoadActive(file)]
  /\ End(a)
  /\ UNCHANGED <<file, token, links, begun, config, accepted, saved, opened, raced>>

Receive(a) ==
  \/ Link(a) \/ Turn(a)
  \/ \E c \in Pasted : Paste(a, c) \/ \E id \in 1..Len(links) : Blob(a, id, c)
  \/ \E m \in Models : SwitchModel(a, m)
  \/ \E name \in DOMAIN Known : RemoveKey(a, name)

Next ==
  \/ begun = 0 /\ \E f \in Files, c \in ConfigCreds : Boot(f, c)
  \/ \E a \in Actors :
       \/ Receive(a) \/ Expire(a)
       \/ Recheck(a) \/ Offline(a) \/ HotReload(a) \/ Revert(a)
       \/ SaveRead(a) \/ Truncate(a) \/ Fill(a) \/ Activate(a)
       \/ at[a].pc = "validate" /\ \E answer \in Answers(at[a].with) : Validate(a, answer)

Spec == Init /\ [][Next]_credentialVars

-----------------------------------------------------------------------------
TypeOK == /\ raced \in BOOLEAN
          /\ \A p \in DOMAIN agent : agent[p] = None \/ agent[p].keys # <<>>
          /\ \A a \in Actors : token[a].id \in 0..Len(links)

(* However the handlers interleave, a key a provider has turned down is    *)
(* never written to the file nor used by an agent ("Validate the key       *)
(* BEFORE saving").                                                        *)
OnlyTriedKeys == /\ KeysIn(file) \subseteq accepted
                 /\ \A p \in DOMAIN agent : agent[p] # None => Range(agent[p].keys) \subseteq accepted

(* A setup link opens one blob, of the chat it was made for; a second blob *)
(* for it, or one that comes after a newer link, is refused.               *)
OneBlobPerLink == /\ \A i, j \in DOMAIN opened : opened[i][1] = opened[j][1] => i = j
                  /\ \A i \in DOMAIN opened : links[opened[i][1]] = opened[i][2]

(* While no two handlers overlap, a credential that was stored is in the   *)
(* file until its provider is removed, whatever else is saved, switched    *)
(* and reverted.  (Handlers that overlap lose updates: the file is read    *)
(* and written as a whole.)                                                *)
SavedStays ==
  (~raced /\ \A a \in Actors : at[a] = Idle) =>
    saved \subseteq CredsIn(file)

(* Without a key in config.toml, while no two handlers overlap and the two *)
(* processes agree, an agent is online exactly when the file has a usable  *)
(* key: removing the last one takes it offline, adding one brings it up.   *)
OnlineWhenUsable ==
  (/\ begun > 0 /\ config = None /\ ~raced /\ \A a \in Actors : at[a] = Idle
   /\ agent["cli"] = agent["gateway"]) =>
    (agent["gateway"] = None <=> LoadActive(file) = None)
-----------------------------------------------------------------------------
(* What holds between any two steps.  First what a handler can carry: the    *)
(* new credential with the configuration to try, the copy to write, the      *)
(* agent a turn runs on.                                                     *)
Text == STRING \union {"none", ""}
NewKey == {"single", "paste", "onboard"}
Cred == [name : DOMAIN Known, base : Text, key : STRING]
Conf == [name : STRING, keys : Seq(STRING), model : STRING, base : Text]
Entries == [name : STRING, base : Text, keys : Seq(STRING), model : STRING]
Contents == [active : Text, providers : Seq(Entries)]
Stages == {Idle}
   \union [pc : {"validate", "save"}, job : NewKey, cred : Cred, with : Conf]
   \union [pc : {"truncate", "fill", "activate"}, job : NewKey, cred : Cred, with : Conf, copy : Contents]
   \union [pc : {"validate"}, job : {"model"}, copy : Contents, with : Conf]
   \union [pc : {"validate", "revert"}, job : {"reload"}, mine : Conf, with : Conf]
   \union [pc : {"truncate", "fill"}, job : {"model", "remove", "revert"}, copy : Contents]
   \union [pc : {"recheck", "offline"}] \union [pc : {"turn"}, mine : Conf]

CredentialTypes ==
  /\ file \in {<<>>} \union Contents
  /\ agent \in [{"gateway", "cli"} -> {None} \union Conf]
  /\ at \in [Actors -> Stages]
  /\ token \in [Actors -> [id : Nat, fresh : BOOLEAN]]
  /\ links \in Seq(Actors) /\ opened \in Seq(Nat \X Actors)
  /\ begun \in Nat /\ raced \in BOOLEAN
  /\ begun = 0 => \A a \in Actors : at[a] = Idle

(* Every entry has a key that is not a placeholder, and every key was tried. *)
Usable(f) == f # <<>> => \A i \in DOMAIN f.providers : \E k \in Range(f.providers[i].keys) : k \notin Placeholders
Tried(f) == KeysIn(f) \subseteq accepted
Proper(w) == w.keys # <<>> /\ Range(w.keys) \subseteq accepted

(* What a handler carries is fit for the file and for the agent.             *)
Fit(r) ==
  /\ r.pc \in {"truncate", "fill"} => Usable(r.copy) /\ Tried(r.copy)
  /\ (r.pc = "validate" /\ r.job = "model") => Usable(r.copy) /\ Tried(r.copy) /\ Range(r.with.keys) \subseteq accepted
  /\ (r.pc = "validate" /\ r.job \in NewKey) =>
        /\ r.cred.key \notin Placeholders /\ r.with.keys # <<>>
        /\ Range(r.with.keys) \subseteq accepted \union {r.cred.key}
  /\ (r.pc = "validate" /\ r.job = "reload") => Proper(r.with)
  /\ (r.pc \in {"save", "truncate", "fill", "activate"} /\ r.job \in NewKey) =>
        r.cred.key \in accepted \ Placeholders /\ Proper(r.with)

KeysProper == /\ Usable(file) /\ Tried(file)
              /\ \A p \in DOMAIN agent : agent[p] # None => Proper(agent[p])
              /\ \A a \in Actors : Fit(at[a])

(* A token that was not used belongs to a link of its chat.                  *)
TokensOwn ==
  /\ \A a \in Actors : token[a].id # 0 =>
       /\ token[a].id \in DOMAIN links /\ links[token[a].id] = a
       /\ \A i \in DOMAIN opened : opened[i][1] # token[a].id
  /\ \A a \in Actors : token[a].fresh => token[a].id # 0
  /\ \A i \in DOMAIN opened : opened[i][1] \in DOMAIN links /\ links[opened[i][1]] = opened[i][2]
  /\ \A i, j \in DOMAIN opened : opened[i][1] = opened[j][1] => i = j

(* While no handlers overlap one of them at most is under way, and its copy  *)
(* of the file has what was saved.                                           *)
Alone == \A a, b \in Actors : (at[a] # Idle /\ at[b] # Idle) => a = b
Holds(r) ==
  /\ r.pc \in {"truncate", "fill"} \/ (r.pc = "validate" /\ r.job = "model") => saved \subseteq CredsIn(r.copy)
  /\ (r.pc \in {"truncate", "fill"} /\ r.job \in NewKey) => r.cred \in CredsIn(r.copy)
  /\ r.pc # "fill" => saved \subseteq CredsIn(file)

(* The same for the agents: Filled(f) is a file with an entry.               *)
Filled(f) == f # <<>> /\ f.providers # <<>>
On == \E p \in DOMAIN agent : agent[p] # None
Off == \E p \in DOMAIN agent : agent[p] = None
Lit(r) ==
  /\ (Filled(file) /\ r.pc \notin {"fill", "activate"}) => On
  /\ (~Filled(file) /\ r.pc \notin {"fill", "offline"}
       /\ ~(r.pc \in {"save", "truncate"} /\ r.job = "onboard")) => Off
  /\ (r.pc \in {"truncate", "fill"} /\ r.job \in {"model", "revert", "remove"}) => On
  /\ (r.pc \in {"save", "truncate", "fill"} /\ r.job = "onboard") => On
  /\ (r.pc \in {"truncate", "fill"} /\ r.job # "remove") => Filled(r.copy)
  /\ (r.pc = "validate" /\ r.job = "model") => Filled(r.copy)
  /\ r.pc \in {"recheck", "revert", "activate"} => Filled(file)
  /\ (r.pc = "validate" /\ r.job \in {"model", "reload"}) => Filled(file)

Undisturbed ==
  ~raced => /\ Alone
            /\ \A a \in Actors : (\A b \in Actors : at[b] # Idle => b = a) =>
                  /\ Holds(at[a])
                  /\ (begun > 0 /\ config = None) => Lit(at[a])

CredentialsInv == CredentialTypes /\ KeysProper /\ TokensOwn /\ Undisturbed
=============================================================================
