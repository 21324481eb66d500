------------------------------ MODULE ConfigStore ------------------------------
(***************************************************************************)
(* The configuration of the security_guard process: the files it is read   *)
(* from, the maps of ConfigDataManager, and the calls that replace a file  *)
(* while the service runs (DataCollectManagerService::ConfigUpdate,        *)
(* ConfigSubscriber, ConfigOperator, EventConfig, ModelConfig,             *)
(* EventGroupConfig, SecurityGuardUtils::CopyFile).                        *)
(*                                                                         *)
(* Two system abilities of the process, data collection and risk analysis, *)
(* each read every file when they start.  A call goes through the private  *)
(* copy (cache) of the file, then through the one temporary file next to   *)
(* the destination, which two overlapping calls share; nothing serializes  *)
(* the calls.  A file that is open keeps its content (its inode) when its  *)
(* name goes to another one.                                               *)
(***************************************************************************)
EXTENDS Integers, FiniteSets, SequencesExt

CONSTANTS None,
          Zero,        \* the id 0, which an entry keeps whose id cannot be read
          Names,       \* the files: "event", "model", "group" and others a call may bring
          Trusted,     \* the names of the trust list
          Dst,         \* Dst[f] of the other files: "listed", "unlisted", or listed with an "empty" path
          Text,        \* Text[f][t]: the entries of a text that is well formed for the file, a
                       \*   sequence of records [id, old, table, rom, audit] of events, [id, mode] of
                       \*   models or [id, ok] of groups; an id that cannot be read is None
          Torn,        \* a text cut short
          Old,         \* the inode that a destination has at first
          Updates,     \* the calls
          UFile, UText, UApi,   \* the file and the text a call brings, and whether it is made in "js" or "c"
          BadArgs,     \* the calls, and the requests, whose arguments are refused in the client
          PlainRom, AuditRom,   \* STORAGE_ROM_NUMS_MAX_VALUE, DB_MAX_VALUE
          Faults,      \* what may fail: "denied", "receive", "short", "lib", "open", "full", "rename"
                       \*   and, in the modules above, "load", "subscribe", "dlopen", "request"
          Plans        \* bounds of a behaviour: the calls, the texts found on the disk, the failures,
                       \*   the starts; and for the modules above the requests and the plugins

ASSUME ConfigAssumption ==
    /\ Trusted \subseteq Names /\ {"event", "model", "group"} \subseteq Names
    /\ {UFile[c] : c \in Updates} \subseteq Names \ {"group"}
    /\ PlainRom \in Nat /\ AuditRom \in Nat
    \* The inodes of the calls are new, and a text that is cut short is not well formed.
    /\ None \notin Updates /\ {"collect", "risk"} \intersect Updates = {}
    /\ \A f \in Names : Old[f] # None /\ Old[f] \notin Updates
    /\ \A f \in {"event", "model"} : Torn \notin DOMAIN Text[f]

VARIABLES plan,
          up,          \* the process runs
          disk,        \* the inode at the destination of a file
          tmp,         \* the inode at its ".tmp" name
          cache,       \* the text at tmp/<name>, where a call leaves it
          data,        \* the text of each inode
          mem,         \* modelMap_, eventMap_, eventGroupMap_
          tables,      \* eventToTableMap_
          op,          \* the calls and the two initializations
          dirty,       \* history: two of them overlapped on the file, or a write of it was cut short
          starts, faults

configVars == <<plan, up, disk, tmp, cache, data, mem, tables, op, dirty, starts, faults>>
fileVars == <<disk, tmp, cache, data>>

Inits == {"collect", "risk"}
Config == {"event", "model"}
Order == <<"event", "model", "group">>
Rest == [at |-> "idle", text |-> None, src |-> None, fd |-> None, ret |-> "", solo |-> TRUE, left |-> <<>>]
Fault(f) == f \in Faults /\ faults < plan.faults
Blame(failed) == faults' = IF failed THEN faults + 1 ELSE faults

(* from_json: an entry without an id keeps what it was created with, and stays in the list. *)
EventOf(e) == IF e.id = None THEN [id |-> Zero, old |-> Zero, cfg |-> [table |-> None, rom |-> 0, audit |-> FALSE]]
              ELSE [id |-> e.id, old |-> IF e.old = None THEN Zero ELSE e.old,
                    cfg |-> [table |-> e.table, rom |-> e.rom, audit |-> e.audit]]
ModelOf(e) == IF e.id = None THEN [id |-> Zero, cfg |-> "none"] ELSE [id |-> e.id, cfg |-> e.mode]

(* ParseEventConfig: no event keeps more rows than its owner may. *)
Capped(e) == LET max == IF e.cfg.audit THEN AuditRom ELSE PlainRom
             IN [e EXCEPT !.cfg.rom = IF @ >= max THEN max ELSE @]
ParseEventConfig(t) == [i \in DOMAIN Text["event"][t] |-> Capped(EventOf(Text["event"][t][i]))]
ParseModelConfig(t) == [i \in DOMAIN Text["model"][t] |-> ModelOf(Text["model"][t][i])]

(* Events go under their id and under the older id they replace.  The last entry of an id counts. *)
CacheEventConfig(map, e) == (e.id :> e.cfg) @@ (IF e.old # Zero THEN e.old :> e.cfg ELSE <<>>) @@ map
CacheModelConfig(map, e) == (e.id :> e.cfg) @@ map
EventMap == [t \in DOMAIN Text["event"] |-> FoldLeft(CacheEventConfig, <<>>, ParseEventConfig(t))]
ModelMap == [t \in DOMAIN Text["model"] |-> FoldLeft(CacheModelConfig, <<>>, ParseModelConfig(t))]

(* One group that cannot be read refuses the whole file. *)
ParseEventGroupConfig(t) == \A i \in DOMAIN Text["group"][t] : Text["group"][t][i].ok
GroupMap == [t \in DOMAIN Text["group"] |-> FoldLeft(LAMBDA map, e : (e.id :> TRUE) @@ map, <<>>, Text["group"][t])]
TableOf(map) == [id \in DOMAIN map |-> map[id].table]

(* Check: a file that is there, neither empty nor too large, and well formed. *)
Check(f, t) == t \in DOMAIN Text[f]

(* Load at a start: the destination if it exists, else what the system came with.  A        *)
(* destination that cannot be parsed leaves the maps empty: nothing falls back on the latter. *)
EventText == IF disk["event"] # None THEN data[disk["event"]] ELSE plan.preset["event"]
ModelText == IF disk["model"] # None THEN data[disk["model"]] ELSE plan.preset["model"]
GroupText == plan.preset["group"]
LoadText(f) == CASE f = "event" -> EventText [] f = "model" -> ModelText [] OTHER -> GroupText

CallsOn(f) == {c \in Updates : UFile[c] = f /\ op[c].at \notin {"idle", "asked", "done", "settled"}}
InitsOn(f) == {i \in Inits : op[i].at \in {"insert", "tables"} /\ Head(op[i].left) = f}

ConfigInit == /\ plan \in Plans
              /\ up = FALSE
              /\ disk = [f \in Names |-> IF f \in DOMAIN plan.disk THEN Old[f] ELSE None]
              /\ data = [n \in Updates \cup {Old[f] : f \in Names} |->
                            IF \E f \in DOMAIN plan.disk : Old[f] = n
                            THEN plan.disk[CHOOSE f \in DOMAIN plan.disk : Old[f] = n] ELSE None]
              /\ tmp = [f \in Names |-> None] /\ cache = [f \in Names |-> None]
              /\ mem = [f \in Config \cup {"group"} |-> <<>>] /\ tables = <<>>
              /\ op = [c \in Updates \cup Inits |-> Rest]
              /\ dirty = [f \in Names |-> FALSE]
              /\ starts = 0 /\ faults = 0

-------------------------------------------------------------------------------
(* The start of the process, and InitAllConfig in each of the two abilities. *)

BootConfig == /\ ~up /\ starts < plan.starts
              /\ up' = TRUE /\ starts' = starts + 1
              /\ op' = [c \in DOMAIN op |-> IF c \in Inits THEN [Rest EXCEPT !.at = "load", !.left = Order] ELSE op[c]]
              /\ mem' = [f \in DOMAIN mem |-> <<>>] /\ tables' = <<>>
              /\ dirty' = [f \in Names |-> FALSE]
              /\ UNCHANGED <<plan, fileVars, faults>>

(* The process dies: the maps go, the files stay as they are, the calls under way fail. *)
CrashConfig == /\ up /\ up' = FALSE
               /\ op' = [c \in DOMAIN op |->
                           IF c \in Inits THEN Rest
                           ELSE IF op[c].at \in {"idle", "asked", "done", "settled"} THEN op[c]
                           ELSE [Rest EXCEPT !.at = "done", !.ret = "LOST"]]
               /\ UNCHANGED <<plan, fileVars, mem, tables, dirty, starts, faults>>

NextFile(i) == op' = [op EXCEPT ![i].left = Tail(@), ![i].at = IF Len(op[i].left) = 1 THEN "done" ELSE "load"]

(* Init of one file: Load, Check and the parsing of the stream. *)
LoadInit(i) == /\ op[i].at = "load"
               /\ LET f == Head(op[i].left)
                      t == LoadText(f)
                  IN IF ~Check(f, t) THEN NextFile(i) /\ UNCHANGED dirty
                     ELSE /\ op' = [x \in DOMAIN op |->
                                      CASE x = i -> [op[i] EXCEPT !.at = "insert", !.text = t]
                                        [] x \in CallsOn(f) -> [op[x] EXCEPT !.solo = FALSE]
                                        [] OTHER -> op[x]]
                          /\ dirty' = [dirty EXCEPT ![f] = @ \/ CallsOn(f) # {}]
               /\ UNCHANGED <<plan, up, fileVars, mem, tables, starts, faults>>

(* libsg_config_manager does not load: the ability goes on with no configuration of its own. *)
LibMissing(i) == /\ op[i].at = "load" /\ op[i].left = Order /\ Fault("lib") /\ Blame(TRUE)
                 /\ op' = [op EXCEPT ![i].at = "done", ![i].left = <<>>]
                 /\ dirty' = [f \in Names |-> TRUE]
                 /\ UNCHANGED <<plan, up, fileVars, mem, tables, starts>>

(* The entries are added to what the map holds; the groups replace it. *)
InsertEvents(i) == /\ op[i].at = "insert" /\ Head(op[i].left) = "event"
                   /\ mem' = [mem EXCEPT !["event"] = EventMap[op[i].text] @@ @]
                   /\ op' = [op EXCEPT ![i].at = "tables"]
                   /\ UNCHANGED <<plan, up, fileVars, tables, dirty, starts, faults>>

InsertModels(i) == /\ op[i].at = "insert" /\ Head(op[i].left) = "model"
                   /\ mem' = [mem EXCEPT !["model"] = ModelMap[op[i].text] @@ @]
                   /\ NextFile(i)
                   /\ UNCHANGED <<plan, up, fileVars, tables, dirty, starts, faults>>

InsertGroups(i) == /\ op[i].at = "insert" /\ Head(op[i].left) = "group"
                   /\ mem' = IF ParseEventGroupConfig(op[i].text)
                             THEN [mem EXCEPT !["group"] = GroupMap[op[i].text]] ELSE mem
                   /\ NextFile(i)
                   /\ UNCHANGED <<plan, up, fileVars, tables, dirty, starts, faults>>

CacheEventToTable(i) == /\ op[i].at = "tables"
                        /\ tables' = TableOf(EventMap[op[i].text]) @@ tables
                        /\ NextFile(i)
                        /\ UNCHANGED <<plan, up, fileVars, mem, dirty, starts, faults>>

-------------------------------------------------------------------------------
(* An update of a file. *)

Done(c, ret) == op' = [op EXCEPT ![c].at = "done", ![c].ret = ret]
ToFinish(c, ret) == op' = [op EXCEPT ![c].at = "finish", ![c].ret = ret]

(* JavaScript queues the call for a worker; arguments of the wrong type end it there. *)
ParsePolicyFileInfo(c) == c \notin BadArgs
NapiUpdatePolicyFile(c) ==
    /\ op[c].at = "idle" /\ c \in plan.updates /\ UApi[c] = "js"
    /\ IF ParsePolicyFileInfo(c) THEN op' = [op EXCEPT ![c].at = "asked"]
       ELSE op' = [op EXCEPT ![c].at = "settled", ![c].ret = "BAD_PARAM"]
    /\ UNCHANGED <<plan, up, fileVars, mem, tables, dirty, starts, faults>>

SecurityGuardConfigUpdate(c) ==
    /\ op[c].at = "idle" /\ c \in plan.updates /\ UApi[c] = "c"
    /\ IF c \in BadArgs THEN Done(c, "BAD_PARAM") ELSE op' = [op EXCEPT ![c].at = "asked"]
    /\ UNCHANGED <<plan, up, fileVars, mem, tables, dirty, starts, faults>>

Published == up /\ op["collect"].at = "done"

(* The proxy of the kit: without the service the call ends at once. *)
NoService(c) == /\ op[c].at = "asked" /\ ~Published
                /\ Done(c, "NULL_OBJECT")
                /\ UNCHANGED <<plan, up, fileVars, mem, tables, dirty, starts, faults>>

(* The permission, and the names of the trust list. *)
RefuseUpdate(c) == /\ op[c].at = "asked" /\ Published
                   /\ \/ UFile[c] \notin Trusted /\ Done(c, "BAD_PARAM") /\ UNCHANGED faults
                      \/ Fault("denied") /\ Done(c, "NO_PERMISSION") /\ Blame(TRUE)
                   /\ UNCHANGED <<plan, up, fileVars, mem, tables, dirty, starts>>

(* The text is received in a file of this thread and renamed to tmp/<name>, over any other. *)
(* A write that stores less than it was given counts as done.                               *)
ReceiveFails(c) == /\ op[c].at = "asked" /\ Published /\ UFile[c] \in Trusted
                   /\ Fault("receive") /\ Blame(TRUE) /\ Done(c, "FAILED")
                   /\ UNCHANGED <<plan, up, fileVars, mem, tables, dirty, starts>>

ConfigUpdate(c) ==
    /\ op[c].at = "asked" /\ Published /\ UFile[c] \in Trusted
    /\ LET f == UFile[c]
           others == CallsOn(f)
           alone == others = {} /\ InitsOn(f) = {}
       IN \E t \in {UText[c], Torn} :
            /\ t = UText[c] \/ Fault("short")
            /\ Blame(t # UText[c])
            /\ cache' = [cache EXCEPT ![f] = t]
            /\ op' = [x \in DOMAIN op |->
                        CASE x = c -> [op[c] EXCEPT !.at = "cached", !.solo = alone /\ t = UText[c]]
                          [] x \in others -> [op[x] EXCEPT !.solo = FALSE]
                          [] OTHER -> op[x]]
            /\ dirty' = [dirty EXCEPT ![f] = @ \/ ~alone]
    /\ UNCHANGED <<plan, up, disk, tmp, data, mem, tables, starts>>

LibFails(c) == /\ op[c].at = "cached" /\ Fault("lib") /\ Blame(TRUE) /\ Done(c, "FAILED")
               /\ UNCHANGED <<plan, up, fileVars, mem, tables, dirty, starts>>

(* ConfigOperator::Update of an event or a model file: Load and Check the cache, parse it. *)
LoadUpdate(c) == /\ op[c].at = "cached" /\ UFile[c] \in Config
                 /\ IF Check(UFile[c], cache[UFile[c]])
                    THEN op' = [op EXCEPT ![c].at = "copy", ![c].text = cache[UFile[c]]]
                    ELSE ToFinish(c, "FAILED")
                 /\ UNCHANGED <<plan, up, fileVars, mem, tables, dirty, starts, faults>>

(* Another file goes where the update list says; one the list does not name, or a list that *)
(* cannot be read, leaves it where it is: CopyFile copies it onto itself, and may fail.     *)
GetUpdateFileDstPath(c) ==
    /\ op[c].at = "cached" /\ UFile[c] \notin Config
    /\ LET f == UFile[c]
       IN \/ Dst[f] = "listed" /\ op' = [op EXCEPT ![c].at = "copy"] /\ UNCHANGED faults
          \/ Dst[f] = "empty" /\ ToFinish(c, "FAILED") /\ UNCHANGED faults
          \/ Dst[f] = "unlisted" /\ cache[f] # None /\ ToFinish(c, "SUCCESS") /\ UNCHANGED faults
          \/ /\ Dst[f] = "unlisted" /\ (cache[f] = None \/ Fault("open") \/ Fault("rename"))
             /\ ToFinish(c, "FAILED") /\ Blame(cache[f] # None)
    /\ UNCHANGED <<plan, up, fileVars, mem, tables, dirty, starts>>

(* Mutant: The result of CopyFile is not looked at. *)
CopyFails_Ignored(c) == op' = [op EXCEPT ![c].at = IF UFile[c] \in Config THEN "swap" ELSE "finish",
                                         ![c].ret = "SUCCESS"]
CopyFails(c) == ToFinish(c, "FAILED")

(* CopyFile: the cache as it is now, which need not be the text that was parsed, into the  *)
(* ".tmp" name of the destination: a new inode, or the one that is there, emptied.         *)
OpenFails(c) == op[c].at = "copy" /\ (cache[UFile[c]] = None \/ Fault("open"))
OpenCopy(c) ==
    /\ op[c].at = "copy"
    /\ LET f == UFile[c]
           n == IF tmp[f] = None THEN c ELSE tmp[f]
       IN \/ /\ OpenFails(c) /\ CopyFails(c)
             /\ Blame(cache[f] # None) /\ UNCHANGED <<tmp, data>>
          \/ /\ cache[f] # None
             /\ tmp' = [tmp EXCEPT ![f] = n] /\ data' = [data EXCEPT ![n] = None]
             /\ op' = [op EXCEPT ![c].at = "write", ![c].src = cache[f], ![c].fd = n]
             /\ UNCHANGED faults
    /\ UNCHANGED <<plan, up, disk, cache, mem, tables, dirty, starts>>

(* The result of the write is not read.  Two that write one inode may leave a mixture of both. *)
WriteCopy(c) ==
    /\ op[c].at = "write"
    /\ LET n == op[c].fd
       IN \E t \in {op[c].src, Torn} :
            /\ t = op[c].src \/ data[n] # None \/ Fault("full")
            /\ Blame(t # op[c].src /\ data[n] = None)
            /\ data' = [data EXCEPT ![n] = t]
            /\ dirty' = [dirty EXCEPT ![UFile[c]] = @ \/ t # op[c].src]
            /\ op' = [op EXCEPT ![c].at = "rename", ![c].solo = @ /\ t = op[c].src]
    /\ UNCHANGED <<plan, up, disk, tmp, cache, mem, tables, starts>>

(* The name goes to the destination at once; a call that finds it gone has failed. *)
RenameCopy(c) ==
    /\ op[c].at = "rename"
    /\ LET f == UFile[c]
       IN \/ /\ tmp[f] # None
             /\ disk' = [disk EXCEPT ![f] = tmp[f]]
             /\ IF f \in Config THEN op' = [op EXCEPT ![c].at = "swap"] ELSE ToFinish(c, "SUCCESS")
             /\ UNCHANGED faults
          \/ /\ tmp[f] = None \/ Fault("rename")
             /\ Blame(tmp[f] # None) /\ CopyFails(c) /\ UNCHANGED disk
    /\ tmp' = [tmp EXCEPT ![UFile[c]] = None]
    /\ UNCHANGED <<plan, up, cache, data, mem, tables, dirty, starts>>

(* The new map takes the place of the other in one step, with its tables, which only grow. *)
SwapEventConfigMapWithTables(new) == /\ mem' = [mem EXCEPT !["event"] = new]
                                     /\ tables' = TableOf(new) @@ tables
SwapModelMap(new) == mem' = [mem EXCEPT !["model"] = new]

Clean(c) == dirty' = [dirty EXCEPT ![UFile[c]] = @ /\ ~op[c].solo]
SwapEvents(c) ==
    /\ op[c].at = "swap" /\ UFile[c] = "event"
    /\ SwapEventConfigMapWithTables(EventMap[op[c].text])
    /\ Clean(c) /\ ToFinish(c, "SUCCESS")
    /\ UNCHANGED <<plan, up, fileVars, starts, faults>>

SwapModels(c) ==
    /\ op[c].at = "swap" /\ UFile[c] = "model"
    /\ SwapModelMap(ModelMap[op[c].text])
    /\ Clean(c) /\ ToFinish(c, "SUCCESS")
    /\ UNCHANGED <<plan, up, fileVars, tables, starts, faults>>

(* The update is reported as an event (0xAB000004) by a thread that is joined, the cache is *)
(* removed, whoever wrote it last, and the caller is told.                                  *)
FinishUpdate(c) == /\ op[c].at = "finish"
                   /\ cache' = [cache EXCEPT ![UFile[c]] = None]
                   /\ op' = [op EXCEPT ![c].at = "done"]
                   /\ UNCHANGED <<plan, up, disk, tmp, data, mem, tables, dirty, starts, faults>>

(* JavaScript settles the promise. *)
UpdatePolicyComplete(c) == /\ op[c].at = "done" /\ UApi[c] = "js"
                           /\ op' = [op EXCEPT ![c].at = "settled"]
                           /\ UNCHANGED <<plan, up, fileVars, mem, tables, dirty, starts, faults>>

ConfigInitStep(i) == LoadInit(i) \/ LibMissing(i) \/ InsertEvents(i) \/ InsertModels(i) \/ InsertGroups(i)
                     \/ CacheEventToTable(i)
UpdateStep(c) == \/ NapiUpdatePolicyFile(c) \/ SecurityGuardConfigUpdate(c) \/ NoService(c) \/ RefuseUpdate(c)
                 \/ ReceiveFails(c) \/ ConfigUpdate(c)
                 \/ LibFails(c) \/ LoadUpdate(c) \/ GetUpdateFileDstPath(c)
                 \/ OpenCopy(c) \/ WriteCopy(c) \/ RenameCopy(c) \/ SwapEvents(c) \/ SwapModels(c)
                 \/ FinishUpdate(c) \/ UpdatePolicyComplete(c)

-------------------------------------------------------------------------------
(* What the rest of the process reads: GetEventConfig, GetModelConfig, GetAllModelIds. *)
GetEventConfig(e) == e \in DOMAIN mem["event"]
GetModelConfig(m) == m \in DOMAIN mem["model"]
GetAllModelIds == DOMAIN mem["model"]
===============================================================================
