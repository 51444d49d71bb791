------------------------------ MODULE ToolSetup ------------------------------
(***************************************************************************)
(* rp-cli setup: merging the router's address into the configuration file  *)
(* of another program (a "tool").  A file is a document (its leaves: path  *)
(* -> value) and whether rp-cli rendered it, unless there is none, or it   *)
(* is torn: emptied, and not filled when the process ended.  The command   *)
(* reads the file, plans the merge, copies the file to <path>.bak and      *)
(* writes it; it can end between any two of these.                         *)
(***************************************************************************)
EXTENDS Naturals, Sequences, SequencesExt, FiniteSets

CONSTANTS
  Format,        (* "json" or "toml".                                      *)
  Fields,        (* FieldSpecs of the target.                              *)
  BaseUrls,      (* Values of --base-url.                                  *)
  Documents,     (* Documents the tool itself writes.                      *)
  MaxApplies,    (* Bound on the commands run.                             *)
  Clash          (* build_plan's error.                                    *)

FieldSpec == [path : Seq(STRING), value : STRING, needs_key : BOOLEAN]

ASSUME SetupAssumption ==
  /\ Format \in {"json", "toml"} /\ MaxApplies \in Nat
  /\ Fields \in Seq(FieldSpec)

VARIABLES
  disk,       (* The tool's file.                                          *)
  backup,     (* <path>.bak                                                *)
  command,    (* The `setup apply` that runs, if any.                      *)
  applies,    (* Commands run so far.                                      *)
  original,   (* History: the file the tool last wrote itself.             *)
  crashed     (* History: a command has ended between two steps.           *)

setup == <<disk, backup, command, applies, original, crashed>>

File(doc, rendered) == [is |-> "whole", doc |-> doc, rendered |-> rendered]
NoFile == [is |-> "absent"]
Torn == [is |-> "torn"]
IdleCommand == [at |-> "idle", before |-> NoFile, after |-> NoFile]

SetupInit ==
  /\ disk = NoFile /\ original = NoFile
  /\ backup = NoFile
  /\ command = IdleCommand
  /\ applies = 0
  /\ crashed = FALSE

-----------------------------------------------------------------------------
(* set_json_path, set_toml_path: what is at the path is replaced, tables   *)
(* on the way are made, and a value on the way is an error.                *)
SetPath(doc, path, value) ==
  IF doc = Clash \/ \E p \in DOMAIN doc : IsStrictPrefix(p, path) THEN Clash
  ELSE [p \in {p \in DOMAIN doc : ~IsPrefix(path, p)} \cup {path} |->
          IF p = path THEN value ELSE doc[p]]

(* render_value: placeholders take the address and the variable's name.    *)
RenderValue(field, base_url, api_key_env) ==
  IF field.needs_key THEN <<field.value, base_url, api_key_env>> ELSE <<field.value, base_url>>

(* The document build_plan starts from.  An empty file is not JSON, but it *)
(* is an empty TOML document.                                              *)
Root(file) ==
  IF file = NoFile THEN [p \in {} |-> 0]
  ELSE IF file # Torn THEN file.doc
  ELSE IF Format = "toml" THEN [p \in {} |-> 0] ELSE Clash

(* A field that needs --api-key-env is skipped without it.                 *)
Applicable(field, api_key_env) == field.needs_key => api_key_env

(* build_plan: the merged document, field after field, or an error.        *)
Merged(file, base_url, api_key_env) ==
  LET doc[n \in 0..Len(Fields)] ==
        IF n = 0 THEN Root(file)
        ELSE IF Applicable(Fields[n], api_key_env)
        THEN SetPath(doc[n - 1], Fields[n].path, RenderValue(Fields[n], base_url, api_key_env))
        ELSE doc[n - 1]
  IN doc[Len(Fields)]

(* cmd_setup_apply with --yes.  (list and show, and an apply without --yes, *)
(* change nothing.)  A plan that changes nothing writes nothing.           *)
StartApply(base_url, api_key_env) ==
  /\ command.at = "idle" /\ applies < MaxApplies
  /\ applies' = applies + 1
  /\ LET doc == Merged(disk, base_url, api_key_env) IN
     command' = IF doc = Clash \/ disk = File(doc, TRUE) THEN IdleCommand
                ELSE [at |-> "backup", before |-> disk, after |-> File(doc, TRUE)]
  /\ UNCHANGED <<disk, backup, original, crashed>>

(* apply_plan copies a file that was there when it was planned.            *)
CopiedNever == backup   \* slip: nothing is backed up
Copied == IF command.before = NoFile THEN backup ELSE disk

CopyBackup ==
  /\ command.at = "backup"
  /\ backup' = Copied
  /\ command' = [command EXCEPT !.at = "write"]
  /\ UNCHANGED <<disk, applies, original, crashed>>

(* fs::write empties the file first ...                                    *)
Truncate ==
  /\ command.at = "write"
  /\ disk' = Torn
  /\ command' = [command EXCEPT !.at = "fill"]
  /\ UNCHANGED <<backup, applies, original, crashed>>

(* ... and then fills it.                                                  *)
Fill ==
  /\ command.at = "fill"
  /\ disk' = command.after
  /\ command' = IdleCommand
  /\ UNCHANGED <<backup, applies, original, crashed>>

(* The process is killed, or a call of it fails, between two steps.        *)
EndEarly ==
  /\ command.at # "idle"
  /\ command' = IdleCommand
  /\ crashed' = TRUE
  /\ UNCHANGED <<disk, backup, applies, original>>

(* The tool saves its own settings.  (Not while a command runs: its two    *)
(* reads and its write are not protected against that.)                    *)
ToolSaves(doc) ==
  /\ command.at = "idle" /\ applies < MaxApplies
  /\ disk' = File(doc, FALSE) /\ original' = disk'
  /\ UNCHANGED <<backup, command, applies, crashed>>

SetupStep ==
  \/ \E base_url \in BaseUrls, api_key_env \in BOOLEAN : StartApply(base_url, api_key_env)
  \/ CopyBackup \/ Truncate \/ Fill \/ EndEarly
  \/ \E doc \in Documents : ToolSaves(doc)

-----------------------------------------------------------------------------
(* Settings a merge has no business with.                                  *)
Unrelated(doc) == {p \in DOMAIN doc : \A i \in DOMAIN Fields : ~IsPrefix(Fields[i].path, p)}
Keeps(file, doc) ==
  /\ file.is = "whole"
  /\ \A p \in Unrelated(doc) : p \in DOMAIN file.doc /\ file.doc[p] = doc[p]

(* Property: what the tool had in its file can always be recovered, from    *)
(* the file itself or from its backup, wherever a command ended and        *)
(* however often it is run again ("unrelated keys survive", ADR-0004).     *)
(* For a TOML file this ends with a crash: see the README.                 *)
Recoverable ==
  original # NoFile /\ (Format = "json" \/ ~crashed) =>
    Keeps(disk, original.doc) \/ Keeps(backup, original.doc)
=============================================================================
