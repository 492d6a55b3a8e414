----------------------------- MODULE NvFirmware -----------------------------
(***************************************************************************)
(* Which firmware file the RM gets (nv_firmware_path, nv_get_firmware and  *)
(* nv_put_firmware in os-haiku.cpp): a file for the type of firmware and   *)
(* the family of the chip, searched for in four data directories.          *)
(*                                                                         *)
(* A directory is a record: does find_directory() tell it, how long is its *)
(* path, and which files it has, with the length of each and of what can   *)
(* be read of it.  The length of a path includes the part in common.       *)
(***************************************************************************)
EXTENDS Integers, Sequences

CONSTANT PathLength \* B_PATH_NAME_LENGTH

ASSUME PathLengthAssumption == PathLength \in Nat

Types == {"gsp", "gsp_log"}
Ampere == {"GH100", "AD10X", "GA10X"}
Turing == {"GA100", "TU11X", "TU10X"}
Families == Ampere \cup Turing \cup {"END", "NULL"}

\* The empty suffix names the directory itself.
nv_firmware_path(type, family) ==
  IF type \notin Types THEN <<>>
  ELSE IF family \in Ampere THEN <<type, "ga10x">>
  ELSE IF family \in Turing THEN <<type, "tu10x">>
  ELSE <<>>

\* Directories in which open() succeeds: a path that leaves no room for the
\* terminating zero is passed over.
Opens(dirs, suffix) ==
  {i \in DOMAIN dirs : LET d == dirs[i] IN
     /\ d.found
     /\ d.length + Len(suffix) <= PathLength - 1
     /\ suffix = <<>> \/ suffix \in DOMAIN d.files}

\* Mutant: the search goes on after a file was found.
FirstLast(S) == CHOOSE i \in S : \A j \in S : j <= i

First(S) == CHOOSE i \in S : \A j \in S : i <= j

Nothing == [from |-> 0, name |-> <<>>, bytes |-> 0]

\* The buffer for what has no size, a directory, is not allocated, and written
\* to all the same.
Stops == [from |-> 0, name |-> <<>>, bytes |-> -1]

\* The buffer that is handed out; a file that cannot be read to its end is not.
nv_get_firmware(dirs, type, family) ==
  LET suffix == nv_firmware_path(type, family)
      i == First(Opens(dirs, suffix))
      file == dirs[i].files[suffix]
  IN IF Opens(dirs, suffix) = {} THEN Nothing
     ELSE IF suffix = <<>> THEN Stops
     ELSE IF file.read < file.size THEN Nothing
     ELSE [from |-> i, name |-> suffix, bytes |-> file.size]

=============================================================================
