------------------------------ MODULE FONcModule ------------------------------
(***************************************************************************)
(* FONcModule and FONcRequestHandler: how the BES loads and unloads the    *)
(* module, the keys it reads, and the help and version responses.          *)
(*                                                                         *)
(* The lists of the framework (BESRequestHandlerList, BESReturnManager,    *)
(* BESServiceRegistry) hold the module's objects by name.  A process may   *)
(* load the module again after it was unloaded: the constructor of the     *)
(* request handler tests whether it finds a directory known.               *)
(***************************************************************************)
EXTENDS Integers, FiniteSets

CONSTANTS
  KeyFiles,                        \* what the configuration may say
  FONC_CHUNK_SIZE, FONC_TEMP_DIR   \* the defaults of two keys

VARIABLES
  module,        \* "out", "in", "failed" while it was loaded
  keys,          \* the values of the keys
  conf,          \* the static members of FONcRequestHandler
  handler,       \* whether BESRequestHandlerList has the request handler
  transmitters,  \* what BESReturnManager has a transmitter for
  formats,       \* the formats of the data service in BESServiceRegistry
  info           \* what an informational response has been told

module_vars == <<module, keys, conf, handler, transmitters, formats, info>>

Versions == {"netcdf", "netcdf-4"}

---------------------------------------------------------------------------
(* The keys.  A key is absent, true or yes in any case of letters, or      *)
(* something else.                                                         *)
read_bool(value, default) ==
  IF value = "absent" THEN default ELSE value \in {"true", "yes"}

(* One slash at the end is dropped.  A key without a value has no last     *)
(* letter: what precedes the text in memory is read, and if that happens   *)
(* to be a slash, erase() throws.                                          *)
read_string(value, default) ==
  CASE value.form = "absent" -> {default}
    [] value.form = "slash" -> {value.dir}
    [] value.form = "empty" -> {"", "throws"}
    [] OTHER -> {value.dir}

(* A number is dropped if the stream ends with it: one with something      *)
(* after it is taken.                                                      *)
read_int(value, default) ==
  IF value.form = "trailed" THEN value.num ELSE default

NoConf == [temp_dir |-> "", byte_to_short |-> FALSE, use_compression |-> FALSE,
           chunk_size |-> 0, classic_model |-> FALSE]

(* The constructor of the request handler.  The directory is read if it is *)
(* not known; nothing reads byte_to_short.                                 *)
Configured(temp_dir) ==
  [temp_dir |-> temp_dir,
   byte_to_short |-> read_bool(keys.ByteToShort, TRUE),
   use_compression |-> read_bool(keys.UseCompression, TRUE),
   chunk_size |-> read_int(keys.ChunkSize, FONC_CHUNK_SIZE),
   classic_model |-> read_bool(keys.ClassicModel, TRUE)]

TempDirs ==
  IF conf.temp_dir = "" THEN read_string(keys.Tempdir, FONC_TEMP_DIR) ELSE {conf.temp_dir}

---------------------------------------------------------------------------
(* Loading.                                                                *)

(* maker and initialize: a handler that serves help and version, then a    *)
(* transmitter and a format for each of the two ways to return data.       *)
Initialize ==
  /\ module = "out"
  /\ \E dir \in TempDirs \ {"throws"} : conf' = Configured(dir)
  /\ handler' = TRUE
  /\ transmitters' = Versions
  /\ formats' = formats \cup Versions
  /\ module' = "in"
  /\ UNCHANGED <<keys, info>>

(* The constructor throws: nothing is registered.                          *)
InitializeFails ==
  /\ module = "out" /\ "throws" \in TempDirs
  /\ module' = "failed"
  /\ UNCHANGED <<keys, conf, handler, transmitters, formats, info>>

(* del_transmitter deletes the transmitters, terminate() the handler.  The *)
(* formats stay.  The static members stay if the code stays mapped, and    *)
(* start anew if it does not; the next loading may find other keys.        *)
Terminate ==
  /\ module = "in"
  /\ transmitters' = transmitters \ Versions
  /\ handler' = FALSE
  /\ conf' \in {conf, NoConf}
  /\ keys' \in KeyFiles
  /\ module' = "out"
  /\ UNCHANGED <<formats, info>>

---------------------------------------------------------------------------
(* The answers of the request handler.  A response of another class than   *)
(* the one expected is an error.                                           *)
Answer(told) ==
  /\ module = "in" /\ handler
  /\ info' = told
  /\ UNCHANGED <<module, keys, conf, handler, transmitters, formats>>

build_help(response) ==
  Answer(IF response # "BESInfo" THEN "cast error"
         ELSE IF keys.Reference = "" THEN "docs.opendap.org" ELSE keys.Reference)

build_version(response) ==
  Answer(IF response # "BESVersionInfo" THEN "cast error" ELSE "version")

ModuleInit ==
  /\ module = "out"
  /\ keys \in KeyFiles
  /\ conf = NoConf
  /\ handler = FALSE /\ transmitters = {}
  /\ formats = {} /\ info = "nothing"

---------------------------------------------------------------------------
Confs ==
  [temp_dir : {"", FONC_TEMP_DIR} \cup {k.Tempdir.dir : k \in KeyFiles},
   byte_to_short : BOOLEAN, use_compression : BOOLEAN,
   chunk_size : {0, FONC_CHUNK_SIZE} \cup {k.ChunkSize.num : k \in KeyFiles},
   classic_model : BOOLEAN]
Infos ==
  {"nothing", "cast error", "docs.opendap.org", "version"} \cup {k.Reference : k \in KeyFiles}
ModuleTypeOK ==
  /\ module \in {"out", "in", "failed"}
  /\ keys \in KeyFiles
  /\ conf \in Confs
  /\ handler \in BOOLEAN /\ transmitters \subseteq Versions
  /\ formats \subseteq Versions /\ info \in Infos
=============================================================================
