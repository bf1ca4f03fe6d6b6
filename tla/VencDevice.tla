----------------------------- MODULE VencDevice -----------------------------
(***************************************************************************)
(* vencoder/venc_device.c: the list of encoder devices.  When the library  *)
(* is loaded, its constructor looks for plugins beside the library and     *)
(* calls the entry point of each; a plugin registers the codecs it         *)
(* encodes, the first one to come wins, and VideoEncCreate looks devices   *)
(* up by codec.  The plugins are binaries: what they register is external. *)
(***************************************************************************)
EXTENDS Naturals, Sequences

CONSTANTS CodecTypes,   \* VENC_CODEC_TYPE
          Devices,      \* the VENC_DEVICE structures of all plugins
          NULL,
          MaxEntries    \* bound: directory entries that name a plugin

ASSUME DeviceAssumption == NULL \notin Devices /\ MaxEntries \in Nat

\* struct VEncoderNodeS without the links; desc is only a text.
VEncoderNode == [type : CodecTypes, device : Devices]

VARIABLES
  dev_lst,   \* the registered nodes, in list order
  loading,   \* the constructor: "maps", "scan", "plugin" or "done"
  entries,   \* directory entries AddVEncPlugin still has to visit
  accepted   \* history: the registrations that were answered with 0

registry == <<dev_lst, loading, entries, accepted>>

RegistryInit ==
  /\ dev_lst = <<>>
  /\ loading = "maps"
  /\ entries = 0
  /\ accepted = {}

-----------------------------------------------------------------------------

\* VencoderDeviceCreate, under dev_mx: the device of the first node of the type.
Matches(type) == {i \in DOMAIN dev_lst : dev_lst[i].type = type}
VencoderDeviceCreate(type) ==
  IF Matches(type) = {} THEN NULL
  ELSE dev_lst[CHOOSE i \in Matches(type) : \A j \in Matches(type) : i <= j].device

\* Mutant: the registration is taken whatever there is.
NoConflict(type) == FALSE

Conflict(type) == \E i \in DOMAIN dev_lst : dev_lst[i].type = type

\* VEncoderRegister, under dev_mx.  It is refused for a NULL device, for a codec
\* that has a device, for a desc of more than 63 characters, and when there is no
\* memory for the node; refused, it changes nothing.
VEncoderRegister(type, device) ==
  /\ device # NULL
  /\ ~ Conflict(type)
  /\ dev_lst' = Append(dev_lst, [type |-> type, device |-> device])
  /\ accepted' = accepted \cup {<<type, device>>}

-----------------------------------------------------------------------------
(* AddVEncPlugin, the constructor.                                         *)

\* GetLocalPathFromProcessMaps finds the directory of the library and scandir
\* lists it, or nothing is loaded.
ScanLocalPath ==
  /\ loading = "maps"
  /\ \/ loading' = "scan" /\ entries' \in 0 .. MaxEntries
     \/ loading' = "done" /\ UNCHANGED entries
  /\ UNCHANGED <<dev_lst, accepted>>

\* AddVEncPluginSingle: dlopen and dlsym may fail, and the entry is passed over.
AddVEncPluginSingle ==
  /\ loading = "scan" /\ entries > 0
  /\ entries' = entries - 1
  /\ loading' \in {"plugin", "scan"}
  /\ UNCHANGED <<dev_lst, accepted>>

\* CedarPluginVEncInit registers what it likes, and returns.
PluginInit ==
  /\ loading = "plugin"
  /\ \/ /\ \E type \in CodecTypes, device \in Devices : VEncoderRegister(type, device)
        /\ UNCHANGED <<loading, entries>>
     \/ /\ loading' = "scan"
        /\ UNCHANGED <<dev_lst, entries, accepted>>

AllVisited ==
  /\ loading = "scan" /\ entries = 0
  /\ loading' = "done"
  /\ UNCHANGED <<dev_lst, entries, accepted>>

RegistryNext == ScanLocalPath \/ AddVEncPluginSingle \/ PluginInit \/ AllVisited

RegistrySpec == RegistryInit /\ [][RegistryNext]_registry

-----------------------------------------------------------------------------

\* A plugin that was told its registration succeeded is the one that
\* VideoEncCreate finds for the codec, then and for ever: no later plugin, in
\* whatever order the directory lists them, takes the codec over.
RegisteredFound ==
  \A type \in CodecTypes, device \in Devices :
    <<type, device>> \in accepted => VencoderDeviceCreate(type) = device
=============================================================================
