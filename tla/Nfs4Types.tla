------------------------------ MODULE Nfs4Types ------------------------------
(***************************************************************************)
(* The XDR routines of the NFS version 4 target                            *)
(* (src/target/nfs4/prot_xdr.c) as tables: the entry t says what xdr_t     *)
(* does.  A routine calls others in order and fails with the first that    *)
(* fails; or reads a discriminant and calls the routine of its arm; or is  *)
(* one call of a library routine.  A field that calls a library routine    *)
(* itself has an entry under the field's name.                             *)
(*                                                                         *)
(* Sizes are in units of four bytes, the lengths of byte strings in bytes. *)
(***************************************************************************)
EXTENDS Integers, Sequences

CONSTANTS
  NFS4_FHSIZE,        \* largest file handle (128)
  NFS4_OPAQUE_LIMIT,  \* largest owner or client id (1024)
  NOLIMIT             \* ~0

ASSUME LimitAssumption ==
  /\ NFS4_FHSIZE \in Nat /\ NFS4_OPAQUE_LIMIT \in Nat
  /\ NOLIMIT \in Nat /\ NFS4_FHSIZE < NOLIMIT /\ NFS4_OPAQUE_LIMIT < NOLIMIT

\* An entry, and the table that has the entries of several.
Entry(k, v) == [x \in {k} |-> v]
Join(ts) ==
  [x \in UNION {DOMAIN ts[i] : i \in DOMAIN ts} |->
     LET i == CHOOSE i \in DOMAIN ts : x \in DOMAIN ts[i] IN ts[i][x]]

Calls(ts)          == [kind |-> "calls", of |-> ts]
Units(n)           == [kind |-> "units", n |-> n]
Switch(arms, dflt) == [kind |-> "switch", arms |-> arms, dflt |-> dflt, disc |-> "enum"]
Bytes(max)         == [kind |-> "bytes", max |-> max]
Text(max)          == [kind |-> "string", max |-> max]
Array(t)           == [kind |-> "array", of |-> t]
Pointer(t)         == [kind |-> "pointer", of |-> t]

\* The default of a switch: return TRUE without an arm, or return FALSE.
Break  == TRUE
Refuse == FALSE

All(names, r) == [t \in names |-> r]

Word   == Calls(<<"uint32_t">>)
Double == Calls(<<"uint64_t">>)
Enum   == Calls(<<"enum">>)
Flag   == Calls(<<"bool">>)

\* The library's routines of a fixed size.
Library ==
  Join(<<All({"uint32_t", "u_int", "enum", "bool"}, Units(1)),
  All({"uint64_t", "int64_t"}, Units(2)), [void |-> Units(0)]>>)

NFS4_OK == 0
NFS4ERR_DENIED == 10010
NFS4ERR_CLID_INUSE == 10017
RPCSEC_GSS == 6

\* The result of an operation: its arm follows the status NFS4_OK only.
OkOnly(t) == Switch(Entry(NFS4_OK, t), Break)

Status == Calls(<<"nfsstat4">>)

-----------------------------------------------------------------------------

Numbers ==
  Join(<<All({"nfs_ftype4", "nfsstat4"}, Enum),
  All({"changeid4", "clientid4", "length4", "nfs_cookie4"}, Double),
  All({"count4", "mode4"}, Word),
  [attrlist4 |-> Bytes(NOLIMIT), bitmap4 |-> Array("uint32_t")]>>)

\* Mutant: a file handle may be one byte longer.
FileHandle_OffByOne == [nfs_fh4 |-> Bytes(NFS4_FHSIZE + 1)]

FileHandle == [nfs_fh4 |-> Bytes(NFS4_FHSIZE)]

Names ==
  Join(<<All({"nfs_lease4", "qop4", "seqid4"}, Word), [offset4 |-> Double],
  All({"sec_oid4", "utf8string", "linktext4"}, Bytes(NOLIMIT)),
  All({"utf8str_cis", "utf8str_cs", "utf8str_mixed", "ascii_REQUIRED4"},
      Calls(<<"utf8string">>)),
  [component4 |-> Calls(<<"utf8str_cs">>), pathname4 |-> Array("component4")]>>)

Structures ==
  [nfs_lockid4 |-> Double, verifier4 |-> Units(2),
   nfstime4 |-> Calls(<<"int64_t", "uint32_t">>), time_how4 |-> Enum,
   settime4 |-> Switch(Entry(1, "nfstime4"), Break),
   fsid4 |-> Calls(<<"uint64_t", "uint64_t">>),
   server |-> Array("utf8str_cis"), fs_location4 |-> Calls(<<"server", "pathname4">>),
   locations |-> Array("fs_location4"),
   fs_locations4 |-> Calls(<<"pathname4", "locations">>),
   acetype4 |-> Word, aceflag4 |-> Word, acemask4 |-> Word,
   nfsace4 |-> Calls(<<"acetype4", "aceflag4", "acemask4", "utf8str_mixed">>),
   specdata4 |-> Calls(<<"uint32_t", "uint32_t">>)]

-----------------------------------------------------------------------------
(* The values of attributes, which the program packs into attrlist4.       *)

RequiredAttrs ==
  Join(<<All({"fattr4_link_support", "fattr4_symlink_support", "fattr4_named_attr",
       "fattr4_unique_handles"}, Flag),
  [fattr4_supported_attrs |-> Calls(<<"bitmap4">>), fattr4_type |-> Calls(<<"nfs_ftype4">>),
   fattr4_fh_expire_type |-> Word, fattr4_change |-> Calls(<<"changeid4">>),
   fattr4_size |-> Double, fattr4_fsid |-> Calls(<<"fsid4">>),
   fattr4_lease_time |-> Calls(<<"nfs_lease4">>), fattr4_rdattr_error |-> Status,
   fattr4_acl |-> Array("nfsace4"), fattr4_aclsupport |-> Word]>>)

FilesystemAttrs ==
  Join(<<All({"fattr4_archive", "fattr4_cansettime", "fattr4_case_insensitive",
       "fattr4_case_preserving", "fattr4_chown_restricted", "fattr4_hidden",
       "fattr4_homogeneous"}, Flag),
  All({"fattr4_fileid", "fattr4_files_avail", "fattr4_files_free", "fattr4_files_total",
       "fattr4_maxfilesize"}, Double),
  [fattr4_filehandle |-> Calls(<<"nfs_fh4">>),
   fattr4_fs_locations |-> Calls(<<"fs_locations4">>)]>>)

FileAttrs ==
  Join(<<All({"fattr4_maxlink", "fattr4_maxname", "fattr4_numlinks"}, Word),
  All({"fattr4_maxread", "fattr4_maxwrite", "fattr4_mounted_on_fileid",
       "fattr4_quota_avail_hard", "fattr4_quota_avail_soft", "fattr4_quota_used"}, Double),
  All({"fattr4_owner", "fattr4_owner_group"}, Calls(<<"utf8str_mixed">>)),
  [fattr4_mimetype |-> Calls(<<"ascii_REQUIRED4">>), fattr4_mode |-> Calls(<<"mode4">>),
   fattr4_no_trunc |-> Flag, fattr4_rawdev |-> Calls(<<"specdata4">>)]>>)

SpaceAndTimeAttrs ==
  Join(<<All({"fattr4_space_avail", "fattr4_space_free", "fattr4_space_total",
       "fattr4_space_used"}, Double),
  All({"fattr4_time_access", "fattr4_time_backup", "fattr4_time_create",
       "fattr4_time_delta", "fattr4_time_metadata", "fattr4_time_modify"},
      Calls(<<"nfstime4">>)),
  All({"fattr4_time_access_set", "fattr4_time_modify_set"}, Calls(<<"settime4">>)),
  [fattr4_system |-> Flag]>>)

Attributes ==
  Join(<<RequiredAttrs, FilesystemAttrs, FileAttrs, SpaceAndTimeAttrs>>)

-----------------------------------------------------------------------------
(* The arguments and the results of the operations.                        *)

Owner == Bytes(NFS4_OPAQUE_LIMIT)

State ==
  [fattr4 |-> Calls(<<"bitmap4", "attrlist4">>),
   change_info4 |-> Calls(<<"bool", "changeid4", "changeid4">>),
   r_netid |-> Text(NOLIMIT), r_addr |-> Text(NOLIMIT),
   clientaddr4 |-> Calls(<<"r_netid", "r_addr">>),
   cb_client4 |-> Calls(<<"u_int", "clientaddr4">>),
   other |-> Units(3), stateid4 |-> Calls(<<"uint32_t", "other">>),
   owner |-> Owner, id |-> Owner, nfs_client_id4 |-> Calls(<<"verifier4", "id">>),
   open_owner4 |-> Calls(<<"clientid4", "owner">>),
   lock_owner4 |-> Calls(<<"clientid4", "owner">>), nfs_lock_type4 |-> Enum]

AccessCloseCommit ==
  [ACCESS4args |-> Word, ACCESS4resok |-> Calls(<<"uint32_t", "uint32_t">>),
   ACCESS4res |-> OkOnly("ACCESS4resok"),
   CLOSE4args |-> Calls(<<"seqid4", "stateid4">>), CLOSE4res |-> OkOnly("stateid4"),
   COMMIT4args |-> Calls(<<"offset4", "count4">>), COMMIT4resok |-> Calls(<<"verifier4">>),
   COMMIT4res |-> OkOnly("COMMIT4resok")]

\* NF4LNK is 5; NF4BLK and NF4CHR are 3 and 4.
CreateDeleg ==
  [createtype4 |-> Switch(Join(<<Entry(5, "linktext4"), All({3, 4}, "specdata4")>>), Break),
   CREATE4args |-> Calls(<<"createtype4", "component4", "fattr4">>),
   CREATE4resok |-> Calls(<<"change_info4", "bitmap4">>), CREATE4res |-> OkOnly("CREATE4resok"),
   DELEGPURGE4args |-> Calls(<<"clientid4">>), DELEGPURGE4res |-> Status,
   DELEGRETURN4args |-> Calls(<<"stateid4">>), DELEGRETURN4res |-> Status]

GetAndLink ==
  [GETATTR4args |-> Calls(<<"bitmap4">>), GETATTR4resok |-> Calls(<<"fattr4">>),
   GETATTR4res |-> OkOnly("GETATTR4resok"),
   GETFH4resok |-> Calls(<<"nfs_fh4">>), GETFH4res |-> OkOnly("GETFH4resok"),
   LINK4args |-> Calls(<<"component4">>), LINK4resok |-> Calls(<<"change_info4">>),
   LINK4res |-> OkOnly("LINK4resok")]

Lockers ==
  [open_to_lock_owner4 |-> Calls(<<"seqid4", "stateid4", "seqid4", "lock_owner4">>),
   exist_lock_owner4 |-> Calls(<<"stateid4", "seqid4">>),
   locker4 |-> [Switch(Join(<<Entry(1, "open_to_lock_owner4"),
                              Entry(0, "exist_lock_owner4")>>), Refuse) EXCEPT !.disc = "bool"]]

LockAndTest ==
  [LOCK4args |-> Calls(<<"nfs_lock_type4", "bool", "offset4", "length4", "locker4">>),
   LOCK4denied |-> Calls(<<"offset4", "length4", "nfs_lock_type4", "lock_owner4">>),
   LOCK4resok |-> Calls(<<"stateid4">>),
   LOCK4res |-> Switch(Join(<<Entry(NFS4_OK, "LOCK4resok"), Entry(NFS4ERR_DENIED, "LOCK4denied")>>),
                        Break),
   LOCKT4args |-> Calls(<<"nfs_lock_type4", "offset4", "length4", "lock_owner4">>),
   LOCKT4res |-> Switch(Entry(NFS4ERR_DENIED, "LOCK4denied"), Break)]

UnlockAndLookup ==
  [LOCKU4args |-> Calls(<<"nfs_lock_type4", "seqid4", "stateid4", "offset4", "length4">>),
   LOCKU4res |-> OkOnly("stateid4"),
   LOOKUP4args |-> Calls(<<"component4">>), LOOKUP4res |-> Status, LOOKUPP4res |-> Status,
   NVERIFY4args |-> Calls(<<"fattr4">>), NVERIFY4res |-> Status]

\* createmode4: UNCHECKED4, GUARDED4, EXCLUSIVE4.
OpenHow ==
  Join(<<All({"createmode4", "opentype4", "limit_by4", "open_delegation_type4"}, Enum),
  [createhow4 |-> Switch(Join(<<All({0, 1}, "fattr4"), Entry(2, "verifier4")>>), Refuse),
   openflag4 |-> Switch(Entry(1, "createhow4"), Break),
   nfs_modified_limit4 |-> Calls(<<"uint32_t", "uint32_t">>),
   nfs_space_limit4 |->
     Switch(Join(<<Entry(1, "uint64_t"), Entry(2, "nfs_modified_limit4")>>), Refuse)]>>)

\* open_claim_type4: null, previous, delegate current, delegate previous.
OpenArguments ==
  [open_claim_type4 |-> Enum,
   open_claim_delegate_cur4 |-> Calls(<<"stateid4", "component4">>),
   open_claim4 |->
     Switch(Join(<<All({0, 3}, "component4"), Entry(1, "open_delegation_type4"),
                   Entry(2, "open_claim_delegate_cur4")>>), Refuse),
   OPEN4args |-> Calls(<<"seqid4", "uint32_t", "uint32_t", "open_owner4", "openflag4",
                         "open_claim4">>)]

OpenResults ==
  [open_read_delegation4 |-> Calls(<<"stateid4", "bool", "nfsace4">>),
   open_write_delegation4 |-> Calls(<<"stateid4", "bool", "nfs_space_limit4", "nfsace4">>),
   open_delegation4 |-> Switch(Join(<<Entry(0, "void"), Entry(1, "open_read_delegation4"),
                                      Entry(2, "open_write_delegation4")>>), Refuse),
   OPEN4resok |-> Calls(<<"stateid4", "change_info4", "uint32_t", "bitmap4",
                          "open_delegation4">>),
   OPEN4res |-> OkOnly("OPEN4resok")]

OpenOthers ==
  [OPENATTR4args |-> Flag, OPENATTR4res |-> Status,
   OPEN_CONFIRM4args |-> Calls(<<"stateid4", "seqid4">>),
   OPEN_CONFIRM4resok |-> Calls(<<"stateid4">>),
   OPEN_CONFIRM4res |-> OkOnly("OPEN_CONFIRM4resok"),
   OPEN_DOWNGRADE4args |-> Calls(<<"stateid4", "seqid4", "uint32_t", "uint32_t">>),
   OPEN_DOWNGRADE4resok |-> Calls(<<"stateid4">>),
   OPEN_DOWNGRADE4res |-> OkOnly("OPEN_DOWNGRADE4resok")]

PutAndRead ==
  [PUTFH4args |-> Calls(<<"nfs_fh4">>), PUTFH4res |-> Status, PUTPUBFH4res |-> Status,
   PUTROOTFH4res |-> Status, data |-> Bytes(NOLIMIT),
   READ4args |-> Calls(<<"stateid4", "offset4", "count4">>),
   READ4resok |-> Calls(<<"bool", "data">>), READ4res |-> OkOnly("READ4resok")]

\* The entries of a directory are a list linked by nextentry.
ReadDirectory ==
  [READDIR4args |-> Calls(<<"nfs_cookie4", "verifier4", "count4", "count4", "bitmap4">>),
   nextentry |-> Pointer("entry4"),
   entry4 |-> Calls(<<"nfs_cookie4", "component4", "fattr4", "nextentry">>),
   entries |-> Pointer("entry4"), dirlist4 |-> Calls(<<"entries", "bool">>),
   READDIR4resok |-> Calls(<<"verifier4", "dirlist4">>),
   READDIR4res |-> OkOnly("READDIR4resok")]

ReadlinkToRename ==
  [READLINK4resok |-> Calls(<<"linktext4">>), READLINK4res |-> OkOnly("READLINK4resok"),
   REMOVE4args |-> Calls(<<"component4">>), REMOVE4resok |-> Calls(<<"change_info4">>),
   REMOVE4res |-> OkOnly("REMOVE4resok"),
   RENAME4args |-> Calls(<<"component4", "component4">>),
   RENAME4resok |-> Calls(<<"change_info4", "change_info4">>),
   RENAME4res |-> OkOnly("RENAME4resok")]

RenewToSecinfo ==
  [RENEW4args |-> Calls(<<"clientid4">>), RENEW4res |-> Status, RESTOREFH4res |-> Status,
   SAVEFH4res |-> Status, SECINFO4args |-> Calls(<<"component4">>), rpc_gss_svc_t |-> Enum,
   rpcsec_gss_info |-> Calls(<<"sec_oid4", "qop4", "rpc_gss_svc_t">>),
   secinfo4 |-> Switch(Entry(RPCSEC_GSS, "rpcsec_gss_info"), Break),
   SECINFO4resok |-> Array("secinfo4"), SECINFO4res |-> OkOnly("SECINFO4resok")]

\* SETATTR4res always has the attributes that were set.
SetOperations ==
  [SETATTR4args |-> Calls(<<"stateid4", "fattr4">>),
   SETATTR4res |-> Calls(<<"nfsstat4", "bitmap4">>),
   SETCLIENTID4args |-> Calls(<<"nfs_client_id4", "cb_client4", "uint32_t">>),
   SETCLIENTID4resok |-> Calls(<<"clientid4", "verifier4">>),
   SETCLIENTID4res |-> Switch(Join(<<Entry(NFS4_OK, "SETCLIENTID4resok"),
                                     Entry(NFS4ERR_CLID_INUSE, "clientaddr4")>>), Break),
   SETCLIENTID_CONFIRM4args |-> Calls(<<"clientid4", "verifier4">>),
   SETCLIENTID_CONFIRM4res |-> Status]

VerifyAndWrite ==
  [VERIFY4args |-> Calls(<<"fattr4">>), VERIFY4res |-> Status, stable_how4 |-> Enum,
   WRITE4args |-> Calls(<<"stateid4", "offset4", "stable_how4", "data">>),
   WRITE4resok |-> Calls(<<"count4", "stable_how4", "verifier4">>),
   WRITE4res |-> OkOnly("WRITE4resok"),
   RELEASE_LOCKOWNER4args |-> Calls(<<"lock_owner4">>), RELEASE_LOCKOWNER4res |-> Status,
   ILLEGAL4res |-> Status]

-----------------------------------------------------------------------------
(* The operations by number: OP_ACCESS is 3, OP_RELEASE_LOCKOWNER is 39.   *)

OP_LOCK        == 12
OP_LOCKT       == 13
OP_PUTFH       == 22
OP_SETATTR     == 34
OP_SETCLIENTID == 35
OP_ILLEGAL     == 10044

OP_CB_GETATTR == 3
OP_CB_RECALL  == 4

Numbered(first, names) == [k \in first .. first + Len(names) - 1 |-> names[k - first + 1]]

nfs_argop4 ==
  Switch(Join(<<Numbered(3, <<"ACCESS4args", "CLOSE4args", "COMMIT4args", "CREATE4args",
    "DELEGPURGE4args", "DELEGRETURN4args", "GETATTR4args", "void", "LINK4args", "LOCK4args",
    "LOCKT4args", "LOCKU4args", "LOOKUP4args", "void", "NVERIFY4args", "OPEN4args",
    "OPENATTR4args", "OPEN_CONFIRM4args", "OPEN_DOWNGRADE4args", "PUTFH4args", "void",
    "void", "READ4args", "READDIR4args", "void", "REMOVE4args", "RENAME4args",
    "RENEW4args", "void", "void", "SECINFO4args", "SETATTR4args", "SETCLIENTID4args",
    "SETCLIENTID_CONFIRM4args", "VERIFY4args", "WRITE4args", "RELEASE_LOCKOWNER4args">>),
    Entry(OP_ILLEGAL, "void")>>), Refuse)

nfs_resop4 ==
  Switch(Join(<<Numbered(3, <<"ACCESS4res", "CLOSE4res", "COMMIT4res", "CREATE4res",
    "DELEGPURGE4res", "DELEGRETURN4res", "GETATTR4res", "GETFH4res", "LINK4res", "LOCK4res",
    "LOCKT4res", "LOCKU4res", "LOOKUP4res", "LOOKUPP4res", "NVERIFY4res", "OPEN4res",
    "OPENATTR4res", "OPEN_CONFIRM4res", "OPEN_DOWNGRADE4res", "PUTFH4res", "PUTPUBFH4res",
    "PUTROOTFH4res", "READ4res", "READDIR4res", "READLINK4res", "REMOVE4res", "RENAME4res",
    "RENEW4res", "RESTOREFH4res", "SAVEFH4res", "SECINFO4res", "SETATTR4res",
    "SETCLIENTID4res", "SETCLIENTID_CONFIRM4res", "VERIFY4res", "WRITE4res",
    "RELEASE_LOCKOWNER4res">>), Entry(OP_ILLEGAL, "ILLEGAL4res")>>), Refuse)

Compound ==
  [nfs_opnum4 |-> Enum, argarray |-> Array("nfs_argop4"), resarray |-> Array("nfs_resop4"),
   COMPOUND4args |-> Calls(<<"utf8str_cs", "uint32_t", "argarray">>),
   COMPOUND4res |-> Calls(<<"nfsstat4", "utf8str_cs", "resarray">>)]

CallbackOperations ==
  [CB_GETATTR4args |-> Calls(<<"nfs_fh4", "bitmap4">>),
   CB_GETATTR4resok |-> Calls(<<"fattr4">>), CB_GETATTR4res |-> OkOnly("CB_GETATTR4resok"),
   CB_RECALL4args |-> Calls(<<"stateid4", "bool", "nfs_fh4">>), CB_RECALL4res |-> Status,
   CB_ILLEGAL4res |-> Status, nfs_cb_opnum4 |-> Enum]

Callback ==
  [nfs_cb_argop4 |-> Switch(Join(<<Entry(OP_CB_GETATTR, "CB_GETATTR4args"),
                                   Entry(OP_CB_RECALL, "CB_RECALL4args"),
                                   Entry(OP_ILLEGAL, "void")>>), Refuse),
   nfs_cb_resop4 |-> Switch(Join(<<Entry(OP_CB_GETATTR, "CB_GETATTR4res"),
                                   Entry(OP_CB_RECALL, "CB_RECALL4res"),
                                   Entry(OP_ILLEGAL, "CB_ILLEGAL4res")>>), Refuse),
   cb_argarray |-> Array("nfs_cb_argop4"), cb_resarray |-> Array("nfs_cb_resop4"),
   CB_COMPOUND4args |-> Calls(<<"utf8str_cs", "uint32_t", "uint32_t", "cb_argarray">>),
   CB_COMPOUND4res |-> Calls(<<"nfsstat4", "utf8str_cs", "cb_resarray">>)]

Routine ==
  Join(<<Library, Numbers, FileHandle, Names, Structures, Attributes, State,
  AccessCloseCommit, CreateDeleg, GetAndLink, Lockers, LockAndTest,
  UnlockAndLookup, OpenHow, OpenArguments, OpenResults, OpenOthers, PutAndRead,
  ReadDirectory, ReadlinkToRename, RenewToSecinfo, SetOperations, VerifyAndWrite,
  [nfs_argop4 |-> nfs_argop4, nfs_resop4 |-> nfs_resop4], Compound,
  CallbackOperations, Callback>>)
=============================================================================
