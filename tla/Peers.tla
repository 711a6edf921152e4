------------------------------- MODULE Peers -------------------------------
(***************************************************************************)
(* What the kernel says of users and of messages between processes:        *)
(* User.cc (a user's key and how a password is held against it),           *)
(* NetworkKit's IPC messages and FSKit's index of a file.  None of it is   *)
(* called by the rest of the kernel yet; each call is an operator from a   *)
(* record to an answer and the record it leaves.                           *)
(***************************************************************************)
EXTENDS Integers, Sequences, Bitwise

-----------------------------------------------------------------------------
(* Users.  A user's key is the text in mUserKey, empty at first.           *)

kRingStdUser == 1
kRingSuperUser == 2

UserOf(ring) == [ring |-> ring, key |-> <<>>]

IsStdUser(user) == user.ring = kRingStdUser
IsSuperUser(user) == user.ring = kRingSuperUser

\* Every character is marked with the kind of user; 0 is success.
cred_construct_token(pw, user) ==
  [code |-> 0,
   token |-> [i \in 1..Len(pw) |-> pw[i] | (IF IsStdUser(user) THEN 206 ELSE 236)]]

\* Both callers take the code 0 for a failure.
Save(user, pw) ==
  LET made == cred_construct_token(pw, user) IN
  IF pw = <<>> \/ made.code = 0
  THEN [answer |-> FALSE, user |-> user]
  ELSE [answer |-> TRUE, user |-> [user EXCEPT !.key = made.token]]

\* Only an empty password gets past the first check; the comparison goes over
\* the length of the stored key.
Matches(user, pw) ==
  LET made == cred_construct_token(pw, user) IN
  /\ pw = <<>>
  /\ made.code # 0
  /\ \A i \in 1..Len(user.key) : i =< Len(made.token) /\ made.token[i] = user.key[i]

UserEquals(a, b) == a.ring = b.ring
UserDiffers(a, b) == a.ring # b.ring

-----------------------------------------------------------------------------
(* Messages.  Sizes are counted in units small enough to enumerate:        *)
(* kIPCMsgSize bytes of data, and SizeOfMsg for the whole structure.       *)

CONSTANTS kIPCMsgSize,  \* bytes of IpcData, and the greatest packet size
          SizeOfMsg,    \* sizeof(IPC_MSG): the data and its header
          Address,      \* addresses: a process and its team
          NoAddress     \* process 0 of team 0

ASSUME PeersAssumption == /\ kIPCMsgSize \in Nat /\ SizeOfMsg \in Nat
                          /\ SizeOfMsg > kIPCMsgSize /\ NoAddress \in Address

kIPCLittleEndian == 0
kIPCBigEndian == 1
kIPCMixedEndian == 2
kIPCHeaderMagic == 77088820

\* Both sides of the comparison are the packet's first byte.
RTL_ENDIAN(p, value) == IF p.first = value THEN kIPCBigEndian ELSE kIPCLittleEndian

ipc_int_sanitize_packet(p) ==
  LET endian == RTL_ENDIAN(p, p.first) IN
  /\ ~(endian = kIPCBigEndian /\ p.endian = kIPCLittleEndian)
  /\ ~(endian = kIPCLittleEndian /\ p.endian = kIPCBigEndian)
  /\ p.from # p.to
  /\ ~(p.size > kIPCMsgSize)
  /\ p.size > 1 /\ p.magic = kIPCHeaderMagic

\* (A null pointer is refused too; a refusal sets the error to kErrorIPC.)
ipc_sanitize_packet(p) == ipc_int_sanitize_packet(p)

\* The message is made if there is none; its data and its sizes stay as they are.
ipc_construct_packet(p) ==
  [p EXCEPT !.magic = kIPCHeaderMagic, !.endian = RTL_ENDIAN(p, p.first),
            !.size = SizeOfMsg, !.to = NoAddress, !.from = NoAddress]

\* rt_copy_memory ends the copy with a terminator, which for a full message is
\* the byte after the structure: data has kIPCMsgSize + 1 entries here.
Pass(this, target) ==
  IF target.from = this.to /\ ~(this.msgsz > target.msgsz)
  THEN [answer |-> TRUE,
        target |-> [target EXCEPT !.data =
          [i \in DOMAIN @ |-> IF i =< this.msgsz THEN this.data[i]
                              ELSE IF i = this.msgsz + 1 THEN 0 ELSE @[i]]]]
  ELSE [answer |-> FALSE, target |-> target]

-----------------------------------------------------------------------------
(* The index of a file: flags and a path.                                  *)

kIndexerClaimed == 207

AddFlag(flags, flag) == flags | flag
RemoveFlag(flags, flag) == flags & flag
HasFlag(flags, flag) == flags & flag

\* The arguments of the copy are swapped: the caller's file name is overwritten
\* with the index's path, and the index keeps the path it had.
fs_index_file(filename, index) ==
  IF HasFlag(index.flags, kIndexerClaimed) # 0
  THEN [filename |-> filename, index |-> index]
  ELSE [filename |-> index.path,
        index |-> [index EXCEPT !.flags = AddFlag(@, kIndexerClaimed)]]

-----------------------------------------------------------------------------

\* A password is only ever answered Yes after it was saved as such and the save
\* said Yes: in particular nothing matches the empty key of a new user, for
\* which the comparison goes over no character at all. (User.cc:81, :117)
OnlySavedMatches(Passwords) ==
  \A ring \in {kRingStdUser, kRingSuperUser} : \A p, q \in Passwords :
    LET saved == Save(UserOf(ring), p)
    IN  /\ ~Matches(UserOf(ring), q)
        /\ Matches(saved.user, q) => saved.answer /\ p = q

\* A packet that is let through has two ends, a size the data can hold and the
\* magic; one fresh from ipc_construct_packet never is, whatever was in it; and
\* passing a message changes nothing of the target beyond the byte after the
\* copied ones, nor anything of a target the message is not for. (IPCMsg.cc:15)
MessagesKeep(Packets) ==
  \A p \in Packets :
    /\ ipc_sanitize_packet(p) =>
         p.from # p.to /\ p.size \in 2..kIPCMsgSize /\ p.endian # kIPCLittleEndian
    /\ ~ipc_sanitize_packet(ipc_construct_packet(p))
    /\ \A t \in Packets :
         LET passed == Pass(p, t)
         IN  /\ passed.answer => /\ t.from = p.to
                                 /\ \A i \in 1..p.msgsz : passed.target.data[i] = p.data[i]
             /\ \A i \in DOMAIN t.data :
                  passed.target.data[i] # t.data[i] => passed.answer /\ i =< t.msgsz + 1

\* A file is indexed once: a second call leaves the index and the name alone,
\* whatever the flags, which nothing initialises, held at first.
\* (IndexableProperty.cc:46)
IndexedOnce(Files, Flags) ==
  \A f, g \in Files : \A flags \in Flags :
    LET first == fs_index_file(f, [flags |-> flags, path |-> <<>>])
        second == fs_index_file(g, first.index)
    IN  second.index = first.index /\ second.filename = g
=============================================================================
