----------------------------- MODULE Descriptors -----------------------------
(***************************************************************************)
(* The HAL's file descriptors: the lists of devices and file systems, the  *)
(* pool open allocates from, its high-water mark, exclusive locks, and the *)
(* system calls that vector a request to a driver. The library is built    *)
(* without a kernel: alt_fd_list_lock is empty and a call is one step.     *)
(***************************************************************************)
EXTENDS Integers, Sequences

CONSTANTS
    Dev, Fs,        \* the devices and file systems drivers register
    DevNull,        \* "/dev/null", registered from the start
    NoDev,          \* a NULL pointer
    NameOf,         \* their names, as sequences of path components
    Provides,       \* which entries of alt_dev are not NULL
    Names,          \* the names callers use
    Modes,          \* the access modes they ask for
    FlagSets,       \* the other flags they pass to open and fcntl
    Stdio,          \* triples of names alt_io_redirect may be given
    MaxFd,          \* ALT_MAX_FD
    DriverErrors    \* what a driver's entry may return: 0, or an error

ASSUME DescriptorConstants ==
    /\ MaxFd \in Nat /\ MaxFd > 2
    /\ NoDev \notin Dev \cup Fs \cup {DevNull}
    /\ Fs \cap (Dev \cup {DevNull}) = {}         \* an alt_dev is linked into one list
    /\ Modes \subseteq {"RDONLY", "WRONLY", "RDWR"}
    /\ FlagSets \subseteq SUBSET {"EXCL", "DEV", "APPEND", "NONBLOCK"}
    /\ 0 \in DriverErrors

VARIABLES
    devs, filesystems,  \* alt_dev_list and alt_fs_list, the last registered first
    fd_list, max_fd,    \* alt_fd_list and alt_max_fd
    booted,             \* alt_io_redirect was called: main runs
    result,             \* of the last system call: a value, or the error of a failure
    held,               \* the descriptors main holds, each with the mode it asked for
    reached             \* the driver's read or write the last call got to, and its descriptor

fdVars == <<devs, filesystems, fd_list, max_fd, booted, result, held, reached>>

Driver == Dev \cup Fs \cup {DevNull}
Fd == 0..MaxFd - 1
Std == 0..2
FlagsMask == {"EXCL", "DEV"}            \* ALT_FD_FLAGS_MASK
FcntlMask == {"APPEND", "NONBLOCK"}     \* ALT_FCNTL_FLAGS_MASK
Bits == FlagsMask \cup FcntlMask
AllModes == {"RDONLY", "WRONLY", "RDWR"}
FdRecord == [dev : Driver \cup {NoDev}, mode : AllModes, bits : SUBSET Bits]
FreeRecord == [dev |-> NoDev, mode |-> "RDONLY", bits |-> {}]
NoCall == <<"none", -1>>

\* errno.h
EACCES == -13
ENODEV == -19
EMFILE == -24
ENOTTY == -25
EBADFD == -81
ENOTSUP == -134

FdType ==
    /\ devs \in Seq(Dev \cup {DevNull}) /\ filesystems \in Seq(Fs)
    /\ fd_list \in [Fd -> FdRecord] /\ max_fd \in Fd \cup {-1}
    /\ booted \in BOOLEAN
    /\ \A fd \in DOMAIN held : fd \in Fd \ Std /\ held[fd] \in AllModes

FdInit ==
    /\ devs = <<DevNull>> /\ filesystems = <<>>
    /\ fd_list = [i \in Fd |-> IF i \in Std THEN [FreeRecord EXCEPT !.dev = DevNull]
                               ELSE FreeRecord]
    /\ max_fd = -1
    /\ booted = FALSE /\ result = 0
    /\ held = <<>> /\ reached = NoCall

-----------------------------------------------------------------------------
(* Looking up a name                                                       *)

First(list, hits) == list[CHOOSE i \in hits : \A j \in hits : i <= j]

FindDev(name) ==
    LET hits == {i \in DOMAIN devs : NameOf[devs[i]] = name}
    IN  IF hits = {} THEN NoDev ELSE First(devs, hits)

\* A mount point followed by '/' or by nothing.
Under(name, mount) ==
    Len(mount) <= Len(name) /\ SubSeq(name, 1, Len(mount)) = mount

FindFile(name) ==
    LET hits == {i \in DOMAIN filesystems : Under(name, NameOf[filesystems[i]])}
    IN  IF hits = {} THEN NoDev ELSE First(filesystems, hits)

-----------------------------------------------------------------------------
(* The pool: a pool is the list with its high-water mark                   *)

Pool(list, max) == [list |-> list, max |-> max]
Free(list) == {i \in Fd : list[i].dev = NoDev}
FirstFree(list) == CHOOSE i \in Free(list) : \A j \in Free(list) : i <= j

HighWater(i, max) == IF i > max THEN i ELSE max

GetFd(p, dev) ==
    LET i == FirstFree(p.list)
    IN  Pool([p.list EXCEPT ![i].dev = dev], HighWater(i, p.max))

\* Standard descriptors, and the -1 of a failed allocation, are not released.
ReleaseFd(list, fd) ==
    IF fd > 2 THEN [list EXCEPT ![fd].dev = NoDev, ![fd].bits = {},
                                ![fd].mode = "RDONLY"]
    ELSE list

FileLockedBelow(p, fd) ==       \* mutant of FileLocked
    \E i \in 0..p.max - 1 : /\ i # fd /\ p.list[i].dev = p.list[fd].dev
                            /\ "EXCL" \in p.list[i].bits
FileLocked(p, fd) ==
    \E i \in 0..p.max : /\ i # fd /\ p.list[i].dev = p.list[fd].dev
                        /\ "EXCL" \in p.list[i].bits

Opened(p, fd) == [pool |-> p, fd |-> fd, error |-> 0]

OpenFailsAndKeeps(before, p, fd, error) ==      \* mutant of OpenFails
    [pool |-> p, fd |-> -1, error |-> error]
OpenFails(before, p, fd, error) ==
    [pool |-> Pool(ReleaseFd(p.list, fd), p.max), fd |-> -1, error |-> error]

\* open: a device by its exact name, else the file system the name is in;
\* only a device can be locked, only its entry can refuse.
Open(p, name, mode, bits, answer) ==
    LET isdev == FindDev(name) # NoDev
        dev == IF isdev THEN FindDev(name) ELSE FindFile(name)
        fd == FirstFree(p.list)
        got == GetFd(p, dev)
        flags == (bits \ FlagsMask) \cup IF isdev THEN {"DEV"} ELSE {}
        q == [got EXCEPT !.list[fd].mode = mode, !.list[fd].bits = flags]
    IN  IF dev = NoDev THEN OpenFails(p, p, -1, ENODEV)
        ELSE IF Free(p.list) = {} THEN OpenFails(p, p, -1, EMFILE)
        ELSE IF isdev /\ FileLocked(q, fd) THEN OpenFails(p, q, fd, EACCES)
        ELSE IF "open" \in Provides[dev] /\ answer # 0 THEN OpenFails(p, q, fd, answer)
        ELSE Opened(q, fd)

-----------------------------------------------------------------------------
(* System calls. A caller passes a descriptor it holds, a standard one, or *)
(* the -1 of an open that failed.                                          *)

Callable == DOMAIN held \cup Std
thePool == Pool(fd_list, max_fd)

Returns(value) == result' = value
SetPool(p) == fd_list' = p.list /\ max_fd' = p.max
SameFiles == UNCHANGED <<devs, filesystems, booted>>
SamePool == SameFiles /\ UNCHANGED <<fd_list, max_fd, held>>

\* alt_dev_reg and alt_fs_reg, from alt_sys_init.
DevReg(d) ==
    /\ ~booted /\ d \in Dev /\ d \notin {devs[i] : i \in DOMAIN devs}
    /\ devs' = <<d>> \o devs
    /\ UNCHANGED <<filesystems, fd_list, max_fd, booted, result, held, reached>>

FsReg(f) ==
    /\ ~booted /\ f \in Fs /\ f \notin {filesystems[i] : i \in DOMAIN filesystems}
    /\ filesystems' = <<f>> \o filesystems
    /\ UNCHANGED <<devs, fd_list, max_fd, booted, result, held, reached>>

\* alt_open_fd: open by name, copy the descriptor, release it.
OpenFd(p, fd, name, mode) ==
    LET o == Open(p, name, mode, {}, 0)
    IN  IF o.fd < 0 THEN p
        ELSE Pool(ReleaseFd([o.pool.list EXCEPT ![fd] = o.pool.list[o.fd]], o.fd),
                  o.pool.max)

\* alt_io_redirect: standard out first.
IoRedirect(out, in, err) ==
    /\ ~booted
    /\ SetPool(OpenFd(OpenFd(OpenFd(thePool, 1, out, "WRONLY"), 0, in, "RDONLY"),
                      2, err, "WRONLY"))
    /\ booted' = TRUE
    /\ UNCHANGED <<devs, filesystems, result, held, reached>>

Hold(fd, mode) == held' = [i \in DOMAIN held \cup {fd} |->
                              IF i = fd THEN mode ELSE held[i]]

OpenCall(name, mode, bits, answer) ==
    LET o == Open(thePool, name, mode, bits, answer)
    IN  /\ booted
        /\ SetPool(o.pool)
        /\ IF o.fd < 0 THEN Returns(o.error) /\ UNCHANGED held
           ELSE Returns(o.fd) /\ Hold(o.fd, mode)
        /\ reached' = NoCall
        /\ SameFiles

BadFd(error) ==
    /\ booted /\ Returns(error) /\ reached' = NoCall /\ SamePool

\* The driver may refuse: the descriptor is released all the same.
Close(fd, answer) ==
    /\ booted /\ fd \in Callable
    /\ fd_list' = ReleaseFd(fd_list, fd)
    /\ held' = [i \in DOMAIN held \ {fd} |-> held[i]]
    /\ Returns(IF "close" \in Provides[fd_list[fd].dev] THEN answer ELSE 0)
    /\ reached' = NoCall
    /\ UNCHANGED max_fd /\ SameFiles

Forbids(op) == IF op = "read" THEN "WRONLY" ELSE "RDONLY"

\* read and write
Transfer(op, fd, answer) ==
    /\ booted /\ fd \in Callable
    /\ IF fd_list[fd].mode # Forbids(op) /\ op \in Provides[fd_list[fd].dev]
       THEN Returns(answer) /\ reached' = <<op, fd>>
       ELSE Returns(EACCES) /\ reached' = NoCall
    /\ SamePool

\* lseek and ioctl requests that are the driver's own
Vector(op, fd, answer) ==
    /\ booted /\ fd \in Callable
    /\ IF op \in Provides[fd_list[fd].dev]
       THEN Returns(answer)
       ELSE Returns(IF op = "lseek" THEN ENOTSUP ELSE ENOTTY)
    /\ reached' = NoCall /\ SamePool

Fstat(fd, answer) ==
    /\ booted /\ fd \in Callable
    /\ Returns(IF "fstat" \in Provides[fd_list[fd].dev] THEN answer ELSE 0)
    /\ reached' = NoCall /\ SamePool

\* isatty: without fstat a descriptor is a terminal.
IsATty(fd, answer) ==
    /\ booted /\ fd \in Callable
    /\ result' \in IF "fstat" \notin Provides[fd_list[fd].dev] THEN {1}
                   ELSE IF answer # 0 THEN {0} ELSE {0, 1}
    /\ reached' = NoCall /\ SamePool

\* stat: open, fstat, close; the descriptor is gone when it returns.
Stat(name, answer) ==
    LET o == Open(thePool, name, "RDONLY", {}, answer)
    IN  /\ booted
        /\ fd_list' = ReleaseFd(o.pool.list, o.fd) /\ max_fd' = o.pool.max
        /\ IF o.fd < 0 THEN Returns(EBADFD)
           ELSE Returns(IF "fstat" \in Provides[o.pool.list[o.fd].dev] THEN answer ELSE 0)
        /\ reached' = NoCall
        /\ UNCHANGED held /\ SameFiles

WithAllFlags(r, mode, new) ==                   \* mutant of WithFlags
    [r EXCEPT !.mode = mode, !.bits = (@ \ FcntlMask) \cup (new \cap FcntlMask)]
WithFlags(r, mode, new) ==
    [r EXCEPT !.bits = (@ \ FcntlMask) \cup (new \cap FcntlMask)]

\* fcntl: F_GETFL hides the lock; F_SETFL changes two flags only.
GetFl(fd) ==
    /\ booted /\ fd \in Callable
    /\ Returns(0) /\ reached' = NoCall /\ SamePool

SetFl(fd, mode, new) ==
    /\ booted /\ fd \in Callable
    /\ fd_list' = [fd_list EXCEPT ![fd] = WithFlags(fd_list[fd], mode, new)]
    /\ Returns(0) /\ reached' = NoCall
    /\ UNCHANGED <<max_fd, held>> /\ SameFiles

\* TIOCEXCL and TIOCNXCL on a device: alt_fd_lock and alt_fd_unlock. The
\* search stops short of the highest descriptor.
OthersReference(fd) ==
    \E i \in 0..max_fd - 1 : i # fd /\ fd_list[i].dev = fd_list[fd].dev

Lock(fd) ==
    /\ booted /\ fd \in Callable /\ "DEV" \in fd_list[fd].bits
    /\ IF OthersReference(fd)
       THEN Returns(EACCES) /\ UNCHANGED fd_list
       ELSE /\ fd_list' = [fd_list EXCEPT ![fd].bits = @ \cup {"EXCL"}]
            /\ Returns(0)
    /\ reached' = NoCall
    /\ UNCHANGED <<max_fd, held>> /\ SameFiles

Unlock(fd) ==
    /\ booted /\ fd \in Callable /\ "DEV" \in fd_list[fd].bits
    /\ fd_list' = [fd_list EXCEPT ![fd].bits = @ \ {"EXCL"}]
    /\ Returns(0) /\ reached' = NoCall
    /\ UNCHANGED <<max_fd, held>> /\ SameFiles

-----------------------------------------------------------------------------
Boot ==
    \/ \E d \in Dev : DevReg(d)
    \/ \E f \in Fs : FsReg(f)
    \/ \E names \in Stdio : IoRedirect(names[1], names[2], names[3])

OnDescriptor(fd) ==
    \/ GetFl(fd) \/ Lock(fd) \/ Unlock(fd)
    \/ \E new \in FlagSets : SetFl(fd, "RDWR", new)
    \/ \E answer \in DriverErrors :
          \/ Close(fd, answer) \/ Fstat(fd, answer) \/ IsATty(fd, answer)
          \/ \E op \in {"read", "write"} : Transfer(op, fd, answer)
          \/ \E op \in {"lseek", "ioctl"} : Vector(op, fd, answer)

FdNext ==
    \/ Boot
    \/ BadFd(EBADFD)
    \/ \E fd \in Fd : OnDescriptor(fd)
    \/ \E name \in Names, answer \in DriverErrors :
          \/ Stat(name, answer)
          \/ \E mode \in Modes, bits \in FlagSets : OpenCall(name, mode, bits, answer)

FdSpec == FdInit /\ [][FdNext]_fdVars

-----------------------------------------------------------------------------
(* No descriptor leaks and none is lost: beyond the standard three, those  *)
(* in use are those main holds, whatever open, stat and redirection met    *)
(* half way, and the high-water mark the searches rely on covers them.     *)
PoolIsWhatIsHeld ==
    /\ \A i \in Fd \ Std : fd_list[i].dev # NoDev <=> i \in DOMAIN held
    /\ DOMAIN held \subseteq 0..max_fd
    /\ \A i \in Std : fd_list[i].dev # NoDev

(* alt_file.h:93, "Subsequent calls to open() for the device associated    *)
(* with fd will fail": while a descriptor holds the lock of its device no  *)
(* other descriptor comes to reference it.                                 *)
LockKeepsOthersOut ==
    [][ \A i, j \in Fd : /\ i # j /\ booted
                         /\ "EXCL" \in fd_list[i].bits
                         /\ fd_list'[j].dev = fd_list[i].dev
                         => fd_list[j].dev = fd_list[i].dev ]_fdVars

(* A driver is read and written only through descriptors whose open asked  *)
(* for it, over every later fcntl.                                         *)
CallsNeedTheirAccess ==
    reached[2] \in DOMAIN held => held[reached[2]] # Forbids(reached[1])

(* alt_fd_lock.c:44, "to gain exclusive access to a device": a descriptor  *)
(* with the lock is the only one that references its device.               *)
LockIsExclusive ==
    \A i, j \in Fd : i # j /\ "EXCL" \in fd_list[i].bits
                     => fd_list[j].dev # fd_list[i].dev
==============================================================================
