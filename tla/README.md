# A formal model of tmtv

tmtv is a fork of tmux that shares a terminal: a *host* runs the modified tmux
(`*.c`, `tmate-*.c`), opens an SSH connection to a *relay* (`server/`), and
*viewers* reach the session through the relay, with an SSH client or with a web
page (`web/`). This directory holds TLA+ modules of the parts of that program
where several processes share state, the TLC configurations that check them,
and proofs checked by TLAPS.

Paths below are relative to the repository root.

## 1. The system

| Component | Source | State it keeps | Operations |
|---|---|---|---|
| sessions directory | `server/tmate-ssh-daemon.c`, `server/tmate-resume.c`, `server.c` | one socket per daemon, symbolic links (aliases) to sockets, `flock()` on the directory, a second directory with hard links for web viewers | register identity, register name, exit and crash cleanup |
| stale-session collector | `server/tmate-ssh-server.c` 640-810 | none of its own | scan under the lock, test, unlink |
| relay accept loop | `server/tmate-ssh-server.c` 810-1218 | `active_children`, `dead_pids`, `ipc_children`, `pending_gc` | SIGCHLD handler, admission, poll loop, IPC messages |
| viewer routing registry | `server/tmate-sse-mux.c` | token table, parked connections | register, look up, pass a connection, park and retry |
| session daemon | `server/tmate-ssh-daemon.c`, `server/tmate-daemon-decoder.c`, `server/tmate-auth-keys.c` | `struct tmate_session`, input and output buffers, readiness | host messages, backpressure, idle timer |
| web viewers | `server/tmate-websocket.c`, `web/viewer.js` | viewer list, replay ring, input prefix state | handshake, join, leave, input, frames |
| SSH viewers | `server/tmate-ssh-client-pty.c` | pty and channel | relay bytes, resize |
| host tunnel | `tmate-session.c`, `tmate-ssh-client.c` | SSH state machine, reconnect timer | connect, lose, reconnect |
| host message codec | `tmate-encoder.c`, `tmate-decoder.c` | pending output, saved commands | send, replay, ready |
| host snapshots | `tmate-snapshot*.c` | layout and snapshot chunks | capture, transfer |
| host input socket, recording | `tmate-input-socket.c`, `tmate-recording.c` | local applications and their subscriptions, the list of users, a file | accept, subscribe, set mirror, users join and leave; append |
| command queue and wait-for | `cmd-queue.c`, `cmd-wait-for.c`, `cmd-run-shell.c`, `cmd-if-shell.c`, `hooks.c` | a queue for each client and a global one, wait channels, event waits, shell jobs | append, insert, wait, signal, lock, unlock, error |
| control mode output | `control.c`, parts of `server-client.c` and `window.c` | a queue of lines and blocks, offsets into panes' buffers, an output buffer | write, pause, continue, respawn, drain, exit |
| clients, server loop and jobs | `server.c`, `server-client.c`, `job.c`, `client.c` | clients, their flags and timers | attach, lose, loop |
| sessions, windows, panes and layouts | `session.c`, `window.c`, `layout*.c`, ... | reference-counted objects, layout trees | commands |
| set-up, exec channel, latency, portability, site, tests | see `PROJECT.json` | - | - |

How they interact:

- The relay's main process accepts SSH connections and forks one child for each.
  A child that authenticates as a host becomes a *session daemon*; it talks to
  the main process over a socket pair (`REG` messages one way, viewers' descriptors the other), to
  its host over the SSH channel, and to viewers over UNIX sockets.
- All daemons and the main process share the sessions directory. Nothing but
  the directory tells a viewer which daemon serves a token or a name.
- On the host, local applications follow the viewers over a UNIX socket; the
  mode they ask for and the viewers' names go through the same SSH connection.
- Both the host and a session daemon are tmux servers: one event loop, clients
  with command queues, panes whose buffers are shared by the screen and by control mode clients.
- A host whose connection breaks reconnects and gets a *new* daemon; its private
  identity moves the links it handed out from the old daemon to the new one,
  while the old one may still be running, exiting or crashing.

What is hard, and what makes each part correct:

- **Sessions directory**: critical sections of several system calls, steps
  outside the lock, owners that die half-way, the successor overtaking the
  predecessor's cleanup. Correct when a link that was handed out leads to a live
  daemon of its host, a name in use is never given to somebody else, and nothing
  stays behind.
- **Collector**: looks at processes that are starting or dying. Correct when it
  only removes what is dead, and in the end all of it.
- **Accept loop**: a signal handler that changes counters and arrays under the
  loop's feet. Correct when channels and children are accounted for and no
  descriptor is used for the wrong child.
- **Registry**: messages of different daemons are read in an order that has
  nothing to do with the order they were sent in. Correct when a viewer is only
  routed to a daemon that owns the token, and parked viewers get an answer.
- **Host tunnel**: a race of clients whose callbacks may free each other. Correct when one
  activity at a time leads to a connection, and some always does.
- **Codec and daemon**: readiness, identity, layout, screens and output in any order, across
  reconnections and through a bounded buffer. Correct when what viewers see is what the host's
  panes show, configuration arrives once and in order, and nobody is let in too early.
- **Viewers and input socket**: connections in every state when sharing is switched off, announcements
  across two processes and reconnections, a list that is freed while it is broadcast. Correct when whoever can
  type is known to the applications, whoever leaves is taken off, and the mode is on for subscribers only.
- **Command queue**: items that wait for other queues' items, hooks and errors that change the middle of a
  queue, clients that go while they wait. Correct when nobody waits without somebody to wake it, locks exclude, and a turn of the
  loop leaves nothing that could run.
- **Control output**: offsets into buffers that are drained and respawned meanwhile; lines behind output;
  reading and writing that are switched off here and on there. Correct when blocks point at data that exists, lines
  keep their order, buffers are bounded, and output flows as long as it is read.

## 2. Modules

| Module | What it is |
|---|---|
| `SessionDir` | the sessions directory, the daemons' life, registration, cleanup and the collector, one file-system call per step |
| `LinkService` | what the directory promises, with links that change hands atomically |
| `SessionDirProps` | invariants, action properties, liveness and the refinement mapping to `LinkService` |
| `MCSessionDir` | constants for TLC |
| `SessionDirProofs` | theorems of `SessionDir`: names of running daemons |
| `SessionDirLinkProofs` | theorems of `SessionDir`: every link, and that it implements `LinkService` |
| `AcceptLoop` | the relay's main process: loop, signal handler, registry, channels to the children, parked viewers |
| `AcceptLoopProps` | invariants, action properties and liveness of it |
| `MCAcceptLoop` | constants for TLC |
| `AcceptLoopProofs` | theorems of `AcceptLoop` |
| `HostTunnel` | how a host gets and keeps its connection to a relay: look-up, race of SSH clients, loss, back-off |
| `HostTunnelProps` | invariants, action properties and liveness of it |
| `MCHostTunnel` | constants for TLC |
| `HostTunnelProofs` | theorems of `HostTunnel` |
| `Sharing` | what goes over a connection: the host's encoder, its panes and its negotiation, and the session daemon that reads it |
| `SharingProps` | types, invariants and liveness of it |
| `MCSharing` | constants for TLC |
| `SharingProofs` | theorems of `Sharing` |
| `WebViewers` | the viewers of one session daemon: browsers' connections, SSH viewers, web sharing, counts, announcements |
| `InputSocket` | the host's socket for applications: subscriptions, input mode, list of users |
| `InputEvents` | composes the two over a connection that may break |
| `InputEventsProps` | types, invariants, an action property and liveness of it |
| `MCInputEvents` | constants for TLC |
| `InputEventsProofs` | theorems of `InputEvents` |
| `Commands` | command queues, hooks, `wait-for`, shell jobs, lost clients and the server's loop |
| `CommandsProps` | types, invariants, an action property and liveness of it |
| `MCCommands` | constants for TLC |
| `CommandsProofs` | theorems of `Commands`: waits, locks, the order of a queue |
| `ControlOutput` | output of a control mode client and the panes' buffers it comes from |
| `ControlOutputProps` | types, invariants and liveness of it |
| `MCControlOutput` | constants for TLC |
| `ControlOutputProofs` | theorems of `ControlOutput`: queue, buffers, order of lines |

The two systems meet in the claim of a link: `Claim(p, t)` of `AcceptLoop` is what
`InstallStableRw`, `ClaimName` and their like do in `SessionDir`, and
`SendReg(p)` the message that follows; the scan that the main process starts from
`Top` and from the poll timeout is `GcBegin` of `SessionDir`. `Lost` and `Connect` of `InputEvents` are
those of `Sharing`, seen by the input socket and the viewers. `Lost` of `Commands` and `ClientLost` of `ControlOutput` are the
same function, `server_client_lost`, once for what waits and once for what is written.

A definition that nothing refers to and whose name is that of its neighbour with a word added (`SubscribeLast`,
`LoopEndOnce`) is a faulty variant of the code, as a bug would have it; each property is violated by at least one of them in
the run that checks it (`mutants` in `PROJECT.json`).

### SessionDir and the code

`pc[d]` is where daemon `d` is in the code:

| `pc` | code |
|---|---|
| `new`, `bound`, `listening`, `linked` | `tmate_spawn_daemon`, `server_create_socket`, `create_session_ro_symlink` |
| `up` | the event loop |
| `id_rw`, `id_ro`, `id_old` | `tmate_register_session_identity`, before each change of a link |
| `try`, `link_rw`, `link_ro`, `drop_ro` | `register_session_name_locked` |
| `exit`, `clean`, `unlink`, `gone` | `cleanup_session_files` |
| `dead` | killed or crashed |

`ses[d]` holds the fields of `struct tmate_session` that matter (`ident` for
`session_identity`, `awaiting` for `awaiting_identity`, `ready`, `pending` for the
deferred name, `prev` for `resume_previous_token`, `ro` for the read-only token
advertised now, `named` and `rw` for the registered names); `base` and `at` are the locals
of the loop over numbered names, and `at` is also the position in the list of links the cleanup goes
through. `sock`, `jail` and `dir` are the directory; `lock` is `flock()`;
`gc` and `victims` are the main process inside `gc_stale_sessions`, between a test
and the `unlink()` that follows it.

A step is a file-system call, or several that no other process can tell apart:
`readlinkat()` and `unlinkat()` of the exit cleanup are separate steps, and so are
`symlinkat()` and `renameat()` of `tmtv_alias_replace` (`MakeTemp`, then a step with `Replace`); `temps` is who
has a temporary link, which the collector does not look at.
Signals that kill a process may come between any two steps.

`LinkService` knows live daemons, who holds a stable link or a name, and what an
advertised link leads to. Taking over an identity or a name is one step there.
`ImplementsService` maps a daemon in the middle of a critical section to before
or after that step, depending on which links have been replaced. The service has one gap, because the code has it: a session may be
taken for dead before it listens (section 5). It then opens `hidden`, or opens `marked`
and is hidden later; its links may go at any time, and it is the only kind of current session that may lose one to a stranger.
Once a session has opened without a mark, nobody can hide it.

### AcceptLoop and the code

The main loop of `tmate_ssh_server_main` is one process, `pc` says where it is:

| `pc` | code (`server/tmate-ssh-server.c`) |
|---|---|
| `top` | 944-948, `pending_gc` |
| `take`, `drain` | 950-972, dead children; SIGCHLD is blocked during `take` only |
| `poll` | 974-1020 |
| `parked` | 1022-1055, one step for each parked connection |
| `ipc` | 1057-1083, one step for each channel |
| `sse` | 1085-1108, one viewer |
| `ssh` | 1110-1161, `accept()`, admission, socket pair, `fork()` |
| `forked`, `count` | 1163-1180, before the load and before the store of `active_children++` |

`SigChld` is the signal handler; it may run between any two steps, also after the
wake-up flag was checked and before `poll()` is entered. `chan[f]` is what the kernel knows: who
is at the other end of descriptor `f` of the main process; a closed descriptor may be used
for the next child. `ipc`, `parked`, `deadPids` and the results of
`poll()` are the arrays of the code, with the array order, because
`a[i] = a[--n]` in a loop is where it matters. The registry is a function from tokens to entries, since no
two entries have the same token. `outbox[p]` is the set of tokens in
the messages that child `p` has sent, `inbox[p]` the viewers it was sent.

Left open in every state: whether `socketpair()`, `fork()` or the rate limit turns a connection
away, and whether `accept()` fails; when children die; what viewers send and when. A failing `accept()` is `tmate_fatal` for any error but `EINTR`
(`AcceptFails`): the process ends and is started again (`docker-compose.yml` 14, a systemd unit) with empty tables. Its children become `orphan`: nobody
reaps, counts or reaches them any more, whether they are killed with it, as in a container, or go on with their hosts.
Abstractions: process ids are not reused; SIGPIPE is ignored, as it is for a systemd service or the first process of a
container; a request line either is complete or is not; `OPTIONS`, `/healthz` and requests
without a token are answered and closed like those for an unknown token.

### HostTunnel and the code

Everything is a callback of the host's one event loop, so an action is a callback (or the part of
`on_ssh_client_event` up to where libssh may answer `SSH_AGAIN` and the code returns). `st[i]` is the
`state` of the SSH client for address `i`:

| `st[i]` | code (`tmate-ssh-client.c`) |
|---|---|
| `none` | no client |
| `connect` | `SSH_NONE`, `SSH_INIT`, `SSH_CONNECT`; `SSH_AUTH_SERVER` is part of the step out of it |
| `auth_none`, `auth_pubkey` | `SSH_AUTH_CLIENT_NONE`, `SSH_AUTH_CLIENT_PUBKEY` |
| `open` | `SSH_NEW_CHANNEL`, `SSH_OPEN_CHANNEL` |
| `bootstrap`, `ready` | `SSH_BOOTSTRAP`, `SSH_READY` |

`resolving`, `dnsRetry`, `waiting` and `capTimer` say whether `ev_dnsbase`, `ev_dns_retry`,
`ev_connection_retry` and `ev_layout_capability` are set; `attempts`, `lastIp` and
`layoutFailed` are `reconnect_attempts`, `last_server_ip` and `layout_failed`; `writer` is the client that
the encoder's `ready_callback` gets. `KillTo(s)` is `kill_ssh_client` for all clients that
`s` no longer has, which is what both a single failure and the end of the race do.
`hostSet` is the option that `lookup_and_connect` reads, `up` the world. `freedUsed` becomes true when a callback goes on
with a client it has freed; the program's behaviour is undefined from then on, and the model stops.

Abstractions: at most one client for an address (a name that resolves twice to the same address is left out); the number of
attempts stops at the one from which delays are constant; how long the delays are is left out.

`Lost`, `Connect` and `ConnectFails` of `Sharing` are `Lost`, `Bootstrapped` and the first failures of
`HostTunnel`, without their timers.

### Sharing and the code

One action is the handling of one message, or one thing that happens to the host. Host side: `host` holds
`layout_capability`, `snapshot_capability`, `layout_failed` and `layout_ready_pending` of `struct tmate_session`;
`saved`, `told`, `reconnected` and `sent` are `saved_tmux_cmds`, `reconnect_name`, `reconnected` and
`layout_sent`; `statusSent` is the pair of static variables in `tmate_status`. Daemon side: `gate` holds the flags
`layout_ready`, `snapshot_ready`, `layout_ready_pending`, `awaiting_identity`, `session_token_stable` (that there is one),
`identity_ready_pending`, `urls_sent` (as `announced`), `update_required` (as `refused`), `fin_received` (as
`ending`) and a failed assertion of the identity handshake (`fatal`). `pending` is `pty_pending_list`, `view` the panes and their screens.

| Action | Code |
|---|---|
| `OpenPane`, `ClosePane`, `SelectWindow` | the calls of `tmate_sync_layout` in `session.c`, for the session concerned |
| `ServerLoop` | the call at the end of `server_client_loop`, for the shared session |
| `PaneOutput` | `window_pane_read_callback`: first `tmate_pty_data`, then the host's own parser |
| `ExecCmd`, `StatusTimer`, `CapabilityTimeout` | `tmate_exec_cmd_args`, `on_status_timer`, `tmate_layout_capability_timeout` |
| `Host...` | branches of `handle_set_env` (`tmate-decoder.c`) and what they lead to |
| `Connect`, `Disconnected` | `SSH_BOOTSTRAP` and `kill_ssh_client`, as far as they touch the encoder and the negotiation |
| `Daemon...` | the handler of each message in `server/tmate-daemon-decoder.c` |

The content of a screen is the number of chunks of output it is made of, `Garbled` if one is missing or came
twice: that is what it takes to say that the snapshot and the output around it meet. A layout is the set of its panes.

Abstractions: windows are left out, so a layout with the same panes is the same layout, and panes do not move between sessions;
the buffer's limit counts layouts, snapshots and output, since the other messages are a few
bytes of 16 or 64 megabytes; when bytes are drained past the limit (`tmate-msgpack.c` 47-65) the first message of
the buffer is torn and the daemon always notices, while in the code the cut may take several messages, fall between two, or
leave a rest that unpacks as something else, so that the daemon goes on with less than it was sent; capabilities of an unknown version,
copy mode, the clipboard, input and the end of the host itself are left out; so are the limits of the output
that is kept for later panes. A screen is never cleared (`respawn-pane`, `clear-history`). The daemon ends with its connection.

### WebViewers, InputSocket, InputEvents and the code

`conn[c].at` is the stage of a `struct ws_client` (`server/tmate-websocket.c`):

| `at` | code |
|---|---|
| `head` | accepted, no complete request yet |
| `body` | a POST whose body is not there yet; the connection already carries the viewer the request names |
| `stream` | a viewer: `sse_do_handshake` has answered with an event stream |
| `flush`, `refused` | `on_ws_client_flush` closes it once the answer is written; `refused` after a POST |

`ssh` are the identified clients of the daemon's own tmux server, `counts` what `tmate_broadcast_viewer_count` sent last.
`WsClientFree(gone)` is `ws_client_free` for one connection, or for all of them in `tmate_disconnect_ws_clients`; everything
it calls (the leave message, the new count) is part of the step. `disowned` is a history variable: the viewers of whom the host
was told that they had gone because somebody else with their id had, which is what the code does (section 5).

On the host (`tmate-input-socket.c`), `app[a]` is a connected application, `users` is `input_users`; `AppsWithout` is
`input_app_free` with the mode it sends when the last subscriber goes. `toHost` and `toDaemon` are what is on its way, in
order; `Lost` empties both. `freedUsed` is as in `HostTunnel`: after it the host does nothing more in the model.

Abstractions: a request is what the parser makes of it; contents of keys, frames and cookies are left out; an
application sends well-formed messages or is disconnected; `Polite` has applications subscribe before they set the mirror.

### Commands and the code

One tmux server. Between two runs of `server_loop` an event is handled as one step: `Connect`, `Request`, `Lost`
(`server_client_lost` with `cmd_wait_for_client_lost`, the queue that is run to its end, and the `client-detached` hook)
and `JobDone`. Then `LoopStart` begins a run, and each item that `cmdq_next` takes from the queue in turn is a step. After the last pass
comes `server_client_loop`, part of the step that ends the run: something happens to a window (`CheckWindows`), which puts its hook into
the global queue and ends waits for it. An event decides on its hook before it wakes who waits for it, in the order of its sinks (`events.c` 105-110).

| State | Code |
|---|---|
| `queue[o]` | `struct cmdq_list` of a client or the global one; `state` of an item stands for `CMDQ_FIRED` and `CMDQ_WAITING` |
| `channels[ch]` | `struct wait_channel`: `locked`, `woken`, `waiters`, `lockers` |
| `watching[e]` | `wait_event_items` of `wait-for -E` |
| `jobs` | whose first item a shell job will continue |
| `turn`, `running`, `ran` | the loop over the clients in `server_loop`, and its sum `items` |
| `clients`, `exiting`, `dead` | the list of clients, `CLIENT_EXIT`, clients that are lost and still referred to |

`line` of an item, `inside` and `forced` are history: which request an item comes from, who is between a lock and its unlock,
and whether `-w` or the exit of the server has broken the lock.

Abstractions: what commands print or change outside the queues; formats (the filter of `wait-for -E` lets
an event through or not); options that only list; `run-shell -b`, whose jobs nobody waits for.

### ControlOutput and the code

One control mode client, and panes of one window each. `pane[p]` is what `window_pane` has of its buffer: `made` counts
all bytes ever added, `base` those drained (`base_offset`), `reading` whether `EV_READ` is enabled. `cp[p]` is the
`control_pane` with its two offsets. `client.all` is `all_blocks`, a line or a block of output each; the blocks of
a pane are those of `client.all` that name it, in the same order. `client.evb` is how much is in the output buffer,
`client.writing` whether `EV_WRITE` is enabled, `exit`, `discard`, `exited`, `timer` are the flags and the exit timer.
`client.told` is what has arrived, as far as the client can judge it: how many lines, whether a `%begin` is open, whether
any line was out of place. `cp[p].skipped` is history: output of the pane was passed over (the `ignore` of `control_write_output`) while
earlier output was queued, and its offset has not been set since.

`control_write_callback` is several steps, with `cb` for its locals: a pass over the pending panes, and for each pane a block, or a
part of one, or its end. Nothing else happens before `CallbackDone`.

| Action | Code |
|---|---|
| `PaneOutput`, `PaneEnds`, `Respawn`, `Move` | `window_pane_read_callback`, `window_pane_error_callback`, `spawn_pane`, a window linked or unlinked |
| `Command`, `SetPaneOn`, ..., `SetNoOutput` | a command's guard lines with `refresh-client -A` and `-f` between them |
| `Suspend`, `Exit` | `server_client_suspend` and `MSG_WAKEUP`; detach, an empty line, end of file |
| `ServerClientLoop` | `server_client_loop`: `server_client_check_exit`, `server_client_check_pane_buffer` |
| `ExitTimer`, `ClientLost` | `server_client_exit_timer`, `server_client_lost` |
| `Writable` | libevent writes `n` bytes and calls back at the low mark |
| `NotEnough` | the `fatalx` of `control_append_data`: the server ends |

Abstractions: a line takes one unit of the buffer, a byte is not escaped, and the ages of blocks are a choice; window
sizes and subscriptions are left out, since they only produce lines.

## 3. Runs

| Run | Instance | What it shows |
|---|---|---|
| `directory` | 2 daemons, 2 hosts, 1 name with one numbered form, a host with a pin (anonymous until it is checked), scans at any time | handed-out links work, names kept and not needlessly numbered, nothing left by a regular exit; refinement of `LinkService` |
| `collect` | 2 daemons of one host, web viewers (jail links), no names, 1 restart of the main process, fairness | sockets, jail links and aliases are collected in the end |
| `listen_race` | 2 daemons of one host | **violation**: the collector removes the socket of a daemon that is about to listen |
| `route` | 2 children one after the other (limit 1), 2 descriptors, 1 token, 1 viewer that may be parked, an `accept()` that may fail, fairness | sound tables, limit, no viewer at a stranger's; dead children forgotten, parked viewers resolved, tokens registered |
| `tunnel` | 3 addresses, 1 with a wrong key, 1 that stays up, servers that come and go, connections that may break as they start, fairness | one activity at a time, one winner, nothing refers to a freed client, one chance for the last server; never stops trying, connected again and again |
| `sharing` | 1 session, 2 panes with 2 chunks each, 2 names, 1 later command, 2 connections, room for 3, relays of another version | screens right and complete, configuration intact, viewers wait, handshake valid |
| `sharing_ends` | 2 sessions with 1 pane each, room for 2 and overflow, encoders that fail, a status line that changes, fairness | snapshots fit the layout before them, sharing starts or fails visibly, failures end the daemon, the shared layout comes back |
| `viewers` | 2 browsers' connections, 1 SSH viewer, 2 applications, 2 connections of the host, fairness | who can type is known to the applications, who leaves is taken off, web sharing and its count right, the mode follows the subscribers |
| `commands` | 2 clients, 1 attached; 1 channel; lines with waits, locks, an event, jobs, errors; hooks of four events, fairness | no wait is lost, locks exclude, inserted commands keep their place, a loop ends and its passes leave nothing |
| `control` | 2 panes with 2 and 1 bytes, of which one may end, respawn and move; a buffer of 2; 4 lines | types; blocks and offsets in the buffers, but for panes whose output was passed over, lines in order, replies bounded, queued output watched |
| `control_live` | 2 panes that stay; no other client, suspension, 3 lines, fairness | output in the buffers, but for panes whose output was passed over; output flows as long as the client reads; a client that exits is gone, unless it is suspended |
| `suspend_drop` | as `control`, panes that stay, 2 lines | **violation**: a queued block announces data that was passed over |

The inductive invariants of the proofs were checked by TLC on the same instances while they were found; the runs do not repeat what a
theorem says for all instances. Types are proved where there are proofs and checked by TLC in `control`. Where a
theorem is about a property, the run is still there: it checks the property with mutated code.

Bounds. Two daemons are what it takes for a successor to overtake a predecessor
and for a stranger to compete for a name. Chains of three
reconnections, and larger instances of any kind, are left to the theorems (`Implementation`, `LiveNames`), which hold for any number of daemons. One name with one numbered form makes
both the first and the last candidate of the loop happen. `MaxNames = 1`
because the hosts in this repository send `session_name` once for each connection
(`tmate-session.c` 276-283). `Pins = {}` bounds a run to hosts that
give their identity before a name; runs with a pin check the anonymous case.

Fairness. A daemon inside a critical section or its cleanup keeps running;
its `flock()` blocks until granted, which is strong fairness because the lock is only free now and then.
The collector is called after every dead child and after each minute without
activity, forever, and uses a non-blocking `flock()`; that
its attempts succeed sometimes, and that a scan reads all of the directory and
ends, is strong fairness of `GcBegin` and of the tests. Messages from a host,
exits and crashes are never assumed to happen.

`AcceptLoop`. Two children are what it takes for a descriptor to be used again while entries of its first user may
remain, and for one child to die while another is counted; one token that both may claim has an entry
change hands; a full registry needs a second token, is beyond what TLC can do together with fairness, and is left to the theorems, which hold for
any `RegistryMax`; a limit of one child makes `dead_pids`, `ipc_children` and
the counter reach their limits at once. `Pids` bounds the number of forks. `PendingTimeout = 1` counts seconds;
`QueueMax = 1` stands for the buffer of a socket, and a step that would have to wait for it waits.
One viewer and one
channel at a time never meet the swap `a[i] = a[--n]` of another's poll result: what it does to the tables is in the theorems for any number, and that
parked viewers are resolved and tokens registered in spite of it was checked once with two viewers and one child, and with two children and no viewer
(`ParkedResolved`, `TokensServed`), which are not kept as runs. `RegistryMax` stands for 800, `MaxPending` for 64 and `MaxChildren` for `max_sessions`; the proofs hold for all values.

Fairness of `AcceptLoop`: the main process runs whenever it is not waiting for a channel, `SIGCHLD` is
delivered, time passes, and a child sends the registration it has begun and reads
its channel, which its event loop does (`on_ipc_read`). Only weak fairness is needed, because nothing
takes a step's condition away again and again. Children that claim, exit, viewers that connect or send: never
assumed. `poll()` has a timeout of a second or a minute, so `Poll` is never disabled.

`HostTunnel`. Three addresses let a client win, one lose by the end of the race and one by its key, in any order, and the last
server be down while another is up. `MaxAttempts = 5` is where the delay reaches its limit. `KeyLocked` is false: a key that asks for a
passphrase has its client wait until the relay gives up, which is `auth_pubkey` failing. The theorems hold for both.

Fairness of `HostTunnel`: libevent's timers fire; a look-up ends, libevent's resolver has a timeout;
a handshake makes progress or fails, because the relay ends it after its grace period (`TMATE_SSH_GRACE_PERIOD`) and
`tune_socket_opts` has the kernel give up on a peer that is gone (keep-alive, `TCP_USER_TIMEOUT`). This is weak fairness of each client's
next step or failure. `Reconnects` is about a relay that can be reached: the look-up sometimes
finds the addresses in `Lasting`, those servers are never down, and they do not fail every time they are tried
(strong fairness). It also assumes that the option stays set and the relay does not refuse the session; nothing is assumed of
the other addresses.

`Sharing`. Two panes are what it takes for output to come before its pane, for a layout to change while a
snapshot is on its way and for a pane to be closed; two connections for everything that is kept across them (a third one meets
the same state as the second). `BufMax` is 3 where a layout, a snapshot and a chunk must fit, and 2 where they must not.
`MaxCmds` allows one command after those of `tmate_session_start`. Where `Overflow` is false, panes wait for the
connection, so that `Mirror` is about what arrives. It is checked with one session: a window selected in a
second session sends that session's layout (section 5), and its panes lack what they wrote before the snapshot. The number of answers on their way is bounded by the
protocol. Runs may end: a host that has failed and has neither panes nor commands left does nothing, so they do
not check for deadlock.

Fairness of `Sharing`: both ends read what has arrived, the host's event loop turns, and a daemon that has decided to
end does. All weak: each step stays possible until it is taken or the connection is lost. Nobody is assumed to write, and
`CapabilityTimeout` is not assumed to fire: `SharingStarts`, the first half of `SharingResolves`, holds without it because the relays of the
model answer.

`InputEvents`. Two browsers are what it takes for a POST to name somebody else's id; `MaxViewerId = 1` lets one event stream be
started by each daemon, and a POST name an id that is or is not its own; the SSH viewer has process id 1, so that web ids and process ids
meet, as they may. `MaxClients = 1` has the limit refuse somebody. `MaxQueue = 1` message on the way in each direction: a step that would
send another waits. `MaxConns = 2` is one loss. Runs may end (the connection stays down, nobody comes), so deadlock is not checked.
`Polite` is true because the code is right about the mode only then (section 5).

Fairness of `InputEvents`: both ends read what has arrived, which their event loops do. Weak: a message stays until it is read or the connection is
lost. Nobody is assumed to come, go or subscribe.

`Commands`. Two clients and the global queue are what it takes for a wait, its signal and an error to be in different queues; one
client is attached, so that hooks have a target and may lose it. One channel: operations on two do not meet. The lines
of `MCCommands` contain each command once and each combination in which one of them changes what follows (a lock held over a
job, a wait followed by another command, an error followed by a command). `MaxQueue = 4` and `MaxLine = 7` stop clients from asking when
they have that much to do. Nobody is obliged to ask for anything, so deadlock is not checked.

Fairness of `Commands`: the event loop turns, a shell job ends, and a client that was told to exit closes its connection, each
weak. `LoopEnds` needs the first only.

`ControlOutput`. Two panes compete for the buffer; `Low = 1`, `High = 2` and `Minimum = 1` have a block of two bytes written in
parts and a pass stop in the middle. Output is added a byte or two at a time (`MaxBytes`) until the pane is respawned. `MaxLines` allows two commands in
`control`, so that a reply waits behind output and another behind that; `MaxReplies = 4` is then exceeded. `Steady` panes do not end, respawn or
move: one pane does in `control`, none in `control_live`, where a pane that goes would release the client anyway.
`Others`: with another client attached a pane is read whatever this client does; `control` has one, so that output goes on coming,
`control_live` has none, so that a pane waits for this client alone. `Suspends` has the client
suspended and resumed, in `control_live` and `suspend_drop`; with the panes of `control` it would be too much for one run. `OutputInBuffer`
excepts, by `skipped`, the one disagreement that suspension makes possible, and
only in the pane concerned; `suspend_drop` shows it. The server ends there (`NotEnough`), and a run goes on to that point.
A client may do nothing for ever, so deadlock is not checked.

Fairness of `ControlOutput`: `control_write_callback` ends and is called when there is nothing left to write; `server_client_loop` runs after every
pass of events and timers fire, which is strong fairness since in the model a callback in the middle takes the condition away for a while.
That the client reads is not assumed by the specification; `OutputFlows` has it as a premise (`Reads`), `ExitEnds` does without.

## 4. Proofs

`SessionDirProofs` proves, for any sets of daemons, hosts, names and prefixes and
any bounds, from `ConstantsAssumption` alone:

- `Invariance`: `Spec => []IInv`,
- `TypeCorrect`: `Spec => []TypeOK`,
- `LiveNames`: `Spec => LiveNameKept`, no step takes a name away from a running daemon
  unless the daemon gives it up itself or its own host's next daemon takes it over.

`IInv` is `TypeOK` and one conjunct per idea:

- `LockInv`: whoever is in a critical phase holds the lock, so at most one is;
- `LoopInv`: the loop's locals are in range while the loop runs;
- `VictimInv`: what the collector is about to unlink is still dead when it does. This
  is why the test and the `unlink()` may be two steps: under the lock a dangling alias stays dangling, and
  nobody revives a socket;
- `StartInv`: a daemon that has not come up holds no link but its random one;
- `IdentityInv`, `HolderInv`: a stable link leads to a daemon of that identity, or a dead
  one, and so does a name held under `resume_previous_token`. This is what makes `LiveNameKept` more than a guard:
  `OwnsName` compares with a token read long ago, and is right only because that token belonged to
  a daemon of the same host;
- `CleanInv`: between the exit cleanup's `readlinkat()` and `unlinkat()` the link is still its own.

Each action preserves each conjunct in a step of its own.

`SessionDirLinkProofs` goes on from `IInv`, with the same constants and one more assumption that says how the model writes file names:
`NoneAssumption`, no alias is `None`. `ConstantsAssumption` has the forms of a name (`NameAt`: plain, then numbered) differ from each other.

- `LinkInvariance`: `Spec => []LinkInv`. To `IInv` it adds what daemons remember of their links: a daemon that has none has put none there
  (`FreshInv`), the names it remembers are its own random one, its identity's or those of the name it registered (`RoInv`, `RwInv`), the stable links of an identity lead
  to who took it over and do not go back to the predecessor (`SeatInv`), and the links of a name come one after the other (`ProgressInv`).
  `NoNeedlessNumber` is one of its conjuncts (`NumbersNeeded`): that a form of the name is skipped because of another session remains true until
  the registration ends, since its holder cannot lose the name while the lock is held;
- `LinksWork` (`AdvertisedLinksWork`) and `CleanExit` (`ExitLeavesNothing`), by `OneNameInv`, if `MaxNames <= 1`. A host sends `session_name`
  once for each connection; the relay would take a second one, and then takes away a link of its own (section 5), so both are false for `MaxNames = 2`.
  `AskInv` counts the requests, `HeldInv` says that every alias that leads to a daemon is on the list its cleanup will go through, `SeatedInv` that
  what it handed out leads to it;
- `Implementation` (`ImplementsService`), if `MaxNames <= 1`, with scans at any time: each step of `SessionDir`, a system call each, is a step of `LinkService` or none.
  `MarkInv` says that the collector unlinks one socket at a time, so that the `unlink()` of a live one is `Hide` and of nothing else.
  Most are none: the lock is what makes the several calls of a registration one, and a dangling link leads nowhere in both.
  Where a link changes hands, `SeatInv` and `LockInv` show that the service allows it: only from nowhere, from oneself, or from an earlier
  session of the same host.

The liveness of the directory (`LeftoversCollected`) is model-checked only; that a scan spares live sockets is false (section 5).

`AcceptLoopProofs` proves, for any finite set of children, any descriptors, tokens, viewers and limits, from
`LimitsAssumption` alone, `Invariance` (`Spec => []IInv`) and what follows from it: `TypeCorrect` (no array overflows),
`Admitted` (the limit on children), `TablesAreSound` (`TablesSound`: the registry leads to open, tracked channels of the right
children, and `ipc_children` and the open descriptors agree) and `NoStrangersPassed`. The conjuncts of its `IInv`:

- `Counted`: the counter, as the code will have it once the child in hand is counted, is never below
  the number of this main process's children that are not reaped. `Admission` does not follow from itself: the
  check compares a number that the handler may have made stale. That the counter may be too *high* is
  in section 5;
- `ForkInv`, `ChildInv`: the child being counted has a channel nobody tracks; only children that were
  forked have channels; a message names claimed tokens only;
- `ChannelsTracked`: no descriptor or child occurs twice in `ipc_children`. With this,
  removing an entry by descriptor and by process id remove the same ones, and
  closing a channel leaves no registry entry of the same number behind: `RegistrySound`;
- `PassedInv`: what was passed on is no longer read, so the token in a request cannot change after
  the look-up, which `NoStrangers` needs.

`DropOthers` is the lemma about `a[i] = a[--n]` that the table invariants rest on.
The liveness of `route` is model-checked only.

`HostTunnelProofs` proves, for any set of addresses, genuine or not, from `AddressAssumption` alone: `Invariance`, and from it
`TunnelIsSafe` (`TunnelSafe`: `OneActivity`, `SingleWinner`, `NoDangling`, `LastServerOnce`) and the action property
`KeepsTrying` (`NeverGivesUp`). The named parts of `IInv` need each other: the loss
of a tunnel arms the timer only because `SingleWinner` makes its client the last one; a second look-up is impossible
because `OneActivity` has each timer fire alone; `LastIpFresh` says when an address is
remembered. `Killed` is the lemma about `KillTo` from which each callback's step
follows. `Reconnects` is liveness and model-checked only.

`SharingProofs` proves, for any panes, sessions and names and any bounds, from `SharingAssumption` alone, `Invariance` (`Spec => []IInv`), `TypeCorrect` and
`Handshake` (`HandshakeValid`). The daemon ends itself if an identity arrives that it did not ask for, or asked for
twice (`server/tmate-ssh-daemon.c` 904-906). That this never happens does not follow from the daemon's own flags: it depends on what is in both
queues. `HandshakeInv` counts: the requests on their way to the host and the answers on their way back are at
most one between them, none unless the daemon waits, and a daemon that waits has neither an identity nor viewers. It is kept by a
reconnection because both queues are emptied and a fresh encoder replays the request, and by an overflow because a
message that loses its head is never an identity (`TornKeeps`). The queue lemmas (`Keeps`, `Gained`) say what
appending and reading do to such counts; each action cites them. `TypeOK` includes the type of every queued message, from which follows that a
layout, a snapshot or output names existing panes only, and that no screen exceeds what was written (`WrittenTypes`). Three more layers
are about what is in the daemon's queue, each inductive with the ones before.

`ArrivalInvariance` proves `ArrivalInv`, from which follow `SnapshotsAccepted` (`SnapshotsTaken`) and `Waiting` (`ViewersWait`):

- `StageInv`: until the host has both capabilities nothing about panes is under way or has arrived, the header comes first, and only the first message
  can be torn. The second capability on its way to the host is behind the first one, unless the host has that or has failed;
- `SnapshotInv`: a snapshot comes right behind the layout of the same panes and before any other message about panes. This is why the
  daemon has these panes when it reads it: `StartSharing` queues both in one callback, only if there is room;
- `OrderInv`: the identity and the keys are applied, or come before anything about panes. A layout that has been read therefore
  implies both, and `announced` implies a layout. No layout is empty.

`ConfigComplete` (`ConfigIntact`) proves `ConfigInv`: what a daemon that will read on has applied, and what is queued, are `saved`, in order and once each.
`Rank` counts the commands in a queue; its lemmas say what reading, queueing and replaying do to it. A torn message at the head is excepted, because the daemon reads nothing after it and ends, and so is a connection that was refused.

`Mirroring` (`Mirror`) proves `PictureInv`:

- `LifeInv`: a pane is opened and closed once, nothing mentions one that was never opened, and a layout without a pane comes before anything
  about it, or after it was closed. So a screen that is dropped is never needed again;
- `LastInv`: the last layout under way is the one the host sent last, or the daemon has it;
- `ScreenInv`: for each pane, the chunks in the queue continue what the daemon has, or what the snapshot that is still to come has: all
  of them if the pane is one the host sends (`Flow`). Output before the layout that makes its pane is kept in order, and replayed whole.

`Mirroring` has one hypothesis, `OneSession`: all panes belong to the session that is shared. It is the case the properties of a screen are about: with a second
session on the host the code sends that session's layouts too (section 5), the daemon makes its panes blank although they have output, and drops those of
the shared session, whose screens are then blank when they come back. `Mirror` is false there, as TLC shows within sixteen steps. The `sharing` run has `OneSession` for the
same reason; `sharing_ends` has two sessions, and shows what does hold. The other theorems of `SharingProofs` have no hypothesis.

`SharingStarts`, `FailureEnds` and `LayoutCatchesUp` are liveness and model-checked only.

`InputEventsProofs` proves, for any finite set of connections and process ids, any applications and any bounds, from `ViewersAssumption`,
`AppsAssumption` and `BoundsAssumption`: `TypeCorrect`, `WebViewersAreRight`
(from `SharingEnds` and `CountRight`), `LeavesAnnounced`, `NobodyIsMissing` and `ModeIsFollowed`. `NobodyMissing` is about the end of a
queue that is still to be read, over a connection that may be lost; the lemmas `KnowJoined`, `KnowNot` and `KnowRead` say what one more message,
or one less, does to `WillKnow`, and each callback's step cites them. `ModeFollowsSubscribers` likewise reads the mode
off the end of the other queue. What they do not need is a bound on how many viewers or messages there are.

`CommandsProofs` proves, for any finite set of clients, any channels, command lines and hooks, from `CommandsAssumption` alone: `Invariance`
(`Spec => []IInv`), `TypeCorrect`, `NoWaitIsLost` (`NoWaitLost`) and the action property `NothingLeft` (`LoopLeavesNothing`). The conjuncts of `IInv`:

- `People`, `Queued`, `ChannelsGood`, `Watched`, `Counted`, `Looping`: types, one group of variables each;
- `PassedIdle`: a queue that had its turn in this pass of `server_loop` is not ready, unless something was fired since (`ran`). That is why one more pass
  is enough, although `cmdq_continue` may be called for a queue that is behind. `NothingLeft` says what can run when the loop has ended: a queue that waited
  when the passes were over and that the end of the loop let go on, or the empty global one with the hook of a window's event, and nothing else;
- `WaitersListed`: whoever waits is on the one list that belongs to the command it waits with, and on no other. It is both
  directions that make it inductive: a step that wakes somebody has to take it off its list;
- `DeadOnlyForJobs`: a lost client waits for a job or for nothing, so that the lists of channels never name a client that is gone.

`NoLockersLost` follows from `ChannelsGood`: the code frees a channel without a look at its lockers.

`Ordered` (`InOrder`) and `Exclusive` (`LockExclusive`) need more about the items of a queue. Every step does one of two things to a queue (`Moved`): what
is there follows from what was there (`Follows`: a map from the positions of the new queue to those of the old one that keeps the order, where an
item without a position is of the hook or of the `if-shell` command that the first item brought, and where a group is kept or dropped as a whole), or a new
line comes behind it (`Appended`). One lemma per action says which, and that no step does anything else; what holds of every queue
is then a matter of these two relations:

- `Sorted` is `InOrder` for any two items. `Ordered` needs nothing else, and has no hypothesis;
- `Grouped`, `Paired`, `Started`: only what a request brings unlocks, in its own group; between two unlocks of a line is a lock; and the only
  unlock whose lock has left the queue (`Owed`) belongs to the line that is on. So a queue owes a channel at most one unlock;
- `OneInside`, for each channel whose lock was not broken: whoever owes an unlock is inside, a line that a lock was passed to but that
  has not gone on yet (`Enters`) finds nobody inside, there is one of each at most, and in both cases the channel is locked. The last part is why
  `cmd_wait_for_unlock` may not open a channel that has lockers: the line that goes on next would find it taken.

`Exclusive` has the hypothesis `OwnLocks`: a line unlocks a channel only after it locked it, with no other unlock in between, and hooks and
`if-shell` unlock nothing. The code lets anybody unlock, and then two lines can be past the lock; the promise is to those who
keep to the rule. `MCCommands` assumes `OwnLocks`, so TLC checks that the lines of the run keep to it.

`ControlOutputProofs` proves, for any finite set of panes, any buffer sizes and any number of lines and bytes, from `ControlAssumption` alone:
`OutputInvariance` (`Spec => []IInv`), `TypeCorrect`, `OrderKept` (`LinesInOrder`), `BufferBounded` (`RepliesBounded`) and `OutputIsWatched`
(`OutputWatched`) and `OutputStaysInBuffer` (`OutputInBuffer`), none with a hypothesis: a suspended or exiting client is included, and what
`suspend_drop` shows is confined to the pane it happens to. The conjuncts of `IInv` talk about the client, its panes and the callback:

- `Sound`, with `Sorted` and `Orderly`: what was sent and what waits fit together. Output in the queue has a number that says how many lines must come
  first, and is never behind; the lines are numbered from the last one sent on, without a gap, and each `%begin` in the queue has its `%end` right behind it, unless the
  command is still running. A client that was cut off, has exited or is gone is excepted as the code does it: a queue that is given up is empty;
- `Watched`: a pane with blocks is in the pending list, once, and `EV_WRITE` is on unless the client has exited. It is kept by `CallbackDone`
  because a pass ends with panes left only if the buffer is over `CONTROL_BUFFER_HIGH`, so that the next drain calls back;
- `Limited`: the bound on what waits is kept in the middle of a pass by what the pass may still add. Either the share of each pane left is covered by
  what was free (`Shared`), or there was less than `CONTROL_WRITE_MINIMUM` for each and a pane only begins below the high mark (`Least`). What was made of blocks and
  not written yet (`message`) counts as used, since `control_write_pending` writes it before lines or at the end of the turn;
- `Filled`: only a pane whose output the client gets has blocks; they begin at `offset`, which was not drained, and end where `queued` says (`Marks`: within
  what the pane wrote), unless output was passed over meanwhile (`skipped`). `control_set_pane_on` and `control_continue_pane` move both offsets, which is right only because each of
  them finds the queue without blocks of the pane: the step that switched it off or paused it discarded them.

The lemmas about the model's operators are the greater part. A queue is reasoned about by places: `Rank` is how many of some places come up to one, `OnlyOrder` says that
removing blocks keeps the order of the others, `DropLines`, `AddLines`, `AddOutput` and `SendBlock` what each change of the queue does to places, numbers and sizes. On top of these,
`DiscardGoes`, `FlushGoes`, `WriteGoes`, `ReplyGoes` and their like say once what an operator of the code does to a client (`Follows`: no output comes,
and lines only while the client is not too far behind), and each action cites them.

Model-checked only: the liveness.

Beyond the prover in any case: liveness under fairness, and what a recursive definition computes
for every input. Where a proof needs the least of some numbers (`LeastNumber`: the
first session has panes, so no layout is empty), it cites `WFMin` and `NatLessThanWellFounded` for the set in question.

## 5. What the checks found

Two runs show a disagreement between the code and what it says of itself:

- `listen_race`: the collector takes "connection refused" for "dead" (`server/tmate-ssh-server.c` 669-670, 729-734), but
  `server_create_socket` (`server.c` 112-155) binds and listens in two calls and without the directory lock. A scan that falls in between unlinks the
  socket of a daemon that then serves its host but cannot be reached. In `LinkService` such a session is hidden.
- `suspend_drop`: the two offsets of a control pane are the data written and the data queued (`control.c` 72-76), and a block that announces more than there
  is behind the first ends the server (`fatalx("not enough data")`, 828-829). When output arrives for a client that is suspended, or is to
  exit, `control_write_output` sets both to the end (664-668) although blocks are still queued. The next write for that client
  takes such a block.

The models do the following as well, seen with TLC or while they were written and not kept as runs. In the relay:

- The message that is *read* last decides the registry's entry, not the claim that was made last
  (`server/tmate-sse-mux.c` 62-76, `server/tmate-ssh-daemon.c` 930-933). The links may then lead to the new daemon and web viewers to the old one, and to nobody
  once that one exits.
- The collector is to remove a symbolic link that leads nowhere (`server/tmate-ssh-server.c` 670-672), but passes over names that begin with a
  dot (695-696), as those that `tmtv_alias_replace` makes and renames (`server/tmate-resume.c` 66-67). A daemon that dies in between leaves one for
  ever (`temps`). Nothing advertises it, so it costs a directory entry; `LeftoversCollected` leaves it out.
- A failing `accept()` ends the main process (`server/tmate-ssh-server.c` 1114-1119), also for errors that pass, as when descriptors run out or a client
  gives up early. Sessions that outlive it cannot be reached by web viewers any more: their daemons stop listening to the channel
  (`server/tmate-websocket.c` 2517-2535), and the next main process does not count them.
- `sendmsg()` to a daemon whose channel is full waits (`server/tmate-sse-mux.c` 155): the main process then serves nobody.
- `active_children++` (`server/tmate-ssh-server.c` 1165) follows `fork()` with SIGCHLD unblocked, and the handler does
  not go below zero (657-658). A child that dies and is reaped before it is counted leaves the counter one too
  high for the life of the server, which then rejects connections below its limit (1121-1127).
- The loop over parked connections (`server/tmate-ssh-server.c` 1022-1047) moves the last one into the slot of a finished one
  and judges it by that slot's poll result; one that has become ready as its time runs out is closed instead of routed.

In the host and the session daemon:

- `on_encoder_write` kills the client when the connection is gone (`tmate-ssh-client.c` 112-118), while
  its comment leaves that to the SSH event handler (107-108). `SSH_BOOTSTRAP` calls it through
  `tmate_encoder_set_ready_callback` (548), and goes on with the client that was freed (`freedUsed`).
- `tmate_status` (`tmate-encoder.c` 379-381) remembers the last text in static variables, across
  encoders. After a reconnection the new daemon has no status line until the text changes, although 782 says "Send current status so
  late-joining viewers get it immediately". With a clock in the status line it lasts a minute.
- "Complete control frames must never be partially queued or head-truncated" (`tmate-msgpack.c` 86). A frame is
  not cut when it is queued, but pane output that follows drains the head of the buffer past the limit (51-53, 59-60),
  whatever is there. The daemon then ends (`DaemonTorn`).
- "Additional sessions work locally" (`cmd-new-session.c` 34-35), but `session.c` 357, 386 and 553 send the layout of
  whatever session changes, and the daemon shows it, with blank screens, until `ServerLoop` sends the shared one in the next turn, whose screens
  are then blank too; `LayoutCatchesUp` and `SnapshotsTaken` say what still holds.
- A second `session_name` for the name already held makes `register_session_name_locked`
  remove the read-only link it has just installed (`server/tmate-ssh-daemon.c` 829-838). The
  hosts here never send it.
- The `unlink()` of the jail's hard link in `cleanup_session_files` (220-231) names a path outside the
  chroot the daemon lives in; the collector removes the link later, which `LeftoversCollected` relies on.
- Output for a pane the daemon does not have yet is kept up to 128 KB, of which the oldest part goes (`server/tmate-daemon-decoder.c` 1018), and
  `respawn-pane` clears a screen without telling the daemon (`spawn.c` 329); `Sharing` leaves both out.

In the viewers and the input socket:

- A client that leaves is counted in the number that is broadcast when it does (`server_client_lost` tells before it takes the client off the
  list), so the count of SSH viewers stays one too high until the next change. `WebViewersRight` is about web viewers for that reason.
- A POST names the viewer it is from, and its connection's end announces that viewer's leave although the event stream is
  still there (`server/tmate-websocket.c` 1689). Ids of event streams and process ids of SSH viewers are announced as one kind of
  number. `disowned` stands for both.
- `c->readonly` is never assigned, so SSH viewers with a read-only link are announced as users that can type, which
  `docs/input-socket.md` 40 excludes.
- An application that sets the mirror without having subscribed switches the mode on (`tmate-input-socket.c` 346), and nothing
  switches it off when it goes.
- After a reconnection the new daemon is not told the mode, and `input_users` keeps the viewers of the old one, until the first
  subscriber comes or the last one goes.
- If the list of users cannot be written to a new subscriber, `send_user_list` frees it and the handler goes on with it (`SubscribeLost`).

In the command queue:

- A client that is lost while its first item waits for a shell job is never freed, which `NoWaitLost` does not forbid: the job's end continues the item (`cmd-run-shell.c` 295),
  but `server_loop` runs the queues of the clients in the list only, and the lost one has left it (`server-client.c` 511-515).
  `regress/control-client-run-shell-exit.sh` 4-5 expects the queue to refer to the client "until the job callback runs".
- A hook is parsed once, so that all its firings share a group (`hooks.c` 74, `cmd-queue.c` 767): an error in one firing also drops the commands of
  the next firing that are queued already (`InOrder` is about what stays).
- A hook is skipped when the first item of the global queue is of a hook and has been continued but not run again (`hooks.c` 249).
- Two signals in a row on a channel nobody waits on cancel out; `-w` lets a locker in without giving it the lock;
  a client that dies with the lock leaves it locked; the events of windows and, when the server is to
  exit, `cmd_wait_for_flush` come after the queues have been run, so what they wake or insert runs in the next turn, when the event loop next has one.

In control mode:

- A block of a pane whose window has left the session is dropped without the offset (870-878), and output of a pane
  may be sent before lines that were queued earlier behind another pane's block, since each pass goes through the panes and not the queue.
- What was made of a pane's earlier blocks in a pass is thrown away when a later block is too old (881-886).
- The exit timer that fires while the client is suspended is not started again once it is `EXITED` (`server-client.c` 2441),
  which `ExitEnds` excludes.

Left open: a timer that fires while `tmtv-server-host` is empty is not armed again (`tmate-session.c` 104), a key with a
passphrase waits for the relay's grace period (`tmate-ssh-client.c` 469), and a relay that accepts and then drops is retried
every two seconds at the same address (528). The models have these behaviours and no property excludes them.

## 6. Plan

Done in this order: the sessions directory and the collector, because a mistake there hands a
viewer to a stranger or loses a session silently; then the accept loop with the registry, because every viewer and every host passes through it;
then the host's side of the connection, and then what goes over it (`Sharing`), which decides what every viewer sees; then the viewers with the input
socket, because they need both ends; then the two parts of the tmux core in which callbacks change each other's queues, `Commands` and `ControlOutput`. What is left:

1. Proofs: an abstract router (a map from tokens to live daemons) that `AcceptLoop` implements up to late registrations.
2. An abstract specification of `Sharing`, a view that is reset on loss and otherwise follows the host, for `PictureInv` to map to. Clearing of screens.
3. Backpressure of the daemon's buffers, the web viewers' replay ring and the prefix state of their input, the idle timer.
4. Layout arithmetic (`layout*.c`) as pure operators checked against a reference definition.

Most of the repository is tmux: parsers, drawing, formats, options and some ninety commands, sequential code over large data with one caller
at a time. Its state machines are in the modules above; the rest of the lines would add nothing a model checker could tell apart.

Not modelled: terminal emulation, drawing, options, formats, key tables, modes and command parsing
(large sequential data, covered by `regress/`), window sizes and subscriptions of control
mode clients, the recording, cryptography and libssh (external), system
set-up, logging, `compat/`, `site/`, `deploy/`, `scripts/`.
