CONSTANTS
    order = order
    live = live
    place = place
    again = again
    await = await
    wait = wait
    look = look
    redo = redo
    retry = retry
    clear = clear
    reset = reset
    notify = notify
    Identities = {order, live}
    Persisted = {order}
    Kind <- KindOfEach
    Of <- OfEach
    Calls = {place, again, look, redo, retry, clear, reset}
    Exits = {"Success"}
    Scheduled = {}
    MaxRequests = 2
    MaxFaults = 0
SYMMETRY CallSymmetry
SPECIFICATION Spec
INVARIANTS
    TypeOK
    RerunSparesLaterSends
    RerunForgets
CHECK_DEADLOCK FALSE
