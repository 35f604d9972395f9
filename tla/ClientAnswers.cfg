CONSTANTS
    order = order
    live = live
    place = place
    again = again
    await = await
    wait = wait
    look = look
    redo = redo
    retry = retry
    clear = clear
    reset = reset
    notify = notify
    Identities = {order, live}
    Persisted = {order}
    Kind <- KindOfEach
    Of <- OfEach
    Calls = {place, await, wait, redo, notify}
    Exits = {"Success"}
    Scheduled = {await}
    MaxRequests = 2
    MaxFaults = 1
SPECIFICATION FairSpec
PROPERTIES
    SendsAreAnswered
    
    SendAndAwaitEnds
CHECK_DEADLOCK FALSE
