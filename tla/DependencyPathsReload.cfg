SPECIFICATION Spec
CONSTANTS
    Modules <- MCModules
    Provides <- MCProvides
    AzureFunctions = "azure"
    Reloaded = {"azure", "google"}
    Layouts <- MCLayouts
    NotLoaded = NotLoaded
INVARIANTS
    SearchOrder
